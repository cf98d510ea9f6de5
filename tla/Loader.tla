------------------------------- MODULE Loader -------------------------------
(***************************************************************************)
(* LoadCases of loader.go: the case files below a directory are listed,    *)
(* read (through the calendar of testcalendar when the source is wrapped), *)
(* freed of comments, decoded, validated and collected; the first error    *)
(* ends the load.                                                          *)
(*                                                                         *)
(* A path is the sequence of its characters' ranks, so that the order of   *)
(* sort.Strings is that of the sequences; an extension is one character.   *)
(* A string of a case file is a text and whether blanks surround it.  The  *)
(* text of a file is a sequence of bytes in which one mark stands for the  *)
(* JSON document, whose contents is given beside it.                       *)
(***************************************************************************)
EXTENDS Jsonc, TestCalendar

CONSTANTS
    Families,  \* the case sources, in sets of those alike
    Handlers   \* the names in the registry

Dot == 1
Separator == 2
JsoncExtension == 9
rootDir == <<7>>

Document == "document"

\* caseFile of dto.go and what it is made of, with the text it is decoded from.
CaseString == [text : STRING, padded : BOOLEAN]
StepDoc ==
    [id : CaseString, kind : CaseString, handler : CaseString, request : STRING,
     retry : SUBSET [timeout_ms : Int, interval_ms : Int, max_attempts : Int]]
AssertDoc == [code : STRING, from : CaseString, response : STRING, mode : STRING]
CaseDoc ==
    [known : BOOLEAN, name : CaseString, steps : Seq(StepDoc), assert : AssertDoc,
     literals : Seq([key : STRING, value : Literal])]
CaseFile == [readable : BOOLEAN, text : Seq(STRING), doc : CaseDoc]

Join(dir, name) == dir \o <<Separator>> \o name

IsEntry(s, path, isDir) ==
    \E dir \in DOMAIN s.dirs : \E entry \in Range(s.dirs[dir].entries) :
        entry.isDir = isDir /\ path = Join(dir, entry.name)

\* The directories of a source are a tree below rootDir: every other directory and every
\* file is an entry of a directory.  An entry may name a file that is gone.
IsTree(s) ==
    /\ IsFiniteSet(DOMAIN s.dirs) /\ DOMAIN s.dirs \subseteq Seq(Nat)
    /\ rootDir \in DOMAIN s.dirs
    /\ \A dir \in DOMAIN s.dirs :
          /\ s.dirs[dir].entries \in Seq([name : Seq(Nat), isDir : BOOLEAN])
          /\ \A entry \in Range(s.dirs[dir].entries) :
                entry.isDir => Join(dir, entry.name) \in DOMAIN s.dirs
          /\ dir # rootDir => IsEntry(s, dir, TRUE)
    /\ \A path \in DOMAIN s.files : IsEntry(s, path, FALSE)

ASSUME FamiliesAssumption ==
    \A family \in Families : \A s \in family :
        /\ IsTree(s)
        /\ \A path \in DOMAIN s.files : s.files[path] \in CaseFile

VARIABLES
    source,      \* the case source: directories, files, and whether it is wrapped
    stage,       \* "list", "next", "strip", "decode", "steps", "assert", "loaded" or "failed"
    paths,       \* casePaths not yet loaded
    file,        \* the file being loaded: its path, its text and its document
    parser,      \* the local variables of stripJSONCComments
    loadedSteps, \* the steps of the case that are mapped
    loadedCases  \* the cases that are loaded

vars == <<source, stage, paths, file, parser, loadedSteps, loadedCases>>

NoFile == <<>>

Init ==
    /\ \E family \in Families : source \in family
    /\ stage = "list"
    /\ paths = <<>>
    /\ file = NoFile
    /\ parser = NewParser
    /\ loadedSteps = <<>>
    /\ loadedCases = <<>>

\* Every error of a stage is wrapped and returned by LoadCases, with no cases.
Fail ==
    /\ stage' = "failed"
    /\ loadedCases' = <<>>
    /\ UNCHANGED <<source, paths, file, parser, loadedSteps>>

-----------------------------------------------------------------------------
(* Listing. *)

\* path.Ext.
IsJsonc(name) ==
    /\ Len(name) >= 2
    /\ name[Len(name) - 1] = Dot /\ name[Len(name)] = JsoncExtension

\* The order of sort.Strings.
Before(p, q) ==
    \E i \in 1 .. Len(q) :
        /\ i <= Len(p) + 1
        /\ \A j \in 1 .. i - 1 : p[j] = q[j]
        /\ i <= Len(p) => p[i] < q[i]

\* sort.Strings: a string goes to the place that those before it leave.
Place(strings, i) ==
    Cardinality({j \in DOMAIN strings :
        Before(strings[j], strings[i]) \/ (strings[j] = strings[i] /\ j <= i)})

Sorted(strings) ==
    [k \in DOMAIN strings |-> strings[CHOOSE i \in DOMAIN strings : Place(strings, i) = k]]

\* The paths that an entry of a directory adds, those of the directories being known.
entryPaths(dir, entry, nestedPaths) ==
    IF entry.isDir THEN nestedPaths[Join(dir, entry.name)]
    ELSE IF IsJsonc(entry.name) THEN <<Join(dir, entry.name)>> ELSE <<>>

casePathsOf(dir, entries, nestedPaths) ==
    LET casePaths[n \in 0 .. Len(entries)] ==
            IF n = 0 THEN <<>>
            ELSE casePaths[n - 1] \o entryPaths(dir, entries[n], nestedPaths)
    IN  casePaths[Len(entries)]

\* Fault: the paths are left in the order in which the directories are read.
listCasePathsUnsorted(dirs) ==
    LET pathsIn[dir \in DOMAIN dirs] == casePathsOf(dir, dirs[dir].entries, pathsIn)
    IN  pathsIn[rootDir]

\* The entries of a directory come in the order of their names; what is found below
\* them is sorted as a whole.
listCasePaths(dirs) ==
    LET pathsIn[dir \in DOMAIN dirs] == Sorted(casePathsOf(dir, dirs[dir].entries, pathsIn))
    IN  pathsIn[rootDir]

ListFails ==
    \/ \E dir \in DOMAIN source.dirs : ~source.dirs[dir].readable
    \/ listCasePaths(source.dirs) = <<>>

ListCases ==
    /\ stage = "list"
    /\ ~ListFails
    /\ paths' = listCasePaths(source.dirs)
    /\ stage' = "next"
    /\ UNCHANGED <<source, file, parser, loadedSteps, loadedCases>>

-----------------------------------------------------------------------------
(* Reading, and the decoders. *)

\* encoding/json: one document, with nothing but line breaks around it.
DecodesJSON(text) ==
    /\ Range(text) \subseteq {Newline, Document}
    /\ Cardinality({i \in DOMAIN text : text[i] = Document}) = 1

\* hujson.Parse.
ParsesJSONC(text) == ~Unterminated(text) /\ DecodesJSON(Uncommented(text))

\* source.ReadFile, wrapped: the document is parsed with its comments, its macros are
\* resolved, and Standardize leaves plain JSON.  A listed file may be gone by then.
ReadFails(path) ==
    path \in DOMAIN source.files =>
        LET content == source.files[path]
        IN  \/ ~content.readable
            \/ source.calendar
               /\ (~ParsesJSONC(content.text) \/ transformFails(content.doc.literals))

ReadFile(path, content) ==
    IF source.calendar
    THEN [path |-> path, text |-> <<Document>>,
          doc |-> [content.doc EXCEPT !.literals = transformJSONC(content.doc.literals)]]
    ELSE [path |-> path, text |-> content.text, doc |-> content.doc]

ReadCase ==
    /\ stage = "next" /\ paths # <<>>
    /\ ~ReadFails(Head(paths))
    /\ file' = ReadFile(Head(paths), source.files[Head(paths)])
    /\ paths' = Tail(paths)
    /\ parser' = NewParser
    /\ stage' = "strip"
    /\ UNCHANGED <<source, loadedSteps, loadedCases>>

StripByte ==
    /\ stage = "strip"
    /\ ~Done(file.text, parser)
    /\ parser' = stripJSONCComments(file.text, parser)
    /\ UNCHANGED <<source, stage, paths, file, loadedSteps, loadedCases>>

\* A comment that is open at the end is an error, unless it ends with its line.
StripEnds ==
    /\ stage = "strip" /\ Done(file.text, parser)
    /\ parser.state # "block"
    /\ stage' = "decode"
    /\ UNCHANGED <<source, paths, file, parser, loadedSteps, loadedCases>>

TrimSpace(string) == string.text

\* decodeCaseFile, and the first checks of mapCaseFile.
DecodeFails ==
    \/ ~DecodesJSON(parser.result) \/ ~file.doc.known
    \/ TrimSpace(file.doc.name) = ""
    \/ file.doc.steps = <<>>

DecodeCase ==
    /\ stage = "decode"
    /\ ~DecodeFails
    /\ loadedSteps' = <<>>
    /\ stage' = "steps"
    /\ UNCHANGED <<source, paths, file, parser, loadedCases>>

-----------------------------------------------------------------------------
(* Steps. *)

StepKinds == {"prepare", "action", "publish", "await", "verify", "cleanup"}

\* A retry policy for await steps and no others, all of it positive.
mapAwaitRetryFails(kind, retry) ==
    IF kind # "await" THEN retry # {}
    ELSE \/ retry = {}
         \/ \E r \in retry : r.timeout_ms <= 0 \/ r.interval_ms <= 0 \/ r.max_attempts <= 0

\* A request with a template is decoded when its step runs.
requestContainsStepTemplate(request) == request = "template"

\* The registry is a map.
Resolve(name) == name \in Handlers

mapStepFails(step) ==
    \/ TrimSpace(step.id) = ""
    \/ TrimSpace(step.kind) \notin StepKinds
    \/ ~Resolve(TrimSpace(step.handler))
    \/ step.request = "missing"
    \/ ~requestContainsStepTemplate(step.request) /\ step.request = "invalid"
    \/ mapAwaitRetryFails(TrimSpace(step.kind), step.retry)

mapStep(step) ==
    [id |-> TrimSpace(step.id), kind |-> TrimSpace(step.kind), handler |-> TrimSpace(step.handler),
     dynamic |-> requestContainsStepTemplate(step.request), retry |-> step.retry]

stepsByID == {s.id : s \in Range(loadedSteps)}

\* Fault: ids are compared with the blanks around them.
duplicatedUntrimmed(step) == ~step.id.padded /\ TrimSpace(step.id) \in stepsByID

duplicated(step) == TrimSpace(step.id) \in stepsByID

NextStep == file.doc.steps[Len(loadedSteps) + 1]
StepsLeft == Len(loadedSteps) < Len(file.doc.steps)

MapStep ==
    /\ stage = "steps" /\ StepsLeft
    /\ ~mapStepFails(NextStep) /\ ~duplicated(NextStep)
    /\ loadedSteps' = Append(loadedSteps, mapStep(NextStep))
    /\ UNCHANGED <<source, stage, paths, file, parser, loadedCases>>

StepsEnd ==
    /\ stage = "steps" /\ ~StepsLeft
    /\ stage' = "assert"
    /\ UNCHANGED <<source, paths, file, parser, loadedSteps, loadedCases>>

-----------------------------------------------------------------------------
(* The assert block, and the case. *)

Success == "OK"

HasAction == \E s \in Range(loadedSteps) : s.kind = "action"

\* The step whose response is compared: the declared one, else the last action.
HasTarget(assert) ==
    IF TrimSpace(assert.from) = "" THEN HasAction ELSE TrimSpace(assert.from) \in stepsByID

\* A partial response, and one with matchers, is kept as raw JSON and is not decoded
\* by the handler.  A null is a response that is given.
mapSuccessAssertResponseFails(assert) ==
    \/ assert.response = "missing"
    \/ ~HasTarget(assert)
    \/ assert.mode # "partial" /\ assert.response = "invalid"

mapAssertSectionFails(assert) ==
    LET from == TrimSpace(assert.from)
    IN  \/ assert.code = "unknown"
        \/ from # "" /\ from \notin stepsByID
        \/ assert.response # "missing" /\ from = "" /\ ~HasAction
        \/ assert.mode \notin {"", "exact", "partial"}
        \/ assert.code # Success /\ assert.mode # ""
        \/ assert.code = Success /\ mapSuccessAssertResponseFails(assert)

\* Raw JSON, what the handler decoded, or nil.  A null is nil as raw JSON, and "null"
\* stands for one that the handler decodes to nil as well; a handler that makes a value
\* of its own of it, or refuses it, is given "valid" or "invalid".
mapSuccessAssertResponse(assert) ==
    IF assert.response = "null" THEN "nil"
    ELSE IF assert.mode = "partial" \/ assert.response = "matcher" THEN "raw"
    ELSE "typed"

mapAssertSection(assert) ==
    [code |-> assert.code, from |-> TrimSpace(assert.from),
     mode |-> IF assert.mode = "" THEN "exact" ELSE assert.mode,
     response |-> IF assert.code = Success THEN mapSuccessAssertResponse(assert) ELSE "nil"]

seenNames == {c.name : c \in Range(loadedCases)}

validateUniqueCaseName(name) == name \notin seenNames

MapAssertFails ==
    \/ mapAssertSectionFails(file.doc.assert)
    \/ ~validateUniqueCaseName(TrimSpace(file.doc.name))

MapAssert ==
    /\ stage = "assert"
    /\ ~MapAssertFails
    /\ loadedCases' = Append(loadedCases,
          [name |-> TrimSpace(file.doc.name), path |-> file.path, steps |-> loadedSteps,
           assert |-> mapAssertSection(file.doc.assert)])
    /\ stage' = "next"
    /\ UNCHANGED <<source, paths, file, parser, loadedSteps>>

LoadEnds ==
    /\ stage = "next" /\ paths = <<>>
    /\ stage' = "loaded"
    /\ UNCHANGED <<source, paths, file, parser, loadedSteps, loadedCases>>

\* The error returns of the stages.
LoadFails ==
    /\ \/ stage = "list" /\ ListFails
       \/ stage = "next" /\ paths # <<>> /\ ReadFails(Head(paths))
       \/ stage = "strip" /\ Done(file.text, parser) /\ parser.state = "block"
       \/ stage = "decode" /\ DecodeFails
       \/ stage = "steps" /\ StepsLeft /\ (mapStepFails(NextStep) \/ duplicated(NextStep))
       \/ stage = "assert" /\ MapAssertFails
    /\ Fail

Next ==
    \/ ListCases \/ ReadCase \/ StripByte \/ StripEnds \/ DecodeCase
    \/ MapStep \/ StepsEnd \/ MapAssert \/ LoadEnds \/ LoadFails

Spec == Init /\ [][Next]_vars

-----------------------------------------------------------------------------
(* Properties. *)

\* stripJSONCComments gives the text without its comments: strings and escapes in
\* them are untouched, line breaks stay, and only an open block comment is an error.
StripIsReference ==
    /\ stage = "decode" => /\ parser.result = Uncommented(file.text)
                           /\ ~Unterminated(file.text)
    /\ stage = "strip" /\ Done(file.text, parser) =>
          (parser.state = "block" <=> Unterminated(file.text))

\* LoadCases returns one case for every .jsonc file of the tree, in the order of the
\* paths, with names that are all different.
LoadedInOrder ==
    stage = "loaded" =>
        LET loaded == [i \in DOMAIN loadedCases |-> loadedCases[i].path]
        IN  /\ Range(loaded) = {p \in DOMAIN source.files : IsJsonc(p)}
            /\ \A i, j \in DOMAIN loaded : i < j =>
                  Before(loaded[i], loaded[j]) /\ loadedCases[i].name # loadedCases[j].name

GivenAsNull(c) == source.files[c.path].doc.assert.response = "null"

\* What runCase and executeAwaitStep take for granted holds of every loaded case: its
\* steps have names of their own and handlers, await steps and no others a policy they
\* can follow, a success assert a step to compare the response with, and the assert
\* block names no step that does not exist.  A success assert has a response, with one
\* exception that the loader accepts and assertSuccessfulCaseResult refuses in exact
\* mode ("expected response is nil"): a null in the case file.
AcceptedIsRunnable ==
    \A c \in Range(loadedCases) :
        LET ids == {s.id : s \in Range(c.steps)}
        IN  /\ c.name # "" /\ c.steps # <<>>
            /\ Cardinality(ids) = Len(c.steps) /\ "" \notin ids
            /\ \A s \in Range(c.steps) :
                  /\ s.kind \in StepKinds /\ s.handler \in Handlers
                  /\ (s.kind = "await") = (s.retry # {})
                  /\ \A r \in s.retry : r.timeout_ms > 0 /\ r.interval_ms > 0 /\ r.max_attempts > 0
            /\ c.assert.from \in ids \cup {""}
            /\ c.assert.code = Success =>
                  /\ \/ c.assert.response \in {"raw", "typed"}
                     \/ c.assert.response = "nil" /\ GivenAsNull(c)
                  /\ c.assert.from = "" => \E s \in Range(c.steps) : s.kind = "action"
            /\ c.assert.code # Success => c.assert.mode = "exact" /\ c.assert.response = "nil"

\* The macros of a file that was read (resolveStringValue, calendar.go) denote what
\* their offset and zone say: see ZoneLaw, OffsetLaw and DateLaw.
MacroDenotesInstant ==
    stage = "strip" /\ source.calendar =>
        \A i \in DOMAIN source.files[file.path].doc.literals :
            LET macro == source.files[file.path].doc.literals[i].value
            IN  isMacro(macro) => ZoneLaw(macro) /\ OffsetLaw(macro) /\ DateLaw(macro)
=============================================================================
