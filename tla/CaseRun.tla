------------------------------- MODULE CaseRun -------------------------------
(***************************************************************************)
(* runCase of runner.go: the steps of one case in declared order, request  *)
(* templates filled from earlier outputs, cleanup steps that run after a   *)
(* failure, and the assert block judging what is left.                     *)
(*                                                                         *)
(* A step's Invoke is a call and a return with any outcome; the retries of *)
(* an await step are the module AwaitRetry.  runCase never looks at its    *)
(* runContext: a cancellation shows as an error that Invoke returns.       *)
(* Whether the loader left a nil response, and whether two responses       *)
(* match, is a choice here; see Loader and ResponseMatch.                  *)
(***************************************************************************)
EXTENDS Integers, Sequences

CONSTANTS
    NumSteps,  \* how many steps the case declares
    TestCases, \* the cases a loader may have produced
    Codes      \* the status codes, other than success, that errors carry

ASSUME NumStepsAssumption == NumSteps \in Nat

Steps == 1 .. NumSteps
StepKinds == {"prepare", "action", "publish", "await", "verify", "cleanup"}

\* In a template a step that does not exist, in the assert block no step.
NoStep == 0

Success == "OK"
Errors == Codes \cup {"canceled", "deadline", "opaque"}

\* A case: the kind of each step, the steps its request template refers to, the
\* asserted code and assert.response_from_step.
Case == [kind : [Steps -> StepKinds],
         refs : [Steps -> SUBSET (Steps \cup {NoStep})],
         code : Codes \cup {"canceled", "deadline", Success},
         from : Steps \cup {NoStep}]

ASSUME TestCasesAssumption == TestCases \subseteq Case
\* The loader refuses a success assert that has no step to compare with.
ASSUME TargetAssumption ==
    \A c \in TestCases :
        c.code = Success /\ c.from = NoStep => \E s \in Steps : c.kind[s] = "action"
ASSUME CodesAssumption == \A c \in Codes : c \notin {Success, "canceled", "deadline", "opaque"}

VARIABLES
    case,      \* the case
    dump,      \* responseDumpCaseName names this case
    pc,        \* "loop", "invoking", "assert", "done" or "exited"
    step,      \* the step the loop is at
    status,    \* what became of each step
    outputs,   \* the keys of stepOutputs
    lastAction,\* lastActionStepID
    errs,      \* executionErr: the errors joined into it, in order
    verdict    \* what runCase returned: "none" yet, "pass", "fail" or "dump"

vars == <<case, dump, pc, step, status, outputs, lastAction, errs, verdict>>

Statuses == {"pending", "skipped", "unresolved", "ok", "failed"}

TypeOK ==
    /\ case \in TestCases
    /\ dump \in BOOLEAN
    /\ pc \in {"loop", "invoking", "assert", "done", "exited"}
    /\ step \in 1 .. NumSteps + 1
    /\ pc = "invoking" => step \in Steps
    /\ status \in [Steps -> Statuses]
    /\ outputs \in SUBSET (1 .. step - 1)
    /\ lastAction \in Steps \cup {NoStep}
    /\ errs \in Seq(Errors)
    /\ verdict \in {"none", "pass", "fail", "dump"}

Init ==
    /\ case \in TestCases
    /\ dump \in BOOLEAN
    /\ pc = "loop"
    /\ step = 1
    /\ status = [s \in Steps |-> "pending"]
    /\ outputs = {}
    /\ lastAction = NoStep
    /\ errs = <<>>
    /\ verdict = "none"

IsCleanup(s) == case.kind[s] = "cleanup"

-----------------------------------------------------------------------------
(* The loop over the steps. *)

\* The loop turns to the next step, with this one ended as given.
Advance(ended) ==
    /\ status' = [status EXCEPT ![step] = ended]
    /\ step' = step + 1
    /\ pc' = "loop"

\* executionErr: a cleanup error is joined to it, any other error can only be
\* the first.
RecordError(err) == errs' = Append(errs, err)

\* Fault: a failure does not stop the case.
NeverSkips(s) == FALSE

\* Fault: the loop breaks at the first error.
SkipsAll(s) == errs # <<>>

Skips(s) == errs # <<>> /\ ~IsCleanup(s)

SkipStep ==
    /\ pc = "loop" /\ step \in Steps
    /\ Skips(step)
    /\ Advance("skipped")
    /\ UNCHANGED <<case, dump, outputs, lastAction, errs, verdict>>

\* resolveStepRequest: every referenced step has stored its output.
Resolvable(s) == case.refs[s] \subseteq outputs

\* A template may also fail on a path that the output does not have, or on the
\* handler's decoding of what the template became.
UnresolvedStep ==
    /\ pc = "loop" /\ step \in Steps
    /\ ~Skips(step)
    /\ case.refs[step] # {}
    /\ RecordError("opaque")
    /\ Advance("unresolved")
    /\ UNCHANGED <<case, dump, outputs, lastAction, verdict>>

\* Fault: the output's slot is taken before there is an output.
InvokeStepStores ==
    /\ pc = "loop" /\ step \in Steps
    /\ ~Skips(step)
    /\ Resolvable(step)
    /\ pc' = "invoking"
    /\ outputs' = outputs \cup {step}
    /\ UNCHANGED <<case, dump, step, status, lastAction, errs, verdict>>

InvokeStep ==
    /\ pc = "loop" /\ step \in Steps
    /\ ~Skips(step)
    /\ Resolvable(step)
    /\ pc' = "invoking"
    /\ UNCHANGED <<case, dump, step, status, outputs, lastAction, errs,
                   verdict>>

\* Fault: the output of a failed step is stored as well.
StoresAlways(ok) == TRUE

StoresOutput(ok) == ok

\* Fault: any step that succeeds may become the assert target.
BecomesTargetAlways(s) == TRUE

BecomesTarget(s) == case.kind[s] = "action"

StepReturns(ok) ==
    /\ pc = "invoking"
    /\ outputs' = IF StoresOutput(ok) THEN outputs \cup {step} ELSE outputs
    /\ \/ /\ ok
          /\ lastAction' = IF BecomesTarget(step) THEN step ELSE lastAction
          /\ Advance("ok")
          /\ UNCHANGED errs
       \/ /\ ~ok
          /\ \E err \in Errors : RecordError(err)
          /\ Advance("failed")
          /\ UNCHANGED lastAction
    /\ UNCHANGED <<case, dump, verdict>>

\* A harness that calls t.FailNow leaves the goroutine from inside Invoke.
FailNow ==
    /\ pc = "invoking"
    /\ pc' = "exited"
    /\ UNCHANGED <<case, dump, step, status, outputs, lastAction, errs,
                   verdict>>

LoopEnds ==
    /\ pc = "loop"
    /\ step = NumSteps + 1
    /\ pc' = "assert"
    /\ UNCHANGED <<case, dump, step, status, outputs, lastAction, errs,
                   verdict>>

-----------------------------------------------------------------------------
(* assertCaseResult. *)

\* The step whose response is compared.
Target == IF case.from # NoStep THEN case.from ELSE lastAction

Holds(err) == \E k \in 1 .. Len(errs) : errs[k] = err

\* Where executionErr has errors that carry a status code, in the order of the join.
Coded == {k \in 1 .. Len(errs) : errs[k] \in Codes}

\* FromError of the gRPC ErrorInspector over the joined error: errors.Is finds
\* the context errors anywhere in it, then the first status error counts.
FromError ==
    IF Holds("canceled") THEN "canceled"
    ELSE IF Holds("deadline") THEN "deadline"
    ELSE IF Coded # {} THEN errs[CHOOSE k \in Coded : \A j \in Coded : k <= j]
    ELSE "opaque"

\* A nil response is refused in exact mode, before anything else.  The response mode,
\* matchers and message_contains decide whether another one matches.
assertSuccessfulCaseResult(isNil, matches) ==
    IF isNil \/ Target \notin outputs THEN "fail"
    ELSE IF dump THEN "dump"
    ELSE IF matches THEN "pass" ELSE "fail"

\* Fault: only the absence of an error is asserted.
assertExpectedAnyError(messageMatches) ==
    IF errs # <<>> /\ messageMatches THEN "pass" ELSE "fail"

assertExpectedErrorResult(messageMatches) ==
    IF errs # <<>> /\ FromError = case.code /\ messageMatches THEN "pass" ELSE "fail"

\* Fault: an error of a case that is to succeed is overlooked.
UnexpectedErrorOverlooked == FALSE

UnexpectedError == errs # <<>>

assertCaseResult ==
    /\ pc = "assert"
    /\ pc' = "done"
    /\ \E isNil, matches \in BOOLEAN :
          verdict' = IF case.code # Success THEN assertExpectedErrorResult(matches)
                     ELSE IF UnexpectedError THEN "fail"
                     ELSE assertSuccessfulCaseResult(isNil, matches)
    /\ UNCHANGED <<case, dump, step, status, outputs, lastAction, errs>>

-----------------------------------------------------------------------------

Terminated == pc \in {"done", "exited"} /\ UNCHANGED vars

Next ==
    \/ SkipStep \/ UnresolvedStep \/ InvokeStep
    \/ \E ok \in BOOLEAN : StepReturns(ok)
    \/ FailNow \/ LoopEnds
    \/ assertCaseResult
    \/ Terminated

Spec == Init /\ [][Next]_vars

-----------------------------------------------------------------------------
(* Properties. *)

Broken(s) == status[s] \in {"unresolved", "failed"}

\* SKILL: "cleanup steps still run in declared order after failure".  Every
\* cleanup step behind the loop was attempted, whatever failed before it.
CleanupAttempted ==
    \A s \in Steps : IsCleanup(s) => status[s] # "skipped" /\ (s < step => status[s] # "pending")

\* SKILL: "non-cleanup steps stop after first unrecoverable failure".  None is
\* invoked behind a step that failed, a cleanup step included.
NothingAfterFailure ==
    \A s, f \in Steps :
        f < s /\ Broken(f) /\ ~IsCleanup(s) => status[s] \in {"pending", "skipped"}

\* No step is invoked with a template filled from a step that did not succeed,
\* or from one that stands behind it.
InputsAvailable ==
    \A s \in Steps :
        status[s] \in {"ok", "failed"} =>
            \A r \in case.refs[s] : r \in Steps /\ r < s /\ status[r] = "ok"

\* A case asserted to succeed passes only if every step did, cleanup included.
PassMeansClean ==
    verdict \in {"pass", "dump"} /\ case.code = Success => \A s \in Steps : status[s] = "ok"

\* The last action the loader saw, with whose handler it decoded the expected
\* response.
DeclaredTarget ==
    IF case.from # NoStep THEN case.from
    ELSE CHOOSE s \in Steps : /\ case.kind[s] = "action"
                              /\ \A t \in Steps : case.kind[t] = "action" => t <= s

\* The response compared is the one the expected response was decoded for: the
\* last action executed is the last action declared whenever it comes to comparing.
TargetAgrees ==
    pc = "assert" /\ case.code = Success /\ errs = <<>> => Target = DeclaredTarget

\* A case asserted to fail passes only if an error of the asserted code was met.
ExpectedCodeWasMet ==
    verdict = "pass" /\ case.code # Success =>
        (\E s \in Steps : Broken(s)) /\ Holds(case.code)
=============================================================================
