------------------------------ MODULE SuiteRun ------------------------------
(***************************************************************************)
(* RunCases of runner.go: option handling, the suite lifecycle around the  *)
(* cases, and the three ways the cases are executed - one by one, in       *)
(* parallel with cancellation on the first failure (errgroup), and in      *)
(* parallel to completion (WaitGroup and weighted semaphore).              *)
(*                                                                         *)
(* What one case does inside its subtest is the module CaseRun; here a     *)
(* case is the outcome its subtest ends with.                              *)
(***************************************************************************)
EXTENDS Integers, FiniteSets

CONSTANTS
    NumCases,      \* how many cases were loaded; a case is its position
    DefaultLimit,  \* DefaultParallelCasesLimit
    Limits         \* the arguments WithParallelismLimit is called with

ASSUME NumCasesAssumption == NumCases \in Nat
ASSUME DefaultLimitAssumption == DefaultLimit \in Nat \ {0}
ASSUME LimitsAssumption == Limits \subseteq Int

Cases == 1 .. NumCases

\* ITESTKIT_RESPONSE_DUMP: empty, the name of a case, or a name no case has.
NoDump == 0
UnknownName == NumCases + 1

NoCase == 0

VARIABLES
    config,     \* runCasesConfig: failFast, parallel, parallelismLimit
    dump,       \* runCasesConfig.responseDumpCaseName
    phase,      \* where the goroutine of RunCases is
    suiteUp,    \* SetupSuite succeeded and TeardownSuite has not run
    cs,         \* where each case is
    res,        \* what each ended case left: t.Run's result and runCase's error
    canceled,   \* the errgroup's runContext is done
    groupErr,   \* the errgroup's err: the case whose error it keeps
    collected,  \* executionErrors: the cases whose errors were appended
    retCases,   \* the cases whose errors executeCases returned
    retOther,   \* the lifecycle errors of withSuiteLifecycle
    testFailed  \* the parent test is marked failed

optionVars == <<config, dump>>
groupVars == <<canceled, groupErr, collected>>
resultVars == <<retCases, retOther, testFailed>>
vars == <<optionVars, phase, suiteUp, cs, res, groupVars, resultVars>>

-----------------------------------------------------------------------------
(* The outcome of a case.  "own" is an error of the case itself, "canceled"
   one that wraps context.Canceled.  victim records that the case would not
   have failed but for the cancelled runContext: it is a history component
   that no action reads. *)

Phases == {"options", "setup", "cases", "teardown", "done", "crashed"}
CaseStates == {"idle", "queued", "running", "returned", "failing",
               "canceling", "reported"}
CaseErrors == {"none", "own", "canceled"}
Results == [ok : BOOLEAN, err : CaseErrors, victim : BOOLEAN]

NoResult == [ok |-> TRUE, err |-> "none", victim |-> FALSE]

Configs == [failFast : BOOLEAN, parallel : BOOLEAN, parallelismLimit : Int]

TypeOK ==
    /\ config \in Configs
    /\ dump \in NoDump .. UnknownName
    /\ phase \in Phases
    /\ suiteUp \in BOOLEAN
    /\ cs \in [Cases -> CaseStates]
    /\ res \in [Cases -> Results]
    /\ canceled \in BOOLEAN
    /\ groupErr \in Cases \cup {NoCase}
    /\ collected \in SUBSET Cases
    /\ retCases \in SUBSET Cases
    /\ retOther \in SUBSET {"setup", "teardown"}
    /\ testFailed \in BOOLEAN

Init ==
    /\ config = [failFast |-> TRUE, parallel |-> FALSE,
                 parallelismLimit |-> DefaultLimit]
    /\ dump \in NoDump .. UnknownName
    /\ phase = "options"
    /\ suiteUp = FALSE
    /\ cs = [c \in Cases |-> "idle"]
    /\ res = [c \in Cases |-> NoResult]
    /\ canceled = FALSE
    /\ groupErr = NoCase
    /\ collected = {}
    /\ retCases = {}
    /\ retOther = {}
    /\ testFailed = FALSE

-----------------------------------------------------------------------------
(* Options: each one is a function applied to the config in turn. *)

ApplyOption(newConfig) ==
    /\ phase = "options"
    /\ config' = newConfig
    /\ UNCHANGED <<dump, phase, suiteUp, cs, res, groupVars, resultVars>>

WithContinueOnFailure == ApplyOption([config EXCEPT !.failFast = FALSE])

WithParallelCases == ApplyOption([config EXCEPT !.parallel = TRUE])

\* A limit that is not positive turns parallel mode on and keeps the limit.
WithParallelismLimit(limit) ==
    ApplyOption([config EXCEPT !.parallel = TRUE,
                               !.parallelismLimit = IF limit <= 0 THEN @ ELSE limit])

\* The end of applyRunCasesOptions: a response dump switches parallel mode off.
OptionsApplied ==
    /\ phase = "options"
    /\ config' = [config EXCEPT !.parallel = @ /\ dump = NoDump]
    /\ phase' = "setup"
    /\ UNCHANGED <<dump, suiteUp, cs, res, groupVars, resultVars>>

effectiveParallelismLimit ==
    IF config.parallelismLimit > 0 THEN config.parallelismLimit ELSE DefaultLimit

\* selectResponseDumpCase: an unknown name leaves no case at all.
Selected == {c \in Cases : dump = NoDump \/ c = dump}

-----------------------------------------------------------------------------
(* The suite lifecycle. *)

SetupSuite ==
    /\ phase = "setup"
    /\ \/ /\ phase' = "cases"
          /\ suiteUp' = TRUE
          /\ UNCHANGED <<retOther, testFailed>>
       \/ /\ phase' = "done"
          /\ retOther' = {"setup"}
          /\ testFailed' = TRUE
          /\ UNCHANGED suiteUp
    /\ UNCHANGED <<optionVars, cs, res, groupVars, retCases>>

\* Fault: RunCases looks only at the lifecycle's own errors.
FatalForgetsCases(caseErrs, otherErrs) == otherErrs # {}

\* RunCases ends the test with Fatalf when there is any error.
Fatal(caseErrs, otherErrs) == caseErrs # {} \/ otherErrs # {}

\* The deferred teardown joins its own error with the error of the cases.
TeardownSuite ==
    /\ phase = "teardown"
    /\ suiteUp' = FALSE
    /\ \E teardownErr \in {{}, {"teardown"}} : retOther' = retOther \cup teardownErr
    /\ testFailed' = (testFailed \/ Fatal(retCases, retOther'))
    /\ phase' = "done"
    /\ UNCHANGED <<optionVars, cs, res, groupVars, retCases>>

\* executeCases returns the errors of the cases in errs.
ReturnFromCases(errs) ==
    /\ phase' = "teardown"
    /\ retCases' = errs

-----------------------------------------------------------------------------
(* One case inside its subtest. *)

Sequential == ~config.parallel
FailFastParallel == config.parallel /\ config.failFast
ContinueParallel == config.parallel /\ ~config.failFast

\* The loop over the cases has reached c.
NextInOrder(c) == c \in Selected /\ \A d \in Selected : d < c => cs[d] # "idle"

At(states) == {c \in Cases : cs[c] \in states}

\* Fault: the end of the loop is taken for the end of the cases.
AllLaunched == \A c \in Selected : cs[c] # "idle"

\* Every case was started and has been dealt with.
AllReported == \A c \in Selected : cs[c] = "reported"

\* A case moves on; nothing but the cases changes.
CaseStep(c, from, to) ==
    /\ phase = "cases"
    /\ cs[c] = from
    /\ cs' = [cs EXCEPT ![c] = to]
    /\ UNCHANGED <<optionVars, suiteUp, retOther>>

\* The subtest ends.  marked: something in it called t.Fail or t.FailNow, with
\* FailNow no error is left behind.  The sequential runner marks the subtest
\* failed for an error as well, the parallel one does not.  Only a cancelled
\* runContext makes a victim.
SubtestEnds(c) ==
    /\ CaseStep(c, "running", "returned")
    /\ \E marked \in BOOLEAN, err \in CaseErrors, victim \in BOOLEAN :
          /\ victim => canceled /\ (marked \/ err # "none")
          /\ LET ok == ~marked /\ (Sequential => err = "none")
             IN  /\ res' = [res EXCEPT ![c] = [ok |-> ok, err |-> err,
                                               victim |-> victim]]
                 /\ testFailed' = (testFailed \/ ~ok)
    /\ UNCHANGED <<phase, groupVars, retCases>>

\* A panic in a case unwinds the subtest's goroutine, not the one that waits in
\* t.Run: the process ends and no deferred call of RunCases runs.
SubtestPanics(c) ==
    /\ phase = "cases"
    /\ cs[c] = "running"
    /\ phase' = "crashed"
    /\ testFailed' = TRUE
    /\ UNCHANGED <<optionVars, suiteUp, cs, res, groupVars, retCases, retOther>>

\* Is there an error to report for this result?
buildCaseExecutionError(ok, err) == err # "none" \/ ~ok

-----------------------------------------------------------------------------
(* executeCases and executeCasesWithRunner: one case at a time. *)

RunCase(c) ==
    /\ Sequential
    /\ NextInOrder(c)
    /\ At(CaseStates \ {"idle", "reported"}) = {}
    /\ CaseStep(c, "idle", "running")
    /\ UNCHANGED <<phase, res, groupVars, retCases, testFailed>>

StopsOnFailure == config.failFast

CollectSequential(c) ==
    /\ Sequential
    /\ CaseStep(c, "returned", "reported")
    /\ LET failed == buildCaseExecutionError(res[c].ok, res[c].err)
       IN  \/ /\ ~failed
              /\ UNCHANGED <<phase, collected, retCases>>
           \/ /\ failed /\ StopsOnFailure
              /\ ReturnFromCases({c})
              /\ UNCHANGED collected
           \/ /\ failed /\ ~StopsOnFailure
              /\ collected' = collected \cup {c}
              /\ UNCHANGED <<phase, retCases>>
    /\ UNCHANGED <<res, canceled, groupErr, testFailed>>

\* The loop is over: the errors collected so far are joined.
CasesDone(errs) ==
    /\ phase = "cases"
    /\ AllReported
    /\ ReturnFromCases(errs)
    /\ UNCHANGED <<optionVars, suiteUp, cs, res, groupErr, collected, retOther,
                   testFailed>>

SequentialDone == Sequential /\ CasesDone(collected) /\ UNCHANGED canceled

-----------------------------------------------------------------------------
(* Both parallel modes hold a slot per case. *)

\* Fault: slots are not given back.
HoldersForever == At(CaseStates \ {"idle", "queued"})

\* Cases that hold a slot of the errgroup or of the semaphore.
Holders == At(CaseStates \ {"idle", "queued", "reported"})

\* Fault: one slot too many.
SlotFreeOffByOne == Cardinality(Holders) <= effectiveParallelismLimit

SlotFree == Cardinality(Holders) < effectiveParallelismLimit

-----------------------------------------------------------------------------
(* executeCasesInParallelFailFast: an errgroup with a limit. *)

\* group.Go blocks the loop until a slot is free.  It does not look at the
\* context: cases are started after the cancellation too.
GroupGo(c) ==
    /\ FailFastParallel
    /\ NextInOrder(c)
    /\ SlotFree
    /\ CaseStep(c, "idle", "running")
    /\ UNCHANGED <<phase, res, groupVars, retCases, testFailed>>

\* Fault: every context.Canceled is dropped, whoever cancelled.
SuppressedAlways(c) == res[c].err = "canceled"

\* context.Canceled is dropped when the shared context is done.
Suppressed(c) == res[c].err = "canceled" /\ canceled

\* A subtest marked failed yields an error even if its own was dropped.
GroupReturn(c) ==
    /\ FailFastParallel
    /\ LET err == IF Suppressed(c) THEN "none" ELSE res[c].err
       IN  CaseStep(c, "returned",
                    IF buildCaseExecutionError(res[c].ok, err) THEN "failing"
                    ELSE "reported")
    /\ UNCHANGED <<phase, res, groupVars, retCases, testFailed>>

\* Fault: the last error wins.
ErrNotOnce == TRUE

FirstError == groupErr = NoCase

\* errOnce: the first failing goroutine stores its error and then cancels the
\* context, the others wait for it and leave both alone.
ErrOnce(c) ==
    /\ FailFastParallel
    /\ At({"canceling"}) = {}
    /\ \/ FirstError /\ CaseStep(c, "failing", "canceling") /\ groupErr' = c
       \/ ~FirstError /\ CaseStep(c, "failing", "reported") /\ UNCHANGED groupErr
    /\ UNCHANGED <<phase, res, canceled, collected, retCases, testFailed>>

CancelRunContext(c) ==
    /\ CaseStep(c, "canceling", "reported")
    /\ canceled' = TRUE
    /\ UNCHANGED <<phase, res, groupErr, collected, retCases, testFailed>>

GroupError == {groupErr} \ {NoCase}

\* Wait returns when every goroutine has ended, and cancels the context itself.
GroupWait == FailFastParallel /\ CasesDone(GroupError) /\ canceled' = TRUE

-----------------------------------------------------------------------------
(* executeCasesInParallelContinue: one goroutine per case at once, and a
   semaphore.  Acquire fails only when t.Context() is done, which the testing
   package does after the test function returns. *)

Spawn(c) ==
    /\ ContinueParallel
    /\ NextInOrder(c)
    /\ CaseStep(c, "idle", "queued")
    /\ UNCHANGED <<phase, res, groupVars, retCases, testFailed>>

Acquire(c) ==
    /\ SlotFree
    /\ CaseStep(c, "queued", "running")
    /\ UNCHANGED <<phase, res, groupVars, retCases, testFailed>>

\* Fault: the slice is overwritten instead of appended to.
OverwriteExecutionError(c) == {c}

appendExecutionError(c) == collected \cup {c}

\* The append happens under errorsMu, the deferred Release after it.
CollectAndRelease(c) ==
    /\ ContinueParallel
    /\ CaseStep(c, "returned", "reported")
    /\ collected' = IF buildCaseExecutionError(res[c].ok, res[c].err)
                    THEN appendExecutionError(c)
                    ELSE collected
    /\ UNCHANGED <<phase, res, canceled, groupErr, retCases, testFailed>>

WaitGroupWait == ContinueParallel /\ CasesDone(collected) /\ UNCHANGED canceled

-----------------------------------------------------------------------------

Options ==
    \/ WithContinueOnFailure
    \/ WithParallelCases
    \/ \E limit \in Limits : WithParallelismLimit(limit)

\* The goroutine that called RunCases.
Main ==
    \/ OptionsApplied
    \/ SetupSuite
    \/ \E c \in Cases : RunCase(c) \/ CollectSequential(c) \/ GroupGo(c) \/ Spawn(c)
    \/ SequentialDone
    \/ GroupWait
    \/ WaitGroupWait
    \/ TeardownSuite

\* The goroutine of a case: of the errgroup, of the WaitGroup, or the subtest.
Goroutine(c) ==
    \/ SubtestEnds(c)
    \/ GroupReturn(c)
    \/ ErrOnce(c)
    \/ CancelRunContext(c)
    \/ Acquire(c)
    \/ CollectAndRelease(c)

Terminated == phase \in {"done", "crashed"} /\ UNCHANGED vars

Next ==
    \/ Options
    \/ Main
    \/ \E c \in Cases : Goroutine(c) \/ SubtestPanics(c)
    \/ Terminated

Spec == Init /\ [][Next]_vars

\* The Go scheduler runs every goroutine that can run, and a case body ends.
Fairness ==
    /\ WF_vars(Main)
    /\ \A c \in Cases : WF_vars(Goroutine(c))

FairSpec == Spec /\ Fairness

-----------------------------------------------------------------------------
(* Properties. *)

\* The case failed: what a reader of the test output would call a failure.
FailedCase(c) == cs[c] # "idle" /\ buildCaseExecutionError(res[c].ok, res[c].err)

\* At most effectiveParallelismLimit cases are inside their bodies at once, one
\* without parallel mode.
LimitRespected ==
    Cardinality(At({"running"})) <= IF Sequential THEN 1 ELSE effectiveParallelismLimit

\* While any goroutine of a case is alive the suite environment it uses is up:
\* RunCases never reaches TeardownSuite with a case still running.
NoCaseOutlivesSuite ==
    phase # "crashed" =>
        \A c \in Cases : cs[c] \notin {"idle", "reported"} => suiteUp /\ phase = "cases"

\* No failure is lost: the test passes only if the lifecycle and every selected
\* case passed.  In fail-fast mode this is what makes it safe to drop the
\* context.Canceled errors.
PassMeansAllPassed ==
    phase = "done" /\ ~testFailed =>
        /\ retOther = {}
        /\ \A c \in Selected : cs[c] = "reported" /\ ~FailedCase(c)

\* Fail-fast reports the failure that started it, never a case that fell victim
\* to the cancellation.
RootCauseReported ==
    phase \in {"teardown", "done"} /\ config.failFast =>
        \A c \in retCases : FailedCase(c) /\ ~res[c].victim

\* WithContinueOnFailure runs every selected case and reports each failure.
ContinueReportsAll ==
    phase = "teardown" /\ ~config.failFast =>
        /\ AllReported
        /\ retCases = {c \in Selected : FailedCase(c)}

\* The doc comment of withSuiteLifecycle: "guarantees teardown even in panic".
TeardownEvenInPanic == phase = "crashed" => ~suiteUp

\* RunCases comes to an end, and unless a case panicked the suite is torn down:
\* neither the errgroup's limit nor the semaphore ever blocks for good.
SuiteEnds == <>(phase = "crashed" \/ (phase = "done" /\ ~suiteUp))
=============================================================================
