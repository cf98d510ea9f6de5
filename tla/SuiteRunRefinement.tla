-------------------------- MODULE SuiteRunRefinement --------------------------
(* All three execution modes of RunCases implement the one contract. *)
EXTENDS SuiteRun

Launched == phase \notin {"options", "setup"} /\ retOther \cap {"setup"} = {}

(* The refinement mapping. *)

StageOf == CASE phase \in {"options", "setup"} -> "before"
             [] phase \in {"cases", "teardown"} -> "up"
             [] phase = "done" -> "over"
             [] phase = "crashed" -> "aborted"
ChosenCases == IF Launched THEN Selected ELSE {}
CapOf == IF ~Launched THEN 0 ELSE IF Sequential THEN 1 ELSE effectiveParallelismLimit
RunningCases == At({"running"})
EndedCases == At({"returned", "failing", "canceling", "reported"})
BadCases == {c \in Cases : FailedCase(c)}
VerdictOf == IF phase \notin {"done", "crashed"} THEN "none"
             ELSE IF testFailed THEN "fail" ELSE "pass"

Contract == INSTANCE SuiteContract WITH
    stage <- StageOf, chosen <- ChosenCases, cap <- CapOf, running <- RunningCases,
    ended <- EndedCases, bad <- BadCases, verdict <- VerdictOf

\* RunCases, step by step, does only what SuiteContract allows, in the
\* sequential, the fail-fast and the continue mode alike.
RefinesContract == Contract!Spec
=============================================================================
