---------------------------- MODULE CaseRunProofs ----------------------------
(* Proofs about CaseRun, for every number of steps and every set of cases. *)
EXTENDS CaseRun, SetInduction, TLAPS

\* The steps behind the loop have ended, the others have not been looked at.
OrderInv ==
    /\ \A s \in Steps : status[s] = "pending" <=> s >= step
    /\ pc \in {"assert", "done"} => step = NumSteps + 1

\* executionErr is nil exactly while no step has failed; only then is no step
\* skipped, and a cleanup step never is.
ErrorInv ==
    /\ errs = <<>> => \A s \in Steps : ~Broken(s)
    /\ errs # <<>> => \E s \in Steps : Broken(s)
    /\ \A s \in Steps : status[s] = "skipped" => errs # <<>> /\ ~IsCleanup(s)

\* stepOutputs holds exactly the steps that succeeded.
OutputInv == outputs = {s \in Steps : status[s] = "ok"}

\* Without an error lastActionStepID is the last action behind the loop.
ActionInv ==
    errs = <<>> =>
        /\ lastAction # NoStep => lastAction < step /\ case.kind[lastAction] = "action"
        /\ \A s \in Steps : s < step /\ case.kind[s] = "action" => s <= lastAction

\* The step being invoked was not to be skipped and had its inputs.
InvokingInv == pc = "invoking" => step \in Steps /\ ~Skips(step) /\ Resolvable(step)

\* A verdict is final, and a success was asserted without an error.
VerdictInv ==
    /\ verdict # "none" => pc = "done"
    /\ verdict \in {"pass", "dump"} /\ case.code = Success => errs = <<>>
    /\ verdict = "pass" /\ case.code # Success => errs # <<>> /\ Holds(case.code)

IInv ==
    /\ TypeOK /\ OrderInv /\ ErrorInv /\ OutputInv /\ ActionInv /\ InvokingInv
    /\ VerdictInv /\ NothingAfterFailure /\ InputsAvailable

USE NumStepsAssumption DEF Steps, NoStep, Statuses

\* What the assumptions say of the case.
LEMMA CaseTypes ==
    ASSUME TypeOK
    PROVE  /\ case.kind \in [Steps -> StepKinds]
           /\ case.refs \in [Steps -> SUBSET (Steps \cup {NoStep})]
           /\ case.from \in Steps \cup {NoStep}
  BY TestCasesAssumption DEF TypeOK, Case

\* The invariant holds at the start.
LEMMA InitIInv == Init => IInv
  <1> SUFFICES ASSUME Init PROVE IInv
    OBVIOUS
  <1> USE DEF Init
  <1>1. TypeOK
    BY DEF TypeOK
  <1>2. OrderInv /\ OutputInv /\ ActionInv /\ InvokingInv /\ VerdictInv
    BY DEF OrderInv, OutputInv, ActionInv, InvokingInv, VerdictInv
  <1>3. ErrorInv /\ NothingAfterFailure /\ InputsAvailable
    BY DEF ErrorInv, NothingAfterFailure, InputsAvailable, Broken
  <1> QED
    BY <1>1, <1>2, <1>3 DEF IInv

(* A step of the loop ends in one of three ways: skipped, broken with one more
   error, or ok with one more output. *)
Skipped ==
    /\ Advance("skipped") /\ Skips(step)
    /\ UNCHANGED <<outputs, lastAction, errs>>

BrokenOff ==
    /\ Advance("unresolved") \/ (Advance("failed") /\ Resolvable(step))
    /\ ~Skips(step)
    /\ \E err \in Errors : RecordError(err)
    /\ UNCHANGED <<outputs, lastAction>>

Succeeded ==
    /\ Advance("ok") /\ ~Skips(step) /\ Resolvable(step)
    /\ outputs' = outputs \cup {step}
    /\ lastAction' = IF BecomesTarget(step) THEN step ELSE lastAction
    /\ UNCHANGED errs

StepEnds ==
    /\ step \in Steps
    /\ verdict = "none"
    /\ UNCHANGED <<case, dump, verdict>>
    /\ Skipped \/ BrokenOff \/ Succeeded

\* The end of a step keeps every part of the invariant.
LEMMA StepEndsIInv ==
    ASSUME IInv, StepEnds
    PROVE  IInv'
  <1> USE CaseTypes DEF IInv
  <1>1. /\ step \in Steps /\ step' = step + 1 /\ pc' = "loop"
        /\ verdict' = "none" /\ case' = case /\ dump' = dump
        /\ \E ended \in Statuses \ {"pending"} : status' = [status EXCEPT ![step] = ended]
    BY DEF StepEnds, Skipped, BrokenOff, Succeeded, Advance
  <1>2. /\ status \in [Steps -> Statuses] /\ status' \in [Steps -> Statuses]
        /\ status[step] = "pending"
        /\ \A s \in Steps \ {step} : status'[s] = status[s]
        /\ status'[step] # "pending"
    BY <1>1 DEF TypeOK, OrderInv
  <1>3. /\ \A s \in Steps : IsCleanup(s)' = IsCleanup(s)
        /\ \A s \in Steps \ {step} : Broken(s)' = Broken(s)
        /\ ~Broken(step)
    BY <1>1, <1>2 DEF IsCleanup, Broken
  <1>4. TypeOK'
    <2>1. errs' = errs \/ \E err \in Errors : errs' = Append(errs, err)
      BY Zenon DEF StepEnds, Skipped, BrokenOff, Succeeded, RecordError
    <2>2. errs' \in Seq(Errors)
      BY <2>1 DEF TypeOK
    <2>3. /\ outputs' = outputs \/ outputs' = outputs \cup {step}
          /\ lastAction' = lastAction \/ lastAction' = step
      BY Zenon DEF StepEnds, Skipped, BrokenOff, Succeeded
    <2>4. outputs' \in SUBSET (1 .. step' - 1) /\ lastAction' \in Steps \cup {NoStep}
      <3>1. outputs \in SUBSET (1 .. step - 1) /\ lastAction \in Steps \cup {NoStep}
        BY DEF TypeOK
      <3>2. step \in 1 .. NumSteps /\ step' - 1 = step
        BY <1>1
      <3>3. 1 .. step - 1 \subseteq 1 .. step /\ step \in 1 .. step
        BY <3>2
      <3>4. outputs' \subseteq 1 .. step
        BY <2>3, <3>1, <3>3 DEF TypeOK
      <3> QED
        BY <2>3, <3>1, <3>2, <3>4
    <2> QED
      BY <1>1, <1>2, <2>2, <2>4 DEF TypeOK
  <1>5. OrderInv' /\ InvokingInv' /\ VerdictInv'
    BY <1>1, <1>2 DEF OrderInv, InvokingInv, VerdictInv, TypeOK
  <1>6. ASSUME errs = <<>> \/ IsCleanup(step)
        PROVE  NothingAfterFailure'
    <2> SUFFICES ASSUME NEW s \in Steps, NEW f \in Steps,
                        f < s, Broken(f)', ~IsCleanup(s)'
                 PROVE  status'[s] \in {"pending", "skipped"}
      BY DEF NothingAfterFailure
    <2>0. step \in Int /\ s \in Int /\ f \in Int /\ ~IsCleanup(s)
      BY <1>1, <1>3
    <2>1. CASE s = step
      <3>1. Broken(f)
        BY <1>3, <2>0, <2>1
      <3>2. errs # <<>>
        BY <3>1 DEF ErrorInv
      <3> QED
        BY <1>6, <2>0, <2>1, <3>2
    <2>2. CASE s # step /\ f = step
      BY <1>2, <2>0, <2>2 DEF OrderInv
    <2>3. CASE s # step /\ f # step
      <3>1. Broken(f) /\ status'[s] = status[s]
        BY <1>2, <1>3, <2>3
      <3> QED
        BY <2>0, <3>1 DEF NothingAfterFailure
    <2> QED
      BY <2>1, <2>2, <2>3
  <1>7. ASSUME status'[step] \in {"ok", "failed"} => Resolvable(step)
        PROVE  InputsAvailable'
    <2> SUFFICES ASSUME NEW s \in Steps, status'[s] \in {"ok", "failed"},
                        NEW r \in case.refs[s]
                 PROVE  r \in Steps /\ r < s /\ status'[r] = "ok"
      BY <1>1 DEF InputsAvailable
    <2>1. r \in Steps /\ r < s /\ status[r] = "ok"
      <3>1. CASE s = step
        <4>1. r \in outputs
          BY <1>7, <3>1 DEF Resolvable
        <4>2. r \in Steps /\ status[r] = "ok"
          BY <4>1 DEF OutputInv
        <4>3. r \in 1 .. step - 1
          BY <4>1 DEF TypeOK
        <4> QED
          BY <1>1, <3>1, <4>2, <4>3
      <3>2. CASE s # step
        BY <1>2, <3>2 DEF InputsAvailable
      <3> QED
        BY <3>1, <3>2
    <2> QED
      BY <1>2, <2>1
  <1>8. CASE Skipped
    <2>1. /\ status'[step] = "skipped" /\ errs' = errs /\ outputs' = outputs
          /\ lastAction' = lastAction /\ errs # <<>> /\ ~IsCleanup(step)
      BY <1>1, <1>2, <1>8 DEF Skipped, Advance, Skips, TypeOK
    <2>2. ErrorInv'
      BY <1>2, <1>3, <2>1 DEF ErrorInv, Broken
    <2>3. OutputInv' /\ ActionInv'
      BY <1>2, <2>1 DEF OutputInv, ActionInv
    <2>4. NothingAfterFailure' /\ InputsAvailable'
      BY <1>1, <1>2, <1>3, <2>1 DEF NothingAfterFailure, InputsAvailable, Broken
    <2> QED
      BY <1>4, <1>5, <2>2, <2>3, <2>4
  <1>9. CASE BrokenOff
    <2>a. PICK err \in Errors : errs' = Append(errs, err)
      BY <1>9 DEF BrokenOff, RecordError
    <2>b. errs' # <<>>
      BY <2>a DEF TypeOK
    <2>c. /\ status'[step] \in {"unresolved", "failed"}
          /\ status'[step] = "failed" => Resolvable(step)
      BY <1>1, <1>2, <1>9 DEF BrokenOff, Advance
    <2>1. /\ status'[step] \in {"unresolved", "failed"} /\ errs' # <<>>
          /\ outputs' = outputs /\ lastAction' = lastAction
          /\ status'[step] = "failed" => Resolvable(step)
          /\ errs = <<>> \/ IsCleanup(step)
      BY <1>9, <2>b, <2>c DEF BrokenOff, Skips
    <2>2. ErrorInv'
      BY <1>2, <1>3, <2>1 DEF ErrorInv, Broken
    <2>3. OutputInv' /\ ActionInv'
      BY <1>2, <2>1 DEF OutputInv, ActionInv
    <2>4. NothingAfterFailure'
      BY <1>6, <2>1
    <2>5. InputsAvailable'
      BY <1>7, <2>1
    <2> QED
      BY <1>4, <1>5, <2>2, <2>3, <2>4, <2>5
  <1>10. CASE Succeeded
    <2>1. /\ status'[step] = "ok" /\ errs' = errs /\ outputs' = outputs \cup {step}
          /\ lastAction' = IF case.kind[step] = "action" THEN step ELSE lastAction
          /\ Resolvable(step) /\ (errs = <<>> \/ IsCleanup(step))
      BY <1>1, <1>2, <1>10 DEF Succeeded, Advance, Skips, BecomesTarget, TypeOK
    <2>2. ErrorInv'
      BY <1>2, <1>3, <2>1 DEF ErrorInv, Broken
    <2>3. OutputInv'
      BY <1>2, <2>1 DEF OutputInv
    <2>4. ActionInv'
      BY <1>1, <1>2, <2>1 DEF ActionInv, TypeOK
    <2>5. NothingAfterFailure'
      BY <1>6, <2>1
    <2>6. InputsAvailable'
      BY <1>7, <2>1
    <2> QED
      BY <1>4, <1>5, <2>2, <2>3, <2>4, <2>5, <2>6
  <1> QED
    BY <1>8, <1>9, <1>10 DEF StepEnds

-----------------------------------------------------------------------------
\* The code an ErrorInspector finds in the joined error is carried by one of its parts,
\* unless the error is opaque to it.
LEMMA CodeIsHeld ==
    ASSUME TypeOK, FromError # "opaque"
    PROVE  Holds(FromError)
  <1>1. CASE Holds("canceled") \/ Holds("deadline")
    BY <1>1 DEF FromError
  <1>2. CASE ~Holds("canceled") /\ ~Holds("deadline")
    <2>1. Coded # {} /\ Coded \subseteq Nat
      BY <1>2 DEF FromError, Coded
    <2>2. \E k \in Coded : \A j \in Coded : k <= j
      BY <2>1, LeastMember
    <2>3. PICK k \in Coded : FromError = errs[k]
      BY <1>2, <2>1, <2>2 DEF FromError
    <2> QED
      BY <2>3 DEF Holds, Coded
  <1> QED
    BY <1>1, <1>2

\* An asserted code is never the one of an error without a code.
LEMMA AssertedCode ==
    ASSUME TypeOK
    PROVE  case.code # "opaque"
  BY TestCasesAssumption, CodesAssumption DEF TypeOK, Case, Success

\* Every action of CaseRun keeps the invariant.
LEMMA Inductive == IInv /\ [Next]_vars => IInv'
  <1> SUFFICES ASSUME IInv, [Next]_vars PROVE IInv'
    OBVIOUS
  <1>1. CASE SkipStep
    <2>1. StepEnds
      BY <1>1 DEF SkipStep, StepEnds, Skipped, IInv, VerdictInv
    <2> QED
      BY <2>1, StepEndsIInv
  <1>2. CASE UnresolvedStep
    <2>1. BrokenOff
      BY <1>2 DEF UnresolvedStep, BrokenOff, Errors
    <2>2. StepEnds
      BY <1>2, <2>1 DEF UnresolvedStep, StepEnds, IInv, VerdictInv
    <2> QED
      BY <2>2, StepEndsIInv
  <1>3. CASE InvokeStep
    BY <1>3 DEF InvokeStep, IInv, TypeOK, OrderInv, ErrorInv, OutputInv, ActionInv,
                InvokingInv, VerdictInv, NothingAfterFailure, InputsAvailable, Broken,
                Skips, Resolvable, IsCleanup
  <1>4. ASSUME NEW ok \in BOOLEAN, StepReturns(ok) PROVE IInv'
    <2>1. step \in Steps /\ ~Skips(step) /\ Resolvable(step) /\ verdict = "none"
      BY <1>4 DEF StepReturns, IInv, InvokingInv, VerdictInv
    <2>2. Succeeded \/ BrokenOff
      BY <1>4, <2>1 DEF StepReturns, StoresOutput, Succeeded, BrokenOff
    <2>3. StepEnds
      BY <1>4, <2>1, <2>2 DEF StepReturns, StepEnds
    <2> QED
      BY <2>3, StepEndsIInv
  <1>5. CASE FailNow \/ LoopEnds
    BY <1>5 DEF FailNow, LoopEnds, IInv, TypeOK, OrderInv, ErrorInv, OutputInv, ActionInv,
                InvokingInv, VerdictInv, NothingAfterFailure, InputsAvailable, Broken,
                Skips, Resolvable, IsCleanup
  <1>6. CASE assertCaseResult
    <2>1. /\ verdict' \in {"pass", "fail", "dump"}
          /\ verdict' \in {"pass", "dump"} /\ case.code = Success => errs = <<>>
          /\ verdict' = "pass" /\ case.code # Success => errs # <<>> /\ FromError = case.code
      BY <1>6 DEF assertCaseResult, assertExpectedErrorResult, UnexpectedError,
                  assertSuccessfulCaseResult
    <2>2. /\ pc = "assert" /\ pc' = "done"
          /\ UNCHANGED <<case, dump, step, status, outputs, lastAction, errs>>
      BY <1>6 DEF assertCaseResult
    <2>3. verdict' = "pass" /\ case.code # Success => errs # <<>> /\ Holds(case.code)
      BY <2>1, CodeIsHeld, AssertedCode DEF IInv
    <2> QED
      BY <2>1, <2>2, <2>3 DEF Holds, IInv, TypeOK, OrderInv, ErrorInv, OutputInv, ActionInv,
                InvokingInv, VerdictInv, NothingAfterFailure, InputsAvailable, Broken,
                Skips, Resolvable, IsCleanup
  <1>7. CASE UNCHANGED vars
    BY <1>7 DEF vars, Holds, IInv, TypeOK, OrderInv, ErrorInv, OutputInv, ActionInv,
                InvokingInv, VerdictInv, NothingAfterFailure, InputsAvailable, Broken,
                Skips, Resolvable, IsCleanup
  <1> QED
    BY <1>1, <1>2, <1>3, <1>4, <1>5, <1>6, <1>7 DEF Next, Terminated

\* The invariant holds in every state runCase can be in.
LEMMA Invariant == Spec => []IInv
  BY InitIInv, Inductive, PTL DEF Spec

\* The state of runCase has its types; in particular no output is stored for a
\* step that has not ended.
THEOREM TypeCorrect == Spec => []TypeOK
  <1>1. IInv => TypeOK
    BY DEF IInv
  <1> QED
    BY <1>1, Invariant, PTL

\* The loop's first condition works for every case: no step but a cleanup step is
\* invoked behind a failure.
THEOREM StepsStopAfterFailure == Spec => []NothingAfterFailure
  <1>1. IInv => NothingAfterFailure
    BY DEF IInv
  <1> QED
    BY <1>1, Invariant, PTL

\* The loop attempts every cleanup step it passes, whatever failed before.
THEOREM CleanupAlwaysAttempted == Spec => []CleanupAttempted
  <1>1. IInv => CleanupAttempted
    BY DEF IInv, CleanupAttempted, ErrorInv, OrderInv, TypeOK
  <1> QED
    BY <1>1, Invariant, PTL

\* A template is only ever filled from earlier steps that succeeded.
THEOREM TemplatesHaveInputs == Spec => []InputsAvailable
  <1>1. IInv => InputsAvailable
    BY DEF IInv
  <1> QED
    BY <1>1, Invariant, PTL

\* A case asserted to succeed passes only if every step of it succeeded.
THEOREM PassIsClean == Spec => []PassMeansClean
  <1>1. IInv => PassMeansClean
    <2> SUFFICES ASSUME IInv, verdict \in {"pass", "dump"}, case.code = Success,
                        NEW s \in Steps
                 PROVE  status[s] = "ok"
      BY DEF PassMeansClean
    <2>1. errs = <<>> /\ step = NumSteps + 1
      BY DEF IInv, VerdictInv, OrderInv
    <2>2. status[s] # "pending"
      BY <2>1 DEF IInv, OrderInv
    <2>3. status[s] \notin {"unresolved", "failed", "skipped"}
      BY <2>1 DEF IInv, ErrorInv, Broken
    <2> QED
      BY <2>2, <2>3 DEF IInv, TypeOK
  <1> QED
    BY <1>1, Invariant, PTL

\* The response compared is that of the step the expected response was decoded
\* for, for every case with a step to compare with.
THEOREM TargetIsDeclared == Spec => []TargetAgrees
  <1>1. IInv => TargetAgrees
    <2> SUFFICES ASSUME IInv, pc = "assert", case.code = Success, errs = <<>>
                 PROVE  Target = DeclaredTarget
      BY DEF TargetAgrees
    <2>1. CASE case.from # NoStep
      BY <2>1 DEF Target, DeclaredTarget
    <2>2. CASE case.from = NoStep
      <3> DEFINE Last(s) == /\ case.kind[s] = "action"
                            /\ \A t \in Steps : case.kind[t] = "action" => t <= s
      <3>1. PICK a \in Steps : case.kind[a] = "action"
        BY <2>2, TargetAssumption DEF IInv, TypeOK
      <3>2. \A s \in Steps : case.kind[s] = "action" => s <= lastAction
        BY DEF IInv, OrderInv, ActionInv
      <3>3. lastAction \in Steps /\ Last(lastAction)
        BY <3>1, <3>2 DEF IInv, ActionInv, TypeOK
      <3>4. \A s \in Steps : Last(s) => s = lastAction
        BY <3>3
      <3> QED
        BY <2>2, <3>3, <3>4 DEF Target, DeclaredTarget
    <2> QED
      BY <2>1, <2>2
  <1> QED
    BY <1>1, Invariant, PTL

\* A case asserted to fail passes only if a step failed with an error of the asserted code,
\* wherever in the joined error it stands.
THEOREM AssertedFailureHappened == Spec => []ExpectedCodeWasMet
  <1>1. IInv => ExpectedCodeWasMet
    BY DEF IInv, VerdictInv, ErrorInv, ExpectedCodeWasMet
  <1> QED
    BY <1>1, Invariant, PTL
=============================================================================
