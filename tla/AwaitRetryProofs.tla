--------------------------- MODULE AwaitRetryProofs ---------------------------
(* Proofs about AwaitRetry, for every set of policies and every horizon. *)
EXTENDS AwaitRetry, TLAPS

\* The attempts an await step has used when it is at each point.
AttemptsInv ==
    /\ pc = "start" => attempts = 0
    /\ Running => retry.maxAttempts > 0 /\ attempts <= retry.maxAttempts
    /\ pc \in {"sleeping", "final"} => attempts < retry.maxAttempts
    /\ AttemptsBounded

\* Invocations on a done context: none while it is alive or a sleep is not over,
\* one more if the timer won, and the final one.
LateInv ==
    /\ ctxErr = "none" \/ pc \in {"start", "sleeping"} => late = 0
    /\ pc \in {"invoking", "gaveUp", "spent"} => late <= 1
    /\ late <= 2

\* A condition that held in time still holds, and the final invocation sees it.
ConditionInv ==
    /\ condInTime => cond /\ ctxErr # "none"
    /\ pc = "final" => ctxErr # "none" /\ (condInTime => seen)

IInv == TypeOK /\ AttemptsInv /\ LateInv /\ ConditionInv

USE DEF PCs, CtxErrs, Errs, Causes, LateCap

\* The invariant holds at the start.
LEMMA InitIInv == Init => IInv
  <1> SUFFICES ASSUME Init PROVE IInv
    OBVIOUS
  <1> USE DEF Init
  <1>1. retry.timeout \in Int /\ retry.interval \in Int /\ retry.maxAttempts \in Int
    BY PoliciesAssumption DEF Policy
  <1>2. condInTime \in BOOLEAN /\ (condInTime => cond /\ ctxErr # "none")
    <2>1. CASE ctxErr = "none"
      BY <2>1
    <2>2. CASE ctxErr # "none"
      BY <2>2
    <2> QED
      BY <2>1, <2>2
  <1>3. TypeOK
    <2>1. /\ retry \in Policies /\ cond \in BOOLEAN /\ honours \in BOOLEAN
          /\ pc = "start" /\ now = 0 /\ wake = 0 /\ attempts = 0 /\ late = 0
          /\ lastErr = "none" /\ cause = "none" /\ ctxErr \in {"none", "canceled"}
      OBVIOUS
    <2>2. seen \in BOOLEAN
      OBVIOUS
    <2> HIDE DEF Init
    <2> QED
      BY <1>2, <2>1, <2>2 DEF TypeOK
  <1>4. AttemptsInv
    BY <1>1 DEF AttemptsInv, Running, AttemptsBounded
  <1>5. LateInv
    BY DEF LateInv
  <1>6. ConditionInv
    BY <1>2 DEF ConditionInv
  <1> QED
    BY <1>3, <1>4, <1>5, <1>6 DEF IInv

\* Every step keeps the types.
LEMMA StepTypeOK == IInv /\ [Next]_vars => TypeOK'
  <1> SUFFICES ASSUME TypeOK, ConditionInv, [Next]_vars PROVE TypeOK'
    BY DEF IInv
  <1> USE PoliciesAssumption DEF TypeOK, Policy
  <1>0. retry.timeout \in Int /\ retry.interval \in Int /\ retry.maxAttempts \in Int
    OBVIOUS
  <1>1. CASE Start
    BY <1>0, <1>1 DEF Start, Fail, BeginAttempt, NoAttempts, ContextDone, OneMoreLate,
       ctxVars, invokeVars
  <1>2. CASE AttemptReturns
    BY <1>0, <1>2 DEF AttemptReturns, InvokeErrors, ctxVars, invokeVars
  <1>3. CASE TimerFires
    BY <1>0, <1>3 DEF TimerFires, BeginAttempt, OneMoreLate, ctxVars, invokeVars
  <1>4. CASE SleepInterrupted
    BY <1>4 DEF SleepInterrupted, ctxVars, invokeVars
  <1>5. CASE AfterRetry
    BY <1>0, <1>5 DEF AfterRetry, OneMoreLate, ctxVars
  <1>11. CASE NameCause
    BY <1>11 DEF NameCause, FinalCause, Fail, ctxVars, invokeVars
  <1>6. CASE FinalReturns
    BY <1>6 DEF FinalReturns, InvokeErrors, Fail, ctxVars, ConditionInv
  <1>7. CASE Tick
    BY <1>0, <1>7, HorizonAssumption DEF Tick, Running, ContextDone, ctxVars, invokeVars
  <1>8. CASE CancelRunContext
    BY <1>8 DEF CancelRunContext, Running, ContextDone, ctxVars, invokeVars
  <1>9. CASE ConditionMet
    BY <1>9 DEF ConditionMet, Running, ctxVars, invokeVars
  <1>10. CASE UNCHANGED vars
    BY <1>10 DEF vars, ctxVars, invokeVars
  <1> QED
    BY <1>1, <1>2, <1>3, <1>4, <1>5, <1>6, <1>7, <1>8, <1>9, <1>10, <1>11
    DEF Next, Step, World, Terminated

\* Every step keeps the count of the attempts.
LEMMA StepAttemptsInv == IInv /\ [Next]_vars => AttemptsInv'
  <1> SUFFICES ASSUME TypeOK, AttemptsInv, [Next]_vars PROVE AttemptsInv'
    BY DEF IInv
  <1> USE DEF AttemptsInv, AttemptsBounded, Running
  <1>0. retry.maxAttempts \in Int /\ attempts \in Nat /\ pc \in PCs
    BY PoliciesAssumption DEF TypeOK, Policy
  <1>1. CASE Start
    BY <1>0, <1>1 DEF Start, Fail, BeginAttempt, NoAttempts, invokeVars
  <1>2. CASE AttemptReturns
    BY <1>0, <1>2 DEF AttemptReturns, StopRetry, invokeVars
  <1>3. CASE TimerFires
    BY <1>0, <1>3 DEF TimerFires, BeginAttempt
  <1>4. CASE SleepInterrupted
    BY <1>0, <1>4 DEF SleepInterrupted, invokeVars
  <1>5. CASE AfterRetry
    BY <1>0, <1>5 DEF AfterRetry, FinalLook
  <1>9. CASE NameCause
    BY <1>0, <1>9 DEF NameCause, Fail, invokeVars
  <1>6. CASE FinalReturns
    BY <1>0, <1>6 DEF FinalReturns, Fail
  <1>7. CASE World
    BY <1>0, <1>7 DEF World, Tick, CancelRunContext, ConditionMet, invokeVars
  <1>8. CASE UNCHANGED vars
    BY <1>0, <1>8 DEF vars, invokeVars
  <1> QED
    BY <1>1, <1>2, <1>3, <1>4, <1>5, <1>6, <1>7, <1>8, <1>9 DEF Next, Step, Terminated

\* Every step keeps the count of the late invocations.
LEMMA StepLateInv == IInv /\ [Next]_vars => LateInv'
  <1> SUFFICES ASSUME TypeOK, ConditionInv, LateInv, [Next]_vars PROVE LateInv'
    BY DEF IInv
  <1> USE DEF LateInv
  <1>0. late \in 0 .. 3 /\ pc \in PCs /\ ctxErr \in CtxErrs
    BY DEF TypeOK
  <1>1. CASE Start
    BY <1>0, <1>1 DEF Start, Fail, BeginAttempt, ContextDone, OneMoreLate, ctxVars, invokeVars
  <1>2. CASE AttemptReturns
    BY <1>0, <1>2 DEF AttemptReturns, StopRetry, ctxVars, invokeVars
  <1>3. CASE TimerFires
    BY <1>0, <1>3 DEF TimerFires, BeginAttempt, OneMoreLate, ctxVars
  <1>4. CASE SleepInterrupted
    BY <1>0, <1>4 DEF SleepInterrupted, ctxVars, invokeVars
  <1>5. CASE AfterRetry
    BY <1>0, <1>5 DEF AfterRetry, FinalLook, OneMoreLate, ctxVars
  <1>11. CASE NameCause
    BY <1>0, <1>11 DEF NameCause, Fail, ctxVars, invokeVars
  <1>6. CASE FinalReturns
    BY <1>0, <1>6 DEF FinalReturns, Fail, ctxVars, ConditionInv
  <1>7. CASE Tick
    BY <1>0, <1>7 DEF Tick, ContextDone, ctxVars, invokeVars
  <1>8. CASE CancelRunContext
    BY <1>0, <1>8 DEF CancelRunContext, ContextDone, ctxVars, invokeVars
  <1>9. CASE ConditionMet
    BY <1>0, <1>9 DEF ConditionMet, ctxVars, invokeVars
  <1>10. CASE UNCHANGED vars
    BY <1>0, <1>10 DEF vars, ctxVars, invokeVars
  <1> QED
    BY <1>1, <1>2, <1>3, <1>4, <1>5, <1>6, <1>7, <1>8, <1>9, <1>10, <1>11
    DEF Next, Step, World, Terminated

\* Every step keeps what is known of the condition.
LEMMA StepConditionInv == IInv /\ [Next]_vars => ConditionInv'
  <1> SUFFICES ASSUME TypeOK, ConditionInv, [Next]_vars PROVE ConditionInv'
    BY DEF IInv
  <1> USE DEF ConditionInv
  <1>0. /\ retry.maxAttempts \in Int /\ attempts \in Nat
        /\ pc \in PCs /\ ctxErr \in CtxErrs
        /\ cond \in BOOLEAN /\ condInTime \in BOOLEAN /\ seen \in BOOLEAN
        /\ honours \in BOOLEAN
    BY PoliciesAssumption DEF TypeOK, Policy
  <1>1. CASE Start
    BY <1>0, <1>1 DEF Start, Fail, BeginAttempt, NoAttempts, ContextDone, ctxVars, invokeVars
  <1>2. CASE AttemptReturns
    BY <1>0, <1>2 DEF AttemptReturns, ctxVars, invokeVars
  <1>3. CASE TimerFires
    BY <1>0, <1>3 DEF TimerFires, BeginAttempt, ctxVars
  <1>4. CASE SleepInterrupted
    BY <1>0, <1>4 DEF SleepInterrupted, ctxVars, invokeVars
  <1>5. CASE AfterRetry
    BY <1>0, <1>5 DEF AfterRetry, FinalLook, ctxVars
  <1>11. CASE NameCause
    BY <1>0, <1>11 DEF NameCause, Fail, ctxVars, invokeVars
  <1>6. CASE FinalReturns
    BY <1>0, <1>6 DEF FinalReturns, InvokeErrors, Fail, ctxVars
  <1>7. CASE Tick
    BY <1>0, <1>7 DEF Tick, Running, ContextDone, ctxVars, invokeVars
  <1>8. CASE CancelRunContext
    BY <1>0, <1>8 DEF CancelRunContext, Running, ContextDone, ctxVars, invokeVars
  <1>9. CASE ConditionMet
    BY <1>0, <1>9 DEF ConditionMet, Running, ctxVars, invokeVars
  <1>10. CASE UNCHANGED vars
    BY <1>0, <1>10 DEF vars, ctxVars, invokeVars
  <1> QED
    BY <1>1, <1>2, <1>3, <1>4, <1>5, <1>6, <1>7, <1>8, <1>9, <1>10, <1>11
    DEF Next, Step, World, Terminated

\* So the invariant holds throughout.
LEMMA Inductive == Spec => []IInv
  <1>1. Init => IInv
    BY InitIInv
  <1>2. IInv /\ [Next]_vars => IInv'
    BY StepTypeOK, StepAttemptsInv, StepLateInv, StepConditionInv DEF IInv
  <1> QED
    BY <1>1, <1>2, PTL DEF Spec

\* The state of executeAwaitStep keeps its shape, and an error has a cause.
THEOREM TypeCorrect == Spec => []TypeOK
  BY Inductive, PTL DEF IInv

\* executeAwaitStep never invokes the handler more often than max_attempts, the
\* invocation after the deadline included, for every policy and schedule.
THEOREM AttemptsAreBounded == Spec => []AttemptsBounded
  <1>1. IInv => AttemptsBounded
    BY DEF IInv, AttemptsInv
  <1> QED
    BY <1>1, Inductive, PTL

\* After its context is done executeAwaitStep begins at most two invocations.
THEOREM CancellationIsPrompt == Spec => []StopsPromptly
  <1>1. IInv => StopsPromptly
    BY DEF IInv, LateInv, StopsPromptly
  <1> QED
    BY <1>1, Inductive, PTL

-----------------------------------------------------------------------------
(* What needs backoff's limit on elapsed time to be out of reach. *)

\* Every policy's deadline comes before backoff's own limit on elapsed time.  With the
\* default limit of 15 minutes this is every timeout a test can sensibly have; a longer
\* one is the policy for which PolicyExhausted fails.
PoliciesFit == \A p \in Policies : p.timeout + p.interval <= MaxElapsedTime

\* A deadline that has passed is seen on the context, Retry gives up only for a reason
\* the error can name, and that reason stays true.  Without a final look the attempts
\* are used up, so no condition is missed.
CauseInv ==
    /\ pc = "start" => now = 0
    /\ Running /\ now >= retry.timeout => ctxErr # "none"
    /\ pc = "gaveUp" => attempts >= retry.maxAttempts \/ ctxErr # "none"
    /\ pc = "spent" => attempts >= retry.maxAttempts
    /\ ConditionNotMissed
    /\ PolicyExhausted
    /\ CauseIsTrue

\* Every step keeps CauseInv if the policies fit.
LEMMA StepCauseInv ==
    ASSUME PoliciesFit
    PROVE  IInv /\ CauseInv /\ [Next]_vars => CauseInv'
  <1> SUFFICES ASSUME TypeOK, AttemptsInv, ConditionInv, CauseInv, [Next]_vars PROVE CauseInv'
    BY DEF IInv
  <1> USE DEF CauseInv, PolicyExhausted, CauseIsTrue, Running, ConditionNotMissed
  <1>0. /\ retry.timeout \in Int /\ retry.interval \in Int /\ retry.maxAttempts \in Int
        /\ retry.timeout + retry.interval <= MaxElapsedTime
        /\ attempts \in Nat /\ now \in Nat /\ pc \in PCs /\ ctxErr \in CtxErrs /\ cause \in Causes
        /\ cond \in BOOLEAN /\ condInTime \in BOOLEAN /\ seen \in BOOLEAN /\ honours \in BOOLEAN
    BY PoliciesAssumption DEF TypeOK, Policy, PoliciesFit
  <1>1. CASE Start
    BY <1>0, <1>1 DEF Start, Fail, BeginAttempt, NoAttempts, ContextDone, ctxVars, invokeVars, AttemptsInv
  <1>2. CASE AttemptReturns
    <2>1. StopRetry => attempts >= retry.maxAttempts \/ ctxErr # "none"
      BY <1>0, <1>2, MaxElapsedTimeAssumption DEF StopRetry, AttemptReturns
    <2> QED
      BY <1>0, <1>2, <2>1 DEF AttemptReturns, ctxVars, invokeVars
  <1>3. CASE TimerFires
    BY <1>0, <1>3 DEF TimerFires, BeginAttempt, ctxVars
  <1>4. CASE SleepInterrupted
    BY <1>0, <1>4 DEF SleepInterrupted, ctxVars, invokeVars
  <1>5. CASE AfterRetry
    BY <1>0, <1>5 DEF AfterRetry, FinalLook, ctxVars
  <1>11. CASE NameCause
    BY <1>0, <1>11 DEF NameCause, FinalCause, Fail, ctxVars, invokeVars
  <1>6. CASE FinalReturns
    BY <1>0, <1>6 DEF FinalReturns, InvokeErrors, Fail, ctxVars, ConditionInv
  <1>7. CASE Tick
    BY <1>0, <1>7 DEF Tick, ContextDone, ctxVars, invokeVars
  <1>8. CASE CancelRunContext
    BY <1>0, <1>8 DEF CancelRunContext, ContextDone, ctxVars, invokeVars
  <1>9. CASE ConditionMet
    BY <1>0, <1>9 DEF ConditionMet, ctxVars, invokeVars
  <1>10. CASE UNCHANGED vars
    BY <1>0, <1>10 DEF vars, ctxVars, invokeVars
  <1> QED
    BY <1>1, <1>2, <1>3, <1>4, <1>5, <1>6, <1>7, <1>8, <1>9, <1>10, <1>11
    DEF Next, Step, World, Terminated

\* CauseInv throughout, from the first state on.
LEMMA CauseInductive == PoliciesFit => (Spec => []CauseInv)
  <1> SUFFICES ASSUME PoliciesFit PROVE Spec => []CauseInv
    OBVIOUS
  <1>1. Init => CauseInv
    BY DEF Init, CauseInv, Running, PolicyExhausted, CauseIsTrue, ConditionNotMissed
  <1>2. IInv /\ CauseInv /\ [Next]_vars => CauseInv'
    BY StepCauseInv
  <1> QED
    BY <1>1, <1>2, Inductive, PTL DEF Spec

\* If every deadline comes before backoff's limit on elapsed time, executeAwaitStep fails
\* with attempts left only if the condition did not hold by the time its context was done,
\* or the handler gave up because of that.
THEOREM NoConditionMissed == PoliciesFit => (Spec => []ConditionNotMissed)
  <1>1. CauseInv => ConditionNotMissed
    BY DEF CauseInv
  <1> QED
    BY <1>1, CauseInductive, PTL

\* The error of executeAwaitStep names a cause that is true: a deadline or cancellation the
\* context has, or attempts that are used up, if every deadline comes before backoff's limit
\* on elapsed time.
THEOREM CauseIsAlwaysTrue == PoliciesFit => (Spec => []CauseIsTrue)
  <1>1. CauseInv => CauseIsTrue
    BY DEF CauseInv
  <1> QED
    BY <1>1, CauseInductive, PTL

\* Under the same condition README's promise holds: an await step fails only once its
\* attempts are used up or its context is done.
THEOREM FailureMeansExhausted == PoliciesFit => (Spec => []PolicyExhausted)
  <1>1. CauseInv => PolicyExhausted
    BY DEF CauseInv
  <1> QED
    BY <1>1, CauseInductive, PTL
=============================================================================
