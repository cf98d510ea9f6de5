------------------------------ MODULE AwaitRetry ------------------------------
(***************************************************************************)
(* executeAwaitStep of runner.go: one await step, its retry policy, the    *)
(* deadline of its own context, the cancellation of the run context, and   *)
(* the one extra invocation after the context is done.  backoff.Retry is   *)
(* external and modelled from how the step uses it.                        *)
(*                                                                         *)
(* Time is a counter that any waiting may advance.  The handler watches a  *)
(* condition of the system under test that, once true, stays true.         *)
(***************************************************************************)
EXTENDS Integers

CONSTANTS
    Policies,        \* AwaitRetry values: timeout, interval, maxAttempts
    MaxElapsedTime,  \* backoff's default limit on the time Retry may take
    Horizon          \* bound: time is not followed any further

Policy == [timeout : Int, interval : Int, maxAttempts : Int]

ASSUME PoliciesAssumption == Policies \subseteq Policy
ASSUME MaxElapsedTimeAssumption == MaxElapsedTime \in Nat
ASSUME HorizonAssumption == Horizon \in Nat

VARIABLES
    retry,    \* the step's retry policy
    pc,       \* where executeAwaitStep is
    now,      \* time since the step began
    ctxErr,   \* awaitContext.Err()
    wake,     \* when backoff's timer fires
    attempts, \* attemptsMade
    lastErr,  \* lastObservedErr
    cause,    \* the cause buildAwaitRetryError is given
    cond,     \* the condition the handler checks
    honours,  \* the handler gives up once its context is done
    seen,     \* cond when the running invocation began
    condInTime, \* history: cond when the context became done
    late      \* history: invocations begun on a done context, counted to LateCap

ctxVars == <<ctxErr, condInTime>>
invokeVars == <<attempts, seen, late>>
vars == <<retry, honours, pc, now, ctxVars, wake, invokeVars, lastErr, cause, cond>>

LateCap == 3

PCs == {"start", "invoking", "sleeping", "gaveUp", "final", "spent", "ok", "error"}
CtxErrs == {"none", "deadline", "canceled"}
Errs == {"none", "own", "deadline", "canceled"}
Causes == {"none", "deadline", "canceled", "maxAttempts"}

TypeOK ==
    /\ retry \in Policies
    /\ pc \in PCs
    /\ now \in Nat
    /\ ctxErr \in CtxErrs
    /\ wake \in Int
    /\ attempts \in Nat
    /\ lastErr \in Errs
    /\ cause \in Causes
    /\ cond \in BOOLEAN
    /\ honours \in BOOLEAN
    /\ seen \in BOOLEAN
    /\ condInTime \in BOOLEAN
    /\ late \in 0 .. LateCap
    /\ pc = "error" => cause # "none"

Init ==
    /\ retry \in Policies
    /\ pc = "start"
    /\ now = 0
    /\ ctxErr \in {"none", "canceled"}  \* the run context may be done already
    /\ wake = 0
    /\ attempts = 0
    /\ lastErr = "none"
    /\ cause = "none"
    /\ cond \in BOOLEAN
    /\ honours \in BOOLEAN
    /\ seen = FALSE
    /\ condInTime = IF ctxErr = "none" THEN FALSE ELSE cond
    /\ late = 0

Running == pc \notin {"start", "ok", "error"}

-----------------------------------------------------------------------------
(* The world around the step. *)

ContextDone(err) ==
    IF ctxErr = "none"
    THEN ctxErr' = err /\ condInTime' = cond
    ELSE UNCHANGED ctxVars

Tick ==
    /\ Running
    /\ now < Horizon
    /\ now' = now + 1
    /\ IF now' >= retry.timeout THEN ContextDone("deadline") ELSE UNCHANGED ctxVars
    /\ UNCHANGED <<retry, honours, pc, wake, invokeVars, lastErr, cause, cond>>

\* Another case failed and the errgroup cancelled the run context.
CancelRunContext ==
    /\ Running
    /\ ctxErr = "none"
    /\ ContextDone("canceled")
    /\ UNCHANGED <<retry, honours, pc, now, wake, invokeVars, lastErr, cause, cond>>

ConditionMet ==
    /\ Running
    /\ ~cond
    /\ cond' = TRUE
    /\ UNCHANGED <<retry, honours, pc, now, ctxVars, wake, invokeVars, lastErr, cause>>

-----------------------------------------------------------------------------
(* executeAwaitStep. *)

\* buildAwaitRetryError, with the cause it is given.
Fail(why) ==
    /\ pc' = "error"
    /\ cause' = why

OneMoreLate == IF late < LateCap THEN late + 1 ELSE late

\* operation(): attemptsMade is counted before the handler is invoked.
BeginAttempt(ctxDone) ==
    /\ pc' = "invoking"
    /\ attempts' = attempts + 1
    /\ seen' = cond
    /\ late' = IF ctxDone THEN OneMoreLate ELSE late

NoAttempts == retry.maxAttempts <= 0

Start ==
    /\ pc = "start"
    /\ \/ /\ NoAttempts
          /\ Fail("maxAttempts")
          /\ UNCHANGED <<ctxVars, invokeVars>>
       \/ /\ ~NoAttempts
          /\ IF retry.timeout <= 0 THEN ContextDone("deadline") ELSE UNCHANGED ctxVars
          /\ BeginAttempt(ctxErr # "none" \/ retry.timeout <= 0)
          /\ UNCHANGED cause
    /\ UNCHANGED <<retry, honours, now, wake, lastErr, cond>>

\* What Invoke may return: success only if the condition holds by now, an error
\* of its own only if it did not hold at the start, and, from a handler that
\* honours its context, the error of a done context.
InvokeErrors ==
    (IF seen THEN {} ELSE {"own"})
        \cup (IF honours /\ ctxErr # "none" THEN {ctxErr} ELSE {})

\* Fault: Retry does not look at the context between attempts.
StopRetryIgnoresContext ==
    \/ attempts >= retry.maxAttempts
    \/ now + retry.interval > MaxElapsedTime

\* Fault: the last attempt is never made.
StopRetryOneEarly ==
    \/ attempts >= retry.maxAttempts - 1
    \/ ctxErr # "none"
    \/ now + retry.interval > MaxElapsedTime

\* Retry gives up: a permanent error after the last attempt, a done context, or
\* backoff's own limit on elapsed time.
StopRetry ==
    \/ attempts >= retry.maxAttempts
    \/ ctxErr # "none"
    \/ now + retry.interval > MaxElapsedTime

AttemptReturns ==
    /\ pc = "invoking"
    /\ \/ /\ cond
          /\ pc' = "ok"
          /\ UNCHANGED <<wake, lastErr>>
       \/ \E err \in InvokeErrors :
             /\ lastErr' = err
             /\ pc' = IF StopRetry THEN "gaveUp" ELSE "sleeping"
             /\ wake' = now + retry.interval
    /\ UNCHANGED <<retry, honours, now, ctxVars, invokeVars, cause, cond>>

\* The select in Retry: when both are ready either branch may be taken.
TimerFires ==
    /\ pc = "sleeping"
    /\ now >= wake
    /\ BeginAttempt(ctxErr # "none")
    /\ UNCHANGED <<retry, honours, now, ctxVars, wake, lastErr, cause, cond>>

SleepInterrupted ==
    /\ pc = "sleeping"
    /\ ctxErr # "none"
    /\ pc' = "gaveUp"
    /\ UNCHANGED <<retry, honours, now, ctxVars, wake, invokeVars, lastErr, cause, cond>>

\* Fault: the last look is not counted against the policy.
FinalLookAlways == ctxErr # "none"

\* Fault: no last look.
FinalLookNever == FALSE

FinalLook == ctxErr # "none" /\ attempts < retry.maxAttempts

\* Fault: an error without a cause while the context is alive.
FinalCauseFromContext == ctxErr

FinalCause == IF ctxErr = "none" THEN "maxAttempts" ELSE ctxErr

AfterRetry ==
    /\ pc = "gaveUp"
    /\ \/ /\ FinalLook
          /\ pc' = "final"
          /\ seen' = cond
          /\ late' = OneMoreLate
       \/ /\ ~FinalLook
          /\ pc' = "spent"
          /\ UNCHANGED <<seen, late>>
    /\ UNCHANGED <<retry, honours, now, ctxVars, wake, attempts, lastErr, cause, cond>>

\* The context is read once more for the cause; it may be done by now.
NameCause ==
    /\ pc = "spent"
    /\ Fail(FinalCause)
    /\ UNCHANGED <<retry, honours, now, ctxVars, wake, invokeVars, lastErr, cond>>

\* Fault: the final look is repeated until it succeeds.
FinalRepeats ==
    /\ pc = "final"
    /\ \/ /\ cond
          /\ pc' = "ok"
          /\ UNCHANGED lastErr
       \/ \E err \in InvokeErrors :
             /\ lastErr' = err
             /\ UNCHANGED pc
    /\ UNCHANGED <<retry, honours, now, ctxVars, wake, invokeVars, cause, cond>>

FinalReturns ==
    /\ pc = "final"
    /\ attempts' = attempts + 1
    /\ \/ /\ cond
          /\ pc' = "ok"
          /\ UNCHANGED <<lastErr, cause>>
       \/ \E err \in InvokeErrors :
             /\ lastErr' = err
             /\ Fail(ctxErr)
    /\ UNCHANGED <<retry, honours, now, ctxVars, wake, seen, late, cond>>

-----------------------------------------------------------------------------

Step == Start \/ AttemptReturns \/ TimerFires \/ SleepInterrupted \/ AfterRetry
            \/ NameCause \/ FinalReturns

World == Tick \/ CancelRunContext \/ ConditionMet

Terminated == pc \in {"ok", "error"} /\ UNCHANGED vars

Next == Step \/ World \/ Terminated

Spec == Init /\ [][Next]_vars

\* The step's goroutine runs and a handler's Invoke returns; time passes.
FairSpec == Spec /\ WF_vars(Step) /\ WF_vars(Tick)

-----------------------------------------------------------------------------
(* Properties. *)

\* No schedule of timer, deadline and cancellation, and not the extra invocation
\* after the deadline either, makes more invocations than max_attempts allows.
AttemptsBounded == attempts <= IF retry.maxAttempts > 0 THEN retry.maxAttempts ELSE 0

\* Once the context is done at most two more invocations begin: one if the timer
\* wins the select, and the final one.
StopsPromptly == late <= 2

\* A condition that became true while the context was alive, which it may still be, is
\* never missed while attempts are left, provided the handler still answers on a done
\* context and backoff's limit on elapsed time is out of reach (see PolicyExhausted).
ConditionNotMissed ==
    pc = "error" /\ ~honours /\ (condInTime \/ (cond /\ ctxErr = "none")) =>
        attempts >= retry.maxAttempts

\* README: an await retries "until it succeeds or the retry policy is exhausted",
\* that is until the attempts are used up or the context is done.
PolicyExhausted ==
    pc = "error" => attempts >= retry.maxAttempts \/ ctxErr # "none"

\* The cause the error names is true.
CauseIsTrue ==
    pc = "error" =>
        /\ cause \in {"deadline", "canceled"} => cause = ctxErr
        /\ cause = "maxAttempts" => attempts >= retry.maxAttempts

\* The step returns, whatever the system under test does.
AwaitReturns == <>(pc \in {"ok", "error"})
=============================================================================
