---------------------------- MODULE SuiteRunProofs ----------------------------
(* Proofs about SuiteRun, for every number of cases, every default limit and every
   set of limits: its invariants, and that it implements SuiteContract. *)
EXTENDS SuiteRunRefinement, TLAPS, FiniteSetTheorems

\* A case whose goroutine or subtest is alive.
Active(c) == cs[c] \notin {"idle", "reported"}

\* What each phase of RunCases has behind it.
PhaseInv ==
    /\ phase \in {"options", "setup"} =>
          /\ \A c \in Cases : cs[c] = "idle"
          /\ retOther = {} /\ retCases = {} /\ ~suiteUp
    /\ phase = "options" => ~canceled /\ groupErr = NoCase /\ collected = {}
    /\ phase = "setup" => ~canceled /\ groupErr = NoCase /\ collected = {}
    /\ phase = "cases" => suiteUp /\ retOther = {} /\ retCases = {}
    /\ phase = "teardown" => suiteUp /\ retOther = {}
    /\ phase = "done" => ~suiteUp
    /\ phase \in {"teardown", "done"} => \A c \in Cases : ~Active(c)

\* Which states a case can be in depends on the mode, only selected cases start, and
\* the sequential loop has one case in hand at most.
ModeInv ==
    /\ \A c \in Cases : cs[c] # "idle" => c \in Selected
    /\ Sequential =>
          /\ \A c \in Cases : cs[c] \in {"idle", "running", "returned", "reported"}
          /\ \A c, d \in Cases : Active(c) /\ Active(d) => c = d
    /\ FailFastParallel => \A c \in Cases : cs[c] # "queued"
    /\ ContinueParallel => \A c \in Cases : cs[c] \notin {"failing", "canceling"}

\* The slots of the errgroup and of the semaphore are never overdrawn.
SlotInv == config.parallel => Cardinality(Holders) <= effectiveParallelismLimit

\* A case has no result before its subtest ends.
ResultInv == \A c \in Cases : cs[c] \in {"idle", "queued", "running"} => res[c] = NoResult

\* Only the errgroup cancels, after it has stored an error; before that there is no
\* victim, and the error stored is that of a failed case that is none.
GroupInv ==
    /\ canceled => FailFastParallel
    /\ ~canceled => \A c \in Cases : ~res[c].victim
    /\ phase = "cases" /\ canceled => groupErr # NoCase
    /\ groupErr # NoCase => FailFastParallel /\ FailedCase(groupErr) /\ ~res[groupErr].victim
    /\ \A c \in Cases : cs[c] = "failing" => FailedCase(c)
    /\ \A c \in Cases : cs[c] = "canceling" => groupErr = c
    /\ FailFastParallel => \A c \in Cases : cs[c] = "reported" /\ FailedCase(c) => groupErr # NoCase

\* Outside the errgroup the errors collected are those of the failed cases that were
\* dealt with; the sequential loop returns at the first one in fail-fast mode.
CollectInv ==
    phase \in {"options", "setup", "cases"} /\ ~FailFastParallel =>
        /\ collected = {c \in Cases : cs[c] = "reported" /\ FailedCase(c)}
        /\ config.failFast => collected = {}

\* What executeCases has returned.
ReturnInv ==
    /\ phase = "done" /\ "setup" \in retOther => retCases = {}
    /\ phase = "teardown" \/ (phase = "done" /\ "setup" \notin retOther) =>
          /\ \A c \in retCases : FailedCase(c) /\ (config.failFast => ~res[c].victim)
          /\ retCases = {} => AllReported /\ \A c \in Selected : ~FailedCase(c)
          /\ ~config.failFast => AllReported /\ retCases = {c \in Selected : FailedCase(c)}
    /\ phase = "done" /\ (retOther # {} \/ retCases # {}) => testFailed
    /\ phase = "crashed" => testFailed /\ "setup" \notin retOther

IInv ==
    /\ TypeOK /\ PhaseInv /\ ModeInv /\ SlotInv /\ ResultInv /\ GroupInv /\ CollectInv
    /\ ReturnInv

-----------------------------------------------------------------------------

USE NumCasesAssumption, DefaultLimitAssumption, LimitsAssumption
    DEF Cases, NoCase, NoDump, UnknownName

\* The zero state of RunCases.
LEMMA InitIInv == Init => IInv
  <1> SUFFICES ASSUME Init PROVE IInv
    OBVIOUS
  <1> USE DEF Init
  <1>1. TypeOK
    <2>1. config \in Configs /\ phase \in Phases /\ dump \in NoDump .. UnknownName
      BY DEF Configs, Phases
    <2>2. cs \in [Cases -> CaseStates]
      BY DEF CaseStates
    <2>3. NoResult \in Results
      BY DEF NoResult, Results, CaseErrors
    <2>4. res \in [Cases -> Results]
      BY <2>3
    <2> QED
      BY <2>1, <2>2, <2>4 DEF TypeOK
  <1>2. PhaseInv /\ ModeInv
    BY DEF PhaseInv, ModeInv, Active, Sequential, FailFastParallel, ContinueParallel
  <1>3. SlotInv
    BY DEF SlotInv
  <1>4. ResultInv /\ GroupInv
    BY DEF ResultInv, GroupInv, NoResult
  <1>5. CollectInv /\ ReturnInv
    BY DEF CollectInv, ReturnInv
  <1> QED
    BY <1>1, <1>2, <1>3, <1>4, <1>5 DEF IInv

\* An option, and the end of applyRunCasesOptions: nothing but the config and the phase
\* changes, and no case has started.
LEMMA OptionsIInv ==
    ASSUME IInv, Options \/ OptionsApplied
    PROVE  IInv'
  <1> USE DEF IInv
  <1>1. /\ phase = "options" /\ phase' \in {"options", "setup"}
        /\ UNCHANGED <<dump, suiteUp, cs, res, canceled, groupErr, collected, retCases, retOther, testFailed>>
    BY DEF Options, WithContinueOnFailure, WithParallelCases, WithParallelismLimit, ApplyOption,
           OptionsApplied, groupVars, resultVars
  <1>2. config' \in Configs
    <2>1. config \in Configs
      BY DEF TypeOK
    <2>2. CASE WithContinueOnFailure \/ WithParallelCases
      BY <2>1, <2>2 DEF WithContinueOnFailure, WithParallelCases, ApplyOption, Configs
    <2>3. ASSUME NEW limit \in Limits, WithParallelismLimit(limit) PROVE config' \in Configs
      <3>1. limit \in Int
        OBVIOUS
      <3> QED
        BY <2>1, <2>3, <3>1 DEF WithParallelismLimit, ApplyOption, Configs
    <2>4. CASE OptionsApplied
      BY <2>1, <2>4 DEF OptionsApplied, Configs
    <2> QED
      BY <2>2, <2>3, <2>4 DEF Options
  <1>3. TypeOK'
    BY <1>1, <1>2 DEF TypeOK, Phases
  <1>4. PhaseInv' /\ ResultInv'
    BY <1>1 DEF PhaseInv, ResultInv, Active
  <1>5. ModeInv'
    BY <1>1 DEF PhaseInv, ModeInv, Active, Selected
  <1>6. SlotInv'
    <2>1. Holders' = {} /\ Cardinality(Holders') = 0
      BY <1>1, FS_EmptySet DEF Holders, At, PhaseInv
    <2> QED
      BY <1>2, <2>1 DEF SlotInv, effectiveParallelismLimit, Configs
  <1>7. GroupInv'
    BY <1>1 DEF GroupInv, PhaseInv
  <1>8. CollectInv' /\ ReturnInv'
    BY <1>1 DEF CollectInv, ReturnInv, PhaseInv
  <1> QED
    BY <1>3, <1>4, <1>5, <1>6, <1>7, <1>8

\* SetupSuite, successful or not: no case has started.
LEMMA SetupSuiteIInv ==
    ASSUME IInv, SetupSuite
    PROVE  IInv'
  <1> USE DEF IInv, SetupSuite
  <1>1. /\ phase = "setup" /\ phase' \in {"cases", "done"}
        /\ UNCHANGED <<config, dump, cs, res, canceled, groupErr, collected, retCases>>
    BY DEF optionVars, groupVars
  <1>2. TypeOK'
    BY <1>1 DEF TypeOK, Phases
  <1>3. PhaseInv'
    BY <1>1 DEF PhaseInv, Active
  <1>4. ModeInv' /\ ResultInv'
    BY <1>1 DEF ModeInv, ResultInv, Active, Selected, Sequential, FailFastParallel, ContinueParallel
  <1>5. SlotInv'
    BY <1>1 DEF SlotInv, Holders, At, effectiveParallelismLimit
  <1>6. GroupInv' /\ CollectInv'
    BY <1>1 DEF GroupInv, CollectInv, PhaseInv, FailFastParallel, FailedCase
  <1>7. ReturnInv'
    BY <1>1 DEF ReturnInv, PhaseInv
  <1> QED
    BY <1>2, <1>3, <1>4, <1>5, <1>6, <1>7

\* TeardownSuite: the error it adds makes the test fail, what the cases returned stays.
LEMMA TeardownSuiteIInv ==
    ASSUME IInv, TeardownSuite
    PROVE  IInv'
  <1> USE DEF IInv, TeardownSuite
  <1>1. /\ phase = "teardown" /\ phase' = "done" /\ ~suiteUp'
        /\ retOther' \in SUBSET {"teardown"}
        /\ UNCHANGED <<config, dump, cs, res, canceled, groupErr, collected, retCases>>
    BY DEF optionVars, groupVars, PhaseInv
  <1>2. TypeOK'
    BY <1>1 DEF TypeOK, Phases
  <1>3. PhaseInv' /\ ModeInv' /\ ResultInv'
    BY <1>1 DEF PhaseInv, ModeInv, ResultInv, Active, Selected, Sequential, FailFastParallel, ContinueParallel
  <1>5. SlotInv'
    BY <1>1 DEF SlotInv, Holders, At, effectiveParallelismLimit
  <1>6. GroupInv' /\ CollectInv'
    BY <1>1 DEF GroupInv, CollectInv, FailFastParallel, FailedCase
  <1>7. ReturnInv'
    BY <1>1 DEF ReturnInv, FailedCase, AllReported, Selected, Fatal
  <1> QED
    BY <1>2, <1>3, <1>5, <1>6, <1>7

\* Slots are kept or given back.
LEMMA SlotsKept ==
    ASSUME TypeOK, SlotInv, Holders' \subseteq Holders, config' = config
    PROVE  SlotInv'
  <1>1. IsFiniteSet(Cases) /\ Holders \in SUBSET Cases
    BY FS_Interval DEF Holders, At
  <1>2. IsFiniteSet(Holders)
    BY <1>1, FS_Subset
  <1>3. Cardinality(Holders) \in Nat /\ Cardinality(Holders') \in Nat
    BY <1>2, FS_Subset, FS_CardinalityType
  <1>4. Cardinality(Holders') <= Cardinality(Holders)
    BY <1>2, FS_Subset
  <1> QED
    BY <1>3, <1>4 DEF SlotInv, effectiveParallelismLimit, TypeOK, Configs

\* A free slot is taken.
LEMMA SlotTaken ==
    ASSUME TypeOK, NEW c, SlotFree, Holders' = Holders \cup {c}, config' = config
    PROVE  SlotInv'
  <1>1. IsFiniteSet(Cases) /\ Holders \in SUBSET Cases
    BY FS_Interval DEF Holders, At
  <1>2. IsFiniteSet(Holders)
    BY <1>1, FS_Subset
  <1>3. Cardinality(Holders) \in Nat
    BY <1>2, FS_CardinalityType
  <1>4. Cardinality(Holders') \in Nat /\ Cardinality(Holders') <= Cardinality(Holders) + 1
    BY <1>2, <1>3, FS_AddElement
  <1> QED
    BY <1>3, <1>4 DEF SlotInv, SlotFree, effectiveParallelismLimit, TypeOK, Configs

\* A case is started or queued: nothing but its state changes.
Starts(c, from, to) ==
    /\ CaseStep(c, from, to)
    /\ <<from, to>> \in {<<"idle", "running">>, <<"idle", "queued">>, <<"queued", "running">>}
    /\ c \in Selected
    /\ Sequential => to = "running" /\ \A d \in Cases : ~Active(d)
    /\ FailFastParallel => to = "running"
    /\ to = "running" => Sequential \/ SlotFree
    /\ UNCHANGED <<phase, res, groupVars, retCases, testFailed>>

\* Starting a case: it is selected, and a free slot or the idle loop is what lets it in.
LEMMA StartsIInv ==
    ASSUME IInv, NEW c \in Cases, NEW from, NEW to, Starts(c, from, to)
    PROVE  IInv'
  <1> USE DEF IInv
  <1>1. /\ phase = "cases" /\ cs[c] = from /\ cs' = [cs EXCEPT ![c] = to]
        /\ from \in {"idle", "queued"} /\ to \in {"queued", "running"}
        /\ UNCHANGED <<config, dump, phase, suiteUp, res, canceled, groupErr, collected, retCases, retOther, testFailed>>
    BY DEF Starts, CaseStep, optionVars, groupVars
  <1>2. cs \in [Cases -> CaseStates]
    BY DEF TypeOK
  <1>3. TypeOK'
    BY <1>1, <1>2 DEF TypeOK, CaseStates
  <1>4. PhaseInv' /\ ResultInv'
    BY <1>1, <1>2 DEF PhaseInv, ResultInv
  <1>5. ModeInv'
    BY <1>1, <1>2 DEF ModeInv, Starts, Active, Selected, Sequential, FailFastParallel, ContinueParallel
  <1>6. SlotInv'
    <2>1. CASE to = "queued"
      BY <1>1, <1>2, <2>1, SlotsKept DEF Holders, At
    <2>2. CASE to = "running" /\ SlotFree
      <3>1. Holders' = Holders \cup {c}
        BY <1>1, <1>2, <2>2 DEF Holders, At, CaseStates
      <3> QED
        BY <1>1, <2>2, <3>1, SlotTaken
    <2>3. CASE Sequential
      BY <1>1, <2>3 DEF SlotInv, Sequential
    <2> QED
      BY <1>1, <2>1, <2>2, <2>3 DEF Starts
  <1>7. GroupInv'
    BY <1>1, <1>2 DEF GroupInv, ResultInv, FailFastParallel, FailedCase, buildCaseExecutionError, NoResult, TypeOK
  <1>8. CollectInv'
    BY <1>1, <1>2 DEF CollectInv, FailFastParallel, FailedCase
  <1>9. ReturnInv'
    BY <1>1 DEF ReturnInv
  <1> QED
    BY <1>3, <1>4, <1>5, <1>6, <1>7, <1>8, <1>9

\* The sequential loop starts a case.
LEMMA RunCaseIInv ==
    ASSUME IInv, NEW c \in Cases, RunCase(c)
    PROVE  IInv'
  <1>1. Starts(c, "idle", "running")
    BY DEF RunCase, Starts, NextInOrder, At, Active, Sequential, FailFastParallel, IInv, TypeOK
  <1> QED
    BY <1>1, StartsIInv

\* group.Go starts a case.
LEMMA GroupGoIInv ==
    ASSUME IInv, NEW c \in Cases, GroupGo(c)
    PROVE  IInv'
  <1>1. Starts(c, "idle", "running")
    BY DEF GroupGo, Starts, NextInOrder, Sequential, FailFastParallel
  <1> QED
    BY <1>1, StartsIInv

\* The continue mode starts the goroutine of a case, which waits for a slot.
LEMMA SpawnIInv ==
    ASSUME IInv, NEW c \in Cases, Spawn(c)
    PROVE  IInv'
  <1>1. Starts(c, "idle", "queued")
    BY DEF Spawn, Starts, NextInOrder, Sequential, FailFastParallel, ContinueParallel
  <1> QED
    BY <1>1, StartsIInv

\* The semaphore lets a queued case in.
LEMMA AcquireIInv ==
    ASSUME IInv, NEW c \in Cases, Acquire(c)
    PROVE  IInv'
  <1>1. cs[c] = "queued"
    BY DEF Acquire, CaseStep
  <1>2. Starts(c, "queued", "running")
    BY <1>1 DEF Acquire, Starts, IInv, ModeInv
  <1> QED
    BY <1>2, StartsIInv

\* A subtest ends: only now has the case a result, and a victim only if the context was done.
LEMMA SubtestEndsIInv ==
    ASSUME IInv, NEW c \in Cases, SubtestEnds(c)
    PROVE  IInv'
  <1> USE DEF IInv
  <1>1. PICK marked \in BOOLEAN, err \in CaseErrors, victim \in BOOLEAN :
           LET ok == ~marked /\ (Sequential => err = "none")
           IN  /\ victim => canceled /\ (marked \/ err # "none")
               /\ res' = [res EXCEPT ![c] = [ok |-> ok, err |-> err, victim |-> victim]]
               /\ testFailed' = (testFailed \/ ~ok)
    BY DEF SubtestEnds
  <1>2. /\ phase = "cases" /\ cs[c] = "running" /\ cs' = [cs EXCEPT ![c] = "returned"]
        /\ UNCHANGED <<config, dump, phase, suiteUp, canceled, groupErr, collected, retCases, retOther>>
    BY DEF SubtestEnds, CaseStep, optionVars, groupVars
  <1>3. cs \in [Cases -> CaseStates] /\ res \in [Cases -> Results]
    BY DEF TypeOK
  <1>4. /\ res'[c] \in Results
        /\ res'[c].victim => canceled
        /\ \A d \in Cases \ {c} : res'[d] = res[d] /\ cs'[d] = cs[d]
        /\ cs'[c] = "returned"
    BY <1>1, <1>2, <1>3 DEF Results
  <1>5. TypeOK'
    <2>1. cs' \in [Cases -> CaseStates] /\ res' \in [Cases -> Results]
      BY <1>1, <1>2, <1>3, <1>4 DEF CaseStates
    <2>2. testFailed' \in BOOLEAN
      BY <1>1
    <2> QED
      BY <1>2, <2>1, <2>2 DEF TypeOK
  <1>6. PhaseInv'
    BY <1>2 DEF PhaseInv
  <1>7. ModeInv'
    BY <1>2, <1>3, <1>4 DEF ModeInv, Active, Selected, Sequential, FailFastParallel, ContinueParallel
  <1>8. SlotInv'
    BY <1>2, <1>3, <1>4, SlotsKept DEF Holders, At, CaseStates
  <1>9. ResultInv'
    BY <1>4 DEF ResultInv
  <1>10. GroupInv'
    <2>1. groupErr # c
      BY <1>2 DEF GroupInv, ResultInv, FailedCase, buildCaseExecutionError, NoResult
    <2> QED
      BY <1>2, <1>4, <2>1 DEF GroupInv, FailFastParallel, FailedCase, TypeOK
  <1>11. CollectInv'
    BY <1>2, <1>4 DEF CollectInv, FailFastParallel, FailedCase
  <1>12. ReturnInv'
    BY <1>2 DEF ReturnInv
  <1> QED
    BY <1>5, <1>6, <1>7, <1>8, <1>9, <1>10, <1>11, <1>12

\* A panic: everything stays as it was, the suite included.
LEMMA SubtestPanicsIInv ==
    ASSUME IInv, NEW c \in Cases, SubtestPanics(c)
    PROVE  IInv'
  <1> USE DEF IInv
  <1>1. /\ phase = "cases" /\ phase' = "crashed" /\ testFailed'
        /\ UNCHANGED <<config, dump, suiteUp, cs, res, canceled, groupErr, collected, retCases, retOther>>
    BY DEF SubtestPanics, optionVars, groupVars
  <1>2. TypeOK'
    BY <1>1 DEF TypeOK, Phases, SubtestPanics
  <1>3. PhaseInv' /\ ModeInv' /\ ResultInv'
    BY <1>1 DEF PhaseInv, ModeInv, ResultInv, Active, Selected, Sequential, FailFastParallel, ContinueParallel
  <1>4. SlotInv'
    BY <1>1 DEF SlotInv, Holders, At, effectiveParallelismLimit
  <1>5. GroupInv' /\ CollectInv'
    BY <1>1 DEF GroupInv, CollectInv, FailFastParallel, FailedCase
  <1>6. ReturnInv'
    BY <1>1 DEF ReturnInv, PhaseInv
  <1> QED
    BY <1>2, <1>3, <1>4, <1>5, <1>6

\* The state of one case that has returned moves on; results stay, and the slot is kept
\* or given back.
LEMMA CaseMovesOn ==
    ASSUME IInv, NEW c \in Cases, NEW to \in {"failing", "canceling", "reported"},
           cs[c] \in {"returned", "failing", "canceling"},
           cs' = [cs EXCEPT ![c] = to],
           to # "reported" => FailFastParallel,
           phase = "cases",
           phase' = "cases" \/ (phase' = "teardown" /\ Sequential /\ to = "reported"),
           UNCHANGED <<config, dump, suiteUp, res, retOther>>,
           phase' = "cases" => retCases' = {}
    PROVE  PhaseInv' /\ ModeInv' /\ SlotInv' /\ ResultInv'
  <1> USE DEF IInv
  <1>1. cs \in [Cases -> CaseStates]
    BY DEF TypeOK
  <1>2. PhaseInv'
    BY <1>1 DEF PhaseInv, ModeInv, Active
  <1>3. ModeInv'
    BY <1>1 DEF ModeInv, Active, Selected, Sequential, FailFastParallel, ContinueParallel
  <1>4. SlotInv'
    BY <1>1, SlotsKept DEF Holders, At, CaseStates
  <1>5. ResultInv'
    BY <1>1 DEF ResultInv
  <1> QED
    BY <1>2, <1>3, <1>4, <1>5

\* The sequential loop looks at the result: it returns, appends or goes on.
LEMMA CollectSequentialIInv ==
    ASSUME IInv, NEW c \in Cases, CollectSequential(c)
    PROVE  IInv'
  <1> USE DEF IInv
  <1>1. /\ Sequential /\ phase = "cases" /\ cs[c] = "returned" /\ cs' = [cs EXCEPT ![c] = "reported"]
        /\ UNCHANGED <<config, dump, suiteUp, retOther, res, canceled, groupErr, testFailed>>
    BY DEF CollectSequential, CaseStep, optionVars
  <1>2. \/ ~FailedCase(c) /\ UNCHANGED <<phase, collected, retCases>>
        \/ FailedCase(c) /\ config.failFast /\ phase' = "teardown" /\ retCases' = {c} /\ UNCHANGED collected
        \/ FailedCase(c) /\ ~config.failFast /\ collected' = collected \cup {c} /\ UNCHANGED <<phase, retCases>>
    BY <1>1 DEF CollectSequential, StopsOnFailure, ReturnFromCases, FailedCase
  <1>3. cs \in [Cases -> CaseStates]
    BY DEF TypeOK
  <1>4. TypeOK'
    BY <1>1, <1>2, <1>3 DEF TypeOK, Phases, CaseStates
  <1>5. PhaseInv' /\ ModeInv' /\ SlotInv' /\ ResultInv'
    BY <1>1, <1>2, CaseMovesOn DEF PhaseInv
  <1>6. ~canceled /\ groupErr = NoCase /\ ~FailFastParallel
    BY <1>1 DEF GroupInv, Sequential, FailFastParallel
  <1>7. \A d \in Cases : FailedCase(d)' <=> FailedCase(d)
    BY <1>1, <1>3 DEF FailedCase
  <1>8. GroupInv'
    BY <1>1, <1>3, <1>6, <1>7 DEF GroupInv, FailFastParallel
  <1>9. CollectInv'
    BY <1>1, <1>2, <1>3, <1>6, <1>7 DEF CollectInv, FailFastParallel
  <1>10. ReturnInv'
    BY <1>1, <1>2, <1>6, <1>7 DEF ReturnInv, GroupInv
  <1> QED
    BY <1>4, <1>5, <1>8, <1>9, <1>10

\* A goroutine of the errgroup has its error, or none: the failure of the case is lost
\* only if the context was cancelled before, and then an error is kept already.
LEMMA GroupReturnIInv ==
    ASSUME IInv, NEW c \in Cases, GroupReturn(c)
    PROVE  IInv'
  <1> USE DEF IInv
  <1> DEFINE err == IF Suppressed(c) THEN "none" ELSE res[c].err
             to == IF buildCaseExecutionError(res[c].ok, err) THEN "failing" ELSE "reported"
  <1>1. /\ FailFastParallel /\ phase = "cases" /\ cs[c] = "returned" /\ cs' = [cs EXCEPT ![c] = to]
        /\ UNCHANGED <<config, dump, phase, suiteUp, res, canceled, groupErr, collected, retCases, retOther, testFailed>>
    BY DEF GroupReturn, CaseStep, optionVars, groupVars
  <1>2. to \in {"failing", "reported"}
    OBVIOUS
  <1>3. /\ to = "failing" => FailedCase(c)
        /\ to = "reported" /\ FailedCase(c) => groupErr # NoCase
    BY <1>1 DEF FailedCase, buildCaseExecutionError, Suppressed, GroupInv
  <1> HIDE DEF to
  <1>4. cs \in [Cases -> CaseStates]
    BY DEF TypeOK
  <1>5. TypeOK'
    BY <1>1, <1>2, <1>4 DEF TypeOK, CaseStates
  <1>6. PhaseInv' /\ ModeInv' /\ SlotInv' /\ ResultInv'
    BY <1>1, <1>2, CaseMovesOn DEF PhaseInv
  <1>7. \A d \in Cases : FailedCase(d)' <=> FailedCase(d)
    BY <1>1, <1>2, <1>4 DEF FailedCase
  <1>8. GroupInv'
    BY <1>1, <1>2, <1>3, <1>4, <1>7 DEF GroupInv, FailFastParallel, TypeOK
  <1>9. CollectInv' /\ ReturnInv'
    BY <1>1 DEF CollectInv, ReturnInv, FailFastParallel
  <1> QED
    BY <1>5, <1>6, <1>8, <1>9

\* errOnce: the error kept is that of a failed case, stored before anything cancelled the
\* context, so the case is no victim.
LEMMA ErrOnceIInv ==
    ASSUME IInv, NEW c \in Cases, ErrOnce(c)
    PROVE  IInv'
  <1> USE DEF IInv
  <1>1. PICK to \in {"canceling", "reported"} :
           /\ FailFastParallel /\ phase = "cases" /\ cs[c] = "failing" /\ cs' = [cs EXCEPT ![c] = to]
           /\ UNCHANGED <<config, dump, phase, suiteUp, res, canceled, collected, retCases, retOther, testFailed>>
           /\ to = "canceling" => groupErr = NoCase /\ groupErr' = c
           /\ to = "reported" => groupErr # NoCase /\ groupErr' = groupErr
    BY DEF ErrOnce, CaseStep, optionVars, FirstError
  <1>2. cs \in [Cases -> CaseStates]
    BY DEF TypeOK
  <1>3. TypeOK'
    BY <1>1, <1>2 DEF TypeOK, CaseStates
  <1>4. PhaseInv' /\ ModeInv' /\ SlotInv' /\ ResultInv'
    BY <1>1, CaseMovesOn DEF PhaseInv
  <1>5. \A d \in Cases : FailedCase(d)' <=> FailedCase(d)
    BY <1>1, <1>2 DEF FailedCase
  <1>6. GroupInv'
    <2>1. FailedCase(c) /\ (to = "canceling" => ~res[c].victim)
      BY <1>1 DEF GroupInv
    <2>2. \A d \in Cases : cs'[d] = "canceling" => groupErr' = d
      BY <1>1, <1>2 DEF GroupInv
    <2>3. groupErr' # NoCase
      BY <1>1
    <2>4. PICK g \in Cases : groupErr' = g /\ FailedCase(g)' /\ ~res'[g].victim
      <3>1. CASE to = "canceling"
        BY <1>1, <1>5, <2>1, <3>1
      <3>2. CASE to = "reported"
        BY <1>1, <1>5, <3>2 DEF GroupInv, TypeOK
      <3> QED
        BY <3>1, <3>2
    <2> QED
      BY <1>1, <1>2, <1>5, <2>2, <2>3, <2>4 DEF GroupInv, FailFastParallel
  <1>7. CollectInv' /\ ReturnInv'
    BY <1>1 DEF CollectInv, ReturnInv, FailFastParallel
  <1> QED
    BY <1>3, <1>4, <1>6, <1>7

\* The context is cancelled by the goroutine whose error is kept.
LEMMA CancelRunContextIInv ==
    ASSUME IInv, NEW c \in Cases, CancelRunContext(c)
    PROVE  IInv'
  <1> USE DEF IInv
  <1>1. /\ phase = "cases" /\ cs[c] = "canceling" /\ cs' = [cs EXCEPT ![c] = "reported"] /\ canceled'
        /\ UNCHANGED <<config, dump, phase, suiteUp, res, groupErr, collected, retCases, retOther, testFailed>>
    BY DEF CancelRunContext, CaseStep, optionVars
  <1>2. cs \in [Cases -> CaseStates]
    BY DEF TypeOK
  <1>3. TypeOK'
    BY <1>1, <1>2 DEF TypeOK, CaseStates, CancelRunContext
  <1>4. PhaseInv' /\ ModeInv' /\ SlotInv' /\ ResultInv'
    BY <1>1, CaseMovesOn DEF PhaseInv
  <1>5. groupErr = c /\ FailFastParallel
    BY <1>1 DEF GroupInv
  <1>6. \A d \in Cases : FailedCase(d)' <=> FailedCase(d)
    BY <1>1, <1>2 DEF FailedCase
  <1>7. GroupInv'
    BY <1>1, <1>2, <1>5, <1>6 DEF GroupInv, FailFastParallel
  <1>8. CollectInv' /\ ReturnInv'
    BY <1>1, <1>5 DEF CollectInv, ReturnInv, FailFastParallel
  <1> QED
    BY <1>3, <1>4, <1>7, <1>8

\* The continue mode appends the error under its mutex and frees the slot.
LEMMA CollectAndReleaseIInv ==
    ASSUME IInv, NEW c \in Cases, CollectAndRelease(c)
    PROVE  IInv'
  <1> USE DEF IInv
  <1>1. /\ ContinueParallel /\ phase = "cases" /\ cs[c] = "returned" /\ cs' = [cs EXCEPT ![c] = "reported"]
        /\ collected' = IF FailedCase(c) THEN collected \cup {c} ELSE collected
        /\ UNCHANGED <<config, dump, phase, suiteUp, res, canceled, groupErr, retCases, retOther, testFailed>>
    BY DEF CollectAndRelease, CaseStep, optionVars, FailedCase, appendExecutionError
  <1>2. cs \in [Cases -> CaseStates]
    BY DEF TypeOK
  <1>3. TypeOK'
    BY <1>1, <1>2 DEF TypeOK, CaseStates
  <1>4. PhaseInv' /\ ModeInv' /\ SlotInv' /\ ResultInv'
    BY <1>1, CaseMovesOn DEF PhaseInv
  <1>5. ~canceled /\ groupErr = NoCase /\ ~FailFastParallel /\ ~config.failFast
    BY <1>1 DEF GroupInv, ContinueParallel, FailFastParallel
  <1>6. \A d \in Cases : FailedCase(d)' <=> FailedCase(d)
    BY <1>1, <1>2 DEF FailedCase
  <1>7. GroupInv'
    BY <1>1, <1>2, <1>5, <1>6 DEF GroupInv, FailFastParallel
  <1>8. CollectInv'
    BY <1>1, <1>2, <1>5, <1>6 DEF CollectInv, FailFastParallel
  <1>9. ReturnInv'
    BY <1>1 DEF ReturnInv
  <1> QED
    BY <1>3, <1>4, <1>7, <1>8, <1>9

\* The end of the loop, of Wait of the errgroup and of Wait of the WaitGroup.
LEMMA CasesDoneIInv ==
    ASSUME IInv, SequentialDone \/ GroupWait \/ WaitGroupWait
    PROVE  IInv'
  <1> USE DEF IInv
  <1>1. PICK errs :
           /\ phase = "cases" /\ AllReported /\ phase' = "teardown" /\ retCases' = errs
           /\ UNCHANGED <<config, dump, suiteUp, cs, res, groupErr, collected, retOther, testFailed>>
           /\ \/ ~FailFastParallel /\ errs = collected /\ canceled' = canceled
              \/ FailFastParallel /\ errs = GroupError /\ canceled' = TRUE
    BY DEF SequentialDone, GroupWait, WaitGroupWait, CasesDone, ReturnFromCases, optionVars,
           Sequential, FailFastParallel, ContinueParallel
  <1>2. errs \in SUBSET Cases
    <2>1. collected \in SUBSET Cases /\ GroupError \in SUBSET Cases
      BY DEF TypeOK, GroupError
    <2> QED
      BY <1>1, <2>1
  <1>3. TypeOK'
    BY <1>1, <1>2 DEF TypeOK, Phases
  <1>4. \A c \in Cases : ~Active(c)
    BY <1>1 DEF ModeInv, AllReported, Active
  <1>5. PhaseInv'
    BY <1>1, <1>4 DEF PhaseInv, Active
  <1>6. ModeInv' /\ ResultInv'
    BY <1>1 DEF ModeInv, ResultInv, Active, Selected, Sequential, FailFastParallel, ContinueParallel
  <1>7. SlotInv'
    BY <1>1 DEF SlotInv, Holders, At, effectiveParallelismLimit
  <1>8. GroupInv'
    BY <1>1 DEF GroupInv, FailFastParallel, FailedCase
  <1>9. CollectInv'
    BY <1>1 DEF CollectInv
  <1>10. ReturnInv'
    <2>1. AllReported' /\ \A c \in Cases : FailedCase(c)' <=> FailedCase(c)
      BY <1>1 DEF AllReported, Selected, FailedCase
    <2>2. Selected' = Selected /\ Selected \subseteq Cases
      BY <1>1 DEF Selected
    <2>3. \A c \in errs : FailedCase(c) /\ (config.failFast => ~res[c].victim)
      BY <1>1 DEF GroupInv, CollectInv, GroupError
    <2>4. errs = {} => \A c \in Selected : ~FailedCase(c)
      BY <1>1, <2>2 DEF GroupInv, CollectInv, GroupError, AllReported
    <2>5. ~config.failFast => errs = {c \in Selected : FailedCase(c)}
      BY <1>1, <2>2 DEF CollectInv, AllReported, ModeInv, FailFastParallel
    <2> QED
      BY <1>1, <1>2, <2>1, <2>2, <2>3, <2>4, <2>5 DEF ReturnInv
  <1> QED
    BY <1>3, <1>5, <1>6, <1>7, <1>8, <1>9, <1>10

\* Nothing happens: the program has ended, or something else moved.
LEMMA StutterIInv ==
    ASSUME IInv, UNCHANGED vars
    PROVE  IInv'
  <1> USE DEF IInv
  <1>1. UNCHANGED <<config, dump, phase, suiteUp, cs, res, canceled, groupErr, collected,
                    retCases, retOther, testFailed>>
    BY DEF vars, optionVars, groupVars, resultVars
  <1>2. TypeOK' /\ ResultInv'
    BY <1>1 DEF TypeOK, ResultInv
  <1>3. PhaseInv' /\ ModeInv'
    BY <1>1 DEF PhaseInv, ModeInv, Active, Selected, Sequential, FailFastParallel, ContinueParallel
  <1>4. SlotInv'
    BY <1>1 DEF SlotInv, Holders, At, effectiveParallelismLimit
  <1>5. GroupInv' /\ CollectInv'
    BY <1>1 DEF GroupInv, CollectInv, FailFastParallel, FailedCase
  <1>6. ReturnInv'
    BY <1>1 DEF ReturnInv, FailedCase, AllReported, Selected
  <1> QED
    BY <1>2, <1>3, <1>4, <1>5, <1>6

-----------------------------------------------------------------------------

\* The invariant is inductive: every step of every goroutine keeps it.
LEMMA NextIInv == IInv /\ [Next]_vars => IInv'
  <1> SUFFICES ASSUME IInv, [Next]_vars PROVE IInv'
    OBVIOUS
  <1>1. CASE Options
    BY <1>1, OptionsIInv
  <1>2. CASE Main
    <2>1. ASSUME NEW c \in Cases, RunCase(c) \/ CollectSequential(c) \/ GroupGo(c) \/ Spawn(c)
          PROVE  IInv'
      BY <2>1, RunCaseIInv, CollectSequentialIInv, GroupGoIInv, SpawnIInv
    <2> QED
      BY <1>2, <2>1, OptionsIInv, SetupSuiteIInv, CasesDoneIInv, TeardownSuiteIInv DEF Main
  <1>3. ASSUME NEW c \in Cases, Goroutine(c)
        PROVE  IInv'
    BY <1>3, SubtestEndsIInv, GroupReturnIInv, ErrOnceIInv, CancelRunContextIInv, AcquireIInv,
       CollectAndReleaseIInv DEF Goroutine
  <1>4. ASSUME NEW c \in Cases, SubtestPanics(c)
        PROVE  IInv'
    BY <1>4, SubtestPanicsIInv
  <1>5. CASE Terminated \/ UNCHANGED vars
    BY <1>5, StutterIInv DEF Terminated
  <1> QED
    BY <1>1, <1>2, <1>3, <1>4, <1>5 DEF Next

\* The invariant holds throughout a run of RunCases.
LEMMA SuiteInvariant == Spec => []IInv
  BY InitIInv, NextIInv, PTL DEF Spec

-----------------------------------------------------------------------------
(* The invariants. *)

\* The types of RunCases, for any number of cases and any limits.
THEOREM TypeCorrect == Spec => []TypeOK
  BY SuiteInvariant, PTL DEF IInv

\* A running case holds a slot, and the sequential loop has one case at a time.
LEMMA LimitFromIInv == IInv => LimitRespected
  <1> SUFFICES ASSUME IInv PROVE LimitRespected
    OBVIOUS
  <1>1. IsFiniteSet(Cases) /\ Holders \in SUBSET Cases /\ At({"running"}) \subseteq Holders
    BY FS_Interval DEF Holders, At, CaseStates
  <1>2. IsFiniteSet(Holders)
    BY <1>1, FS_Subset
  <1>3. CASE Sequential
    <2>1. \A c, d \in At({"running"}) : c = d
      BY <1>3 DEF At, IInv, ModeInv, Active
    <2>2. CASE At({"running"}) = {}
      BY <1>3, <2>2, FS_EmptySet DEF LimitRespected
    <2>3. ASSUME NEW c \in At({"running"}) PROVE Cardinality(At({"running"})) = 1
      <3>1. At({"running"}) = {c}
        BY <2>1, <2>3
      <3> QED
        BY <3>1, FS_Singleton
    <2> QED
      BY <1>3, <2>2, <2>3 DEF LimitRespected
  <1>4. CASE ~Sequential
    <2>1. Cardinality(Holders) \in Nat /\ Cardinality(At({"running"})) \in Nat
      BY <1>1, <1>2, FS_Subset, FS_CardinalityType
    <2>2. Cardinality(At({"running"})) <= Cardinality(Holders)
      BY <1>1, <1>2, FS_Subset
    <2>3. Cardinality(Holders) <= effectiveParallelismLimit
      BY <1>4 DEF IInv, SlotInv, Sequential
    <2>4. effectiveParallelismLimit \in Int
      BY DEF IInv, TypeOK, Configs, effectiveParallelismLimit
    <2> QED
      BY <1>4, <2>1, <2>2, <2>3, <2>4 DEF LimitRespected
  <1> QED
    BY <1>3, <1>4

\* No step of any goroutine puts more cases into their bodies than the limit in force, one
\* without parallel mode.
THEOREM LimitIsRespected == Spec => []LimitRespected
  BY LimitFromIInv, SuiteInvariant, PTL

\* TeardownSuite is never reached with a goroutine of a case alive.
THEOREM CasesEndBeforeSuite == Spec => []NoCaseOutlivesSuite
  <1>1. IInv => NoCaseOutlivesSuite
    BY DEF IInv, TypeOK, Phases, PhaseInv, Active, NoCaseOutlivesSuite
  <1> QED
    BY <1>1, SuiteInvariant, PTL

\* A test that passes has run every selected case, and none of them failed: no failure is
\* lost, the dropped context.Canceled errors included.
THEOREM NoFailureLost == Spec => []PassMeansAllPassed
  <1>1. IInv => PassMeansAllPassed
    BY DEF IInv, ReturnInv, AllReported, PassMeansAllPassed
  <1> QED
    BY <1>1, SuiteInvariant, PTL

\* Fail-fast returns the failure that cancelled the others, never one of its victims.
THEOREM RootCauseIsReported == Spec => []RootCauseReported
  <1>1. IInv => RootCauseReported
    BY DEF IInv, ReturnInv, RootCauseReported
  <1> QED
    BY <1>1, SuiteInvariant, PTL

\* WithContinueOnFailure returns exactly the failed cases, after all have run.
THEOREM ContinueIsComplete == Spec => []ContinueReportsAll
  <1>1. IInv => ContinueReportsAll
    BY DEF IInv, ReturnInv, ContinueReportsAll
  <1> QED
    BY <1>1, SuiteInvariant, PTL

-----------------------------------------------------------------------------
(* The refinement: every step of SuiteRun is a step of SuiteContract or leaves all of its
   variables alone. *)

\* The limit in force after a step.
LEMMA LimitAfterStep == IInv' => LimitRespected'
  BY LimitFromIInv, PTL

\* A step inside the suite's life that starts and ends no case is not seen.
LEMMA QuietStep ==
    ASSUME phase \in {"cases", "teardown"}, phase' \in {"cases", "teardown"},
           UNCHANGED <<config, dump, retOther>>,
           UNCHANGED <<RunningCases, EndedCases, BadCases>>
    PROVE  UNCHANGED Contract!cvars
  <1>1. StageOf' = StageOf /\ VerdictOf' = VerdictOf
    BY DEF StageOf, VerdictOf
  <1>2. ChosenCases' = ChosenCases /\ CapOf' = CapOf
    BY DEF ChosenCases, CapOf, Launched, Selected, Sequential, effectiveParallelismLimit
  <1> QED
    BY <1>1, <1>2 DEF Contract!cvars

\* A case enters its body: the contract's Start.
LEMMA StartRefines ==
    ASSUME IInv, IInv', NEW c \in Cases, NEW from \in {"idle", "queued"}, c \in Selected,
           CaseStep(c, from, "running"),
           UNCHANGED <<phase, res>>
    PROVE  Contract!Next
  <1>1. cs \in [Cases -> CaseStates]
    BY DEF IInv, TypeOK
  <1>2. /\ phase = "cases" /\ phase' = "cases" /\ cs[c] = from /\ cs' = [cs EXCEPT ![c] = "running"]
        /\ UNCHANGED <<config, dump, res, retOther>>
    BY DEF CaseStep, optionVars
  <1>3. Launched /\ Launched'
    BY <1>2 DEF IInv, PhaseInv, Launched
  <1>4. StageOf = "up" /\ StageOf' = StageOf /\ VerdictOf' = VerdictOf
    BY <1>2 DEF StageOf, VerdictOf
  <1>5. ChosenCases = Selected /\ ChosenCases' = ChosenCases /\ CapOf' = CapOf
    BY <1>2, <1>3 DEF ChosenCases, CapOf, Selected, Sequential, effectiveParallelismLimit
  <1>6. RunningCases' = RunningCases \cup {c} /\ EndedCases' = EndedCases
    BY <1>1, <1>2 DEF RunningCases, EndedCases, At
  <1>7. c \notin RunningCases \cup EndedCases
    BY <1>2 DEF RunningCases, EndedCases, At
  <1>8. BadCases' = BadCases
    BY <1>1, <1>2 DEF BadCases, FailedCase, IInv, ResultInv, buildCaseExecutionError, NoResult
  <1>9. Cardinality(RunningCases') <= CapOf
    BY <1>3, <1>5, LimitAfterStep DEF LimitRespected, RunningCases, CapOf
  <1>10. Contract!Start(c)
    \* Cardinality is expanded: the contract has its own instance of FiniteSets.
    BY <1>4, <1>5, <1>6, <1>7, <1>8, <1>9 DEF Contract!Start, Contract!Cardinality, Cardinality
  <1> QED
    BY <1>10 DEF Contract!Next

\* A subtest ends: the contract's End, with the failure it leaves.
LEMMA SubtestEndsRefines ==
    ASSUME IInv, NEW c \in Cases, SubtestEnds(c)
    PROVE  Contract!Next
  <1>1. cs \in [Cases -> CaseStates] /\ res \in [Cases -> Results]
    BY DEF IInv, TypeOK
  <1>2. PICK r : res' = [res EXCEPT ![c] = r]
    BY DEF SubtestEnds
  <1>3. /\ phase = "cases" /\ cs[c] = "running" /\ cs' = [cs EXCEPT ![c] = "returned"]
        /\ UNCHANGED <<config, dump, phase, retOther>>
    BY DEF SubtestEnds, CaseStep, optionVars
  <1>4. StageOf = "up" /\ StageOf' = StageOf /\ VerdictOf' = VerdictOf
    BY <1>3 DEF StageOf, VerdictOf
  <1>5. ChosenCases' = ChosenCases /\ CapOf' = CapOf
    BY <1>3 DEF ChosenCases, CapOf, Launched, Selected, Sequential, effectiveParallelismLimit
  <1>6. c \in RunningCases /\ RunningCases' = RunningCases \ {c} /\ EndedCases' = EndedCases \cup {c}
    BY <1>1, <1>3 DEF RunningCases, EndedCases, At
  <1>7. BadCases' \in {BadCases, BadCases \cup {c}}
    <2>1. \A d \in Cases \ {c} : FailedCase(d)' <=> FailedCase(d)
      BY <1>1, <1>2, <1>3 DEF FailedCase
    <2>2. ~FailedCase(c)
      BY <1>3 DEF IInv, ResultInv, FailedCase, buildCaseExecutionError, NoResult
    <2>3. CASE FailedCase(c)'
      BY <2>1, <2>2, <2>3 DEF BadCases
    <2>4. CASE ~FailedCase(c)'
      BY <2>1, <2>2, <2>4 DEF BadCases
    <2> QED
      BY <2>3, <2>4
  <1>8. Contract!End(c)
    BY <1>4, <1>5, <1>6, <1>7 DEF Contract!End
  <1> QED
    BY <1>8 DEF Contract!Next

\* The bookkeeping behind a case that has ended is not seen.
LEMMA EndedMovesQuiet ==
    ASSUME IInv, NEW c \in Cases, NEW to \in {"failing", "canceling", "reported"},
           cs[c] \in {"returned", "failing", "canceling"}, cs' = [cs EXCEPT ![c] = to],
           phase = "cases", phase' \in {"cases", "teardown"},
           UNCHANGED <<config, dump, res, retOther>>
    PROVE  UNCHANGED Contract!cvars
  <1>1. cs \in [Cases -> CaseStates]
    BY DEF IInv, TypeOK
  <1>2. RunningCases' = RunningCases /\ EndedCases' = EndedCases
    BY <1>1 DEF RunningCases, EndedCases, At
  <1>3. BadCases' = BadCases
    BY <1>1 DEF BadCases, FailedCase
  <1> QED
    BY <1>2, <1>3, QuietStep

\* SetupSuite: the contract comes up with the selected cases and the limit in force, or
\* the setup has failed.
LEMMA SetupSuiteRefines ==
    ASSUME IInv, SetupSuite
    PROVE  Contract!Next
  <1>1. /\ phase = "setup"
        /\ UNCHANGED <<config, dump, cs, res>>
    BY DEF SetupSuite, optionVars
  <1>2. UNCHANGED <<RunningCases, EndedCases, BadCases>>
    BY <1>1 DEF RunningCases, EndedCases, BadCases, At, FailedCase
  <1>3. StageOf = "before" /\ VerdictOf = "none" /\ ~Launched /\ ChosenCases = {} /\ CapOf = 0
    BY <1>1 DEF StageOf, VerdictOf, Launched, ChosenCases, CapOf
  <1>4. CASE phase' = "cases" /\ UNCHANGED <<retOther, testFailed>>
    <2>1. StageOf' = "up" /\ VerdictOf' = "none" /\ Launched'
      BY <1>1, <1>4 DEF StageOf, VerdictOf, Launched, IInv, PhaseInv
    <2>2. ChosenCases' \in SUBSET Cases
      BY <2>1 DEF ChosenCases, Selected
    <2>3. CapOf' \in Nat \ {0}
      BY <1>1, <2>1 DEF CapOf, effectiveParallelismLimit, IInv, TypeOK, Configs
    <2>4. Contract!Up
      BY <1>2, <1>3, <2>1, <2>2, <2>3 DEF Contract!Up
    <2> QED
      BY <2>4 DEF Contract!Next
  <1>5. CASE phase' = "done" /\ retOther' = {"setup"} /\ testFailed'
    <2>1. StageOf' = "over" /\ VerdictOf' = "fail" /\ ChosenCases' = {} /\ CapOf' = 0
      BY <1>5 DEF StageOf, VerdictOf, Launched, ChosenCases, CapOf
    <2>2. Contract!SetupFails
      BY <1>2, <1>3, <2>1 DEF Contract!SetupFails
    <2> QED
      BY <2>2 DEF Contract!Next
  <1> QED
    BY <1>4, <1>5 DEF SetupSuite

\* TeardownSuite: nothing runs, cases were left out only after a failure, and the verdict
\* is a pass only without one.
LEMMA TeardownSuiteRefines ==
    ASSUME IInv, TeardownSuite
    PROVE  Contract!Next
  <1>1. /\ phase = "teardown" /\ phase' = "done"
        /\ retOther = {} /\ retOther' \in SUBSET {"teardown"}
        /\ testFailed' = (testFailed \/ retCases # {} \/ retOther' # {})
        /\ UNCHANGED <<config, dump, cs, res>>
    BY DEF TeardownSuite, optionVars, IInv, PhaseInv, Fatal
  <1>2. UNCHANGED <<RunningCases, EndedCases, BadCases>>
    BY <1>1 DEF RunningCases, EndedCases, BadCases, At, FailedCase
  <1>3. StageOf = "up" /\ StageOf' = "over" /\ Launched /\ Launched'
    BY <1>1 DEF StageOf, Launched
  <1>4. ChosenCases = Selected /\ UNCHANGED <<ChosenCases, CapOf>>
    BY <1>1, <1>3 DEF ChosenCases, CapOf, Selected, Sequential, effectiveParallelismLimit
  <1>5. RunningCases = {}
    BY <1>1 DEF RunningCases, At, IInv, PhaseInv, Active
  <1>6. retCases # {} => BadCases # {}
    BY <1>1 DEF BadCases, IInv, ReturnInv, TypeOK
  <1>7. retCases = {} => BadCases = {} /\ EndedCases = ChosenCases
    BY <1>1, <1>4 DEF BadCases, EndedCases, At, AllReported, Selected, IInv, ReturnInv, ModeInv, FailedCase
  <1>8. VerdictOf' \in {"pass", "fail"} /\ (retCases # {} => VerdictOf' = "fail")
    BY <1>1 DEF VerdictOf
  <1>9. Contract!Down
    BY <1>2, <1>3, <1>4, <1>5, <1>6, <1>7, <1>8 DEF Contract!Down
  <1> QED
    BY <1>9 DEF Contract!Next

\* A panic in a case ends the process while the suite is up: the contract's Abort.
LEMMA SubtestPanicsRefines ==
    ASSUME IInv, NEW c \in Cases, SubtestPanics(c)
    PROVE  Contract!Next
  <1>1. /\ phase = "cases" /\ phase' = "crashed" /\ cs[c] = "running" /\ testFailed'
        /\ UNCHANGED <<config, dump, cs, res, retOther>>
    BY DEF SubtestPanics, optionVars
  <1>2. UNCHANGED <<RunningCases, EndedCases, BadCases>> /\ RunningCases # {}
    BY <1>1 DEF RunningCases, EndedCases, BadCases, At, FailedCase
  <1>3. StageOf = "up" /\ StageOf' = "aborted" /\ VerdictOf' = "fail" /\ Launched' = Launched
    BY <1>1 DEF StageOf, VerdictOf, Launched
  <1>4. UNCHANGED <<ChosenCases, CapOf>>
    BY <1>1, <1>3 DEF ChosenCases, CapOf, Selected, Sequential, effectiveParallelismLimit
  <1>5. Contract!Abort
    BY <1>2, <1>3, <1>4 DEF Contract!Abort
  <1> QED
    BY <1>5 DEF Contract!Next

\* Every step of RunCases is a step of the contract or is not seen.
LEMMA StepRefines == IInv /\ IInv' /\ [Next]_vars => [Contract!Next]_Contract!cvars
  <1> SUFFICES ASSUME IInv, IInv', [Next]_vars PROVE [Contract!Next]_Contract!cvars
    OBVIOUS
  <1>1. CASE Options \/ OptionsApplied
    <2>1. /\ phase = "options" /\ phase' \in {"options", "setup"}
          /\ UNCHANGED <<cs, res>>
      BY <1>1 DEF Options, WithContinueOnFailure, WithParallelCases, WithParallelismLimit,
                  ApplyOption, OptionsApplied
    <2>2. UNCHANGED <<StageOf, ChosenCases, CapOf, RunningCases, EndedCases, BadCases, VerdictOf>>
      BY <2>1 DEF StageOf, ChosenCases, CapOf, RunningCases, EndedCases, BadCases, VerdictOf,
                  Launched, At, FailedCase
    <2> QED
      BY <2>2 DEF Contract!cvars
  <1>2. CASE SetupSuite
    BY <1>2, SetupSuiteRefines
  <1>3. CASE TeardownSuite
    BY <1>3, TeardownSuiteRefines
  <1>4. ASSUME NEW c \in Cases, RunCase(c) \/ GroupGo(c)
        PROVE  Contract!Next
    BY <1>4, StartRefines DEF RunCase, GroupGo, NextInOrder
  <1>5. ASSUME NEW c \in Cases, Acquire(c)
        PROVE  Contract!Next
    BY <1>5, StartRefines DEF Acquire, CaseStep, IInv, ModeInv
  <1>6. ASSUME NEW c \in Cases, Spawn(c)
        PROVE  UNCHANGED Contract!cvars
    <2>1. /\ phase = "cases" /\ cs[c] = "idle" /\ cs' = [cs EXCEPT ![c] = "queued"]
          /\ UNCHANGED <<config, dump, phase, res, retOther>>
      BY <1>6 DEF Spawn, CaseStep, optionVars
    <2>2. cs \in [Cases -> CaseStates]
      BY DEF IInv, TypeOK
    <2>3. RunningCases' = RunningCases /\ EndedCases' = EndedCases
      BY <2>1, <2>2 DEF RunningCases, EndedCases, At
    <2>4. BadCases' = BadCases
      BY <2>1, <2>2 DEF BadCases, FailedCase, IInv, ResultInv, buildCaseExecutionError, NoResult
    <2> QED
      BY <2>1, <2>3, <2>4, QuietStep
  <1>7. ASSUME NEW c \in Cases,
               \/ CollectSequential(c) \/ GroupReturn(c) \/ ErrOnce(c) \/ CancelRunContext(c)
               \/ CollectAndRelease(c)
        PROVE  UNCHANGED Contract!cvars
    <2>1. PICK to \in {"failing", "canceling", "reported"} : cs' = [cs EXCEPT ![c] = to]
      BY <1>7 DEF CollectSequential, GroupReturn, ErrOnce, CancelRunContext, CollectAndRelease, CaseStep
    <2>2. /\ phase = "cases" /\ phase' \in {"cases", "teardown"}
          /\ cs[c] \in {"returned", "failing", "canceling"}
          /\ UNCHANGED <<config, dump, res, retOther>>
      BY <1>7 DEF CollectSequential, GroupReturn, ErrOnce, CancelRunContext, CollectAndRelease,
                  CaseStep, optionVars, ReturnFromCases
    <2> QED
      BY <2>1, <2>2, EndedMovesQuiet
  <1>8. CASE SequentialDone \/ GroupWait \/ WaitGroupWait
    <2>1. /\ phase = "cases" /\ phase' = "teardown"
          /\ UNCHANGED <<config, dump, cs, res, retOther>>
      BY <1>8 DEF SequentialDone, GroupWait, WaitGroupWait, CasesDone, ReturnFromCases, optionVars
    <2>2. UNCHANGED <<RunningCases, EndedCases, BadCases>>
      BY <2>1 DEF RunningCases, EndedCases, BadCases, At, FailedCase
    <2> QED
      BY <2>1, <2>2, QuietStep
  <1>9. ASSUME NEW c \in Cases, SubtestEnds(c) \/ SubtestPanics(c)
        PROVE  Contract!Next
    BY <1>9, SubtestEndsRefines, SubtestPanicsRefines
  <1>10. CASE Terminated \/ UNCHANGED vars
    <2>1. UNCHANGED <<config, dump, phase, cs, res, retOther, testFailed>>
      BY <1>10 DEF Terminated, vars, optionVars, resultVars
    <2>2. UNCHANGED <<StageOf, VerdictOf, ChosenCases, CapOf>>
      BY <2>1 DEF StageOf, VerdictOf, ChosenCases, CapOf, Launched, Selected, Sequential,
                  effectiveParallelismLimit
    <2>3. UNCHANGED <<RunningCases, EndedCases, BadCases>>
      BY <2>1 DEF RunningCases, EndedCases, BadCases, At, FailedCase
    <2> QED
      BY <2>2, <2>3 DEF Contract!cvars
  <1> QED
    BY <1>1, <1>2, <1>3, <1>4, <1>5, <1>6, <1>7, <1>8, <1>9, <1>10 DEF Next, Main, Goroutine

\* RunCases implements SuiteContract in all three modes: one setup, one teardown, the limit,
\* every case at most once, none left out but after a failure, and a verdict that is a pass
\* only if nothing failed.
THEOREM ContractRefined == Spec => RefinesContract
  <1>1. Init => Contract!Init
    BY DEF Init, Contract!Init, StageOf, ChosenCases, CapOf, RunningCases, EndedCases, BadCases,
           VerdictOf, Launched, At, FailedCase
  <1> QED
    BY <1>1, StepRefines, SuiteInvariant, PTL DEF Spec, RefinesContract, Contract!Spec
=============================================================================
