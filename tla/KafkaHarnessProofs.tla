-------------------------- MODULE KafkaHarnessProofs --------------------------
(* Proofs about KafkaHarness, for every bound on plans, sends and the log, and every set
   of expected counts. *)
EXTENDS KafkaHarness, TLAPS, FiniteSetTheorems

\* A reader has read a stretch of the log.
ReadersInv ==
    \A r \in DOMAIN readers : readers[r].start <= readers[r].pos /\ readers[r].pos <= Len(log)

\* The harness has a plan exactly while it has a reader, a check runs only with one, and
\* a reader in place that is closed is one whose Close failed.
HeldInv ==
    /\ plan # NoPlan <=> reader # NoReader
    /\ Polling => reader # NoReader
    /\ reader # NoReader /\ ~readers[reader].open => readers[reader].failed

\* What PlanOutbound has in hand: an expectation, the length the log had, and after
\* NewReader a reader of its own that has read nothing.
PlanningInv ==
    /\ pc \in {"ensuring", "connecting", "replacing"} =>
          planning.expectation \in Expectation /\ planning.since <= Len(log)
    /\ pc = "replacing" =>
          /\ reader < Len(readers)
          /\ readers[Len(readers)].open
          /\ readers[Len(readers)].pos = readers[Len(readers)].start
          /\ readers[Len(readers)].start >= planning.since

\* What the harness has observed is what its reader has read.
WindowInv == plan # NoPlan => observed = Window(reader)

\* The last check that passed still passes on what was observed then.
CheckInv ==
    last.ok =>
        /\ ~Polling
        /\ plan # NoPlan
        /\ last.op = "await" => EvaluateAwait(plan, observed, TRUE)
        /\ last.op = "verify" => EvaluateVerify(plan, observed)

IInv ==
    /\ TypeOK /\ ReadersInv /\ HeldInv /\ PlanningInv /\ WindowInv /\ CheckInv
    /\ PanicHasCause

-----------------------------------------------------------------------------
(* Sequences: a reader that changes, and a log that grows. *)

\* The types of one reader.
LEMMA ReaderTypes ==
    ASSUME NEW rs \in Seq(Reader), NEW r \in DOMAIN rs
    PROVE  /\ rs[r] \in Reader
           /\ rs[r].start \in Nat /\ rs[r].pos \in Nat
           /\ rs[r].open \in BOOLEAN /\ rs[r].failed \in BOOLEAN
           /\ [rs[r] EXCEPT !.open = FALSE] \in Reader
           /\ [rs[r] EXCEPT !.failed = FALSE] \in Reader
           /\ [rs[r] EXCEPT !.failed = TRUE] \in Reader
           /\ [rs[r] EXCEPT !.pos = @ + 1] \in Reader
  <1>1. rs[r] \in Reader
    OBVIOUS
  <1>2. /\ rs[r].start \in Nat /\ rs[r].pos \in Nat
        /\ rs[r].open \in BOOLEAN /\ rs[r].failed \in BOOLEAN
    BY <1>1 DEF Reader
  <1>3. /\ [rs[r] EXCEPT !.open = FALSE] \in Reader
        /\ [rs[r] EXCEPT !.failed = FALSE] \in Reader
        /\ [rs[r] EXCEPT !.failed = TRUE] \in Reader
    BY <1>1 DEF Reader
  <1>4. [rs[r] EXCEPT !.pos = @ + 1] \in Reader
    BY <1>1, <1>2 DEF Reader
  <1> QED
    BY <1>1, <1>2, <1>3, <1>4

\* One reader is changed, the others stay.
LEMMA ReaderChanged ==
    ASSUME NEW rs \in Seq(Reader), NEW r \in DOMAIN rs, NEW new \in Reader
    PROVE  /\ [rs EXCEPT ![r] = new] \in Seq(Reader)
           /\ Len([rs EXCEPT ![r] = new]) = Len(rs)
           /\ DOMAIN [rs EXCEPT ![r] = new] = DOMAIN rs
           /\ [rs EXCEPT ![r] = new][r] = new
           /\ \A q \in DOMAIN rs \ {r} : [rs EXCEPT ![r] = new][q] = rs[q]
  OBVIOUS

\* A stretch of the log that was there stays when a message is appended.
LEMMA StretchKept ==
    ASSUME NEW s \in Seq(Kinds), NEW m \in Kinds, NEW a \in Nat, NEW b \in Nat, b <= Len(s)
    PROVE  SubSeq(Append(s, m), a + 1, b) = SubSeq(s, a + 1, b)
  OBVIOUS

\* A stretch grows by the next message.
LEMMA StretchGrows ==
    ASSUME NEW s \in Seq(Kinds), NEW a \in Nat, NEW b \in Nat, a <= b, b < Len(s)
    PROVE  SubSeq(s, a + 1, b + 1) = Append(SubSeq(s, a + 1, b), s[b + 1])
  OBVIOUS

\* A stretch of no messages.
LEMMA StretchEmpty ==
    ASSUME NEW s \in Seq(Kinds), NEW a \in Nat
    PROVE  SubSeq(s, a + 1, a) = <<>>
  OBVIOUS

-----------------------------------------------------------------------------

USE CountsAssumption, BoundsAssumption DEF NoReader

\* The invariant at the start.
LEMMA InitIInv == Init => IInv
  <1> SUFFICES ASSUME Init PROVE IInv
    OBVIOUS
  <1> USE DEF Init
  <1>1. TypeOK
    BY DEF TypeOK, NoPlanning, NoCheck, Checks, NoPlan
  <1>2. ReadersInv /\ HeldInv /\ PlanningInv /\ WindowInv
    BY DEF ReadersInv, HeldInv, PlanningInv, WindowInv, Polling
  <1>3. CheckInv /\ PanicHasCause
    BY DEF CheckInv, PanicHasCause, NoCheck
  <1> QED
    BY <1>1, <1>2, <1>3 DEF IInv

\* What the steps that leave the harness alone have in common.
HarnessKept ==
    /\ UNCHANGED <<readers, reader, plan, observed, last>>
    /\ log' = log \/ \E m \in Kinds : log' = Append(log, m)
    /\ Polling' => Polling

\* Such a step keeps what the invariant says of the harness, whatever the log gains.
LEMMA HarnessKeptInv ==
    ASSUME IInv, HarnessKept
    PROVE  ReadersInv' /\ HeldInv' /\ WindowInv' /\ CheckInv' /\ Len(log) <= Len(log')
  <1> USE DEF IInv
  <1>1. /\ UNCHANGED <<readers, reader, plan, observed, last>>
        /\ Polling' => Polling
    BY DEF HarnessKept
  <1>2. log \in Seq(Kinds) /\ readers \in Seq(Reader) /\ reader \in 0 .. Len(readers)
    BY DEF TypeOK
  <1>3. Len(log) <= Len(log')
    BY <1>2 DEF HarnessKept
  <1>4. ReadersInv'
    <2>1. Len(log) \in Nat /\ Len(log') \in Nat
      BY <1>2 DEF HarnessKept
    <2>2. ASSUME NEW r \in DOMAIN readers
          PROVE  readers[r].start <= readers[r].pos /\ readers[r].pos <= Len(log')
      <3>1. readers[r].pos \in Nat /\ readers[r].pos <= Len(log) /\ readers[r].start <= readers[r].pos
        BY <1>2, ReaderTypes DEF ReadersInv
      <3> QED
        BY <1>3, <2>1, <3>1
    <2> QED
      BY <1>1, <2>2 DEF ReadersInv
  <1>5. HeldInv' /\ CheckInv'
    BY <1>1 DEF HeldInv, CheckInv
  <1>6. WindowInv'
    <2> SUFFICES ASSUME plan # NoPlan PROVE Window(reader)' = Window(reader)
      BY <1>1 DEF WindowInv
    <2>1. reader \in DOMAIN readers
      BY <1>2 DEF HeldInv
    <2>2. /\ readers[reader].start \in Nat /\ readers[reader].pos \in Nat
          /\ readers[reader].pos <= Len(log)
      BY <1>2, <2>1, ReaderTypes DEF ReadersInv
    <2>3. SubSeq(log', readers[reader].start + 1, readers[reader].pos)
            = SubSeq(log, readers[reader].start + 1, readers[reader].pos)
      <3>1. CASE log' = log
        BY <3>1
      <3>2. ASSUME NEW m \in Kinds, log' = Append(log, m)
            PROVE  SubSeq(log', readers[reader].start + 1, readers[reader].pos)
                     = SubSeq(log, readers[reader].start + 1, readers[reader].pos)
        BY <1>2, <2>2, <3>2, StretchKept
      <3> QED
        BY <3>1, <3>2 DEF HarnessKept
    <2> QED
      BY <1>1, <2>3 DEF Window
  <1> QED
    BY <1>3, <1>4, <1>5, <1>6

\* The system under test publishes, or panics on the writer that is gone.
LEMMA SutIInv ==
    ASSUME IInv, Sut
    PROVE  IInv'
  <1> USE DEF IInv
  <1>1. /\ UNCHANGED <<log, writer, readers, reader, plan, observed, planning, ctx, last, calls>>
        /\ handing' \in SUBSET Kinds /\ sending' \in SUBSET Kinds
        /\ pub' \in {"idle", "ensured"}
        /\ pc' = pc \/ (pc' = "panicked" /\ writer = "nil")
    BY DEF Sut, PublishEnsureTopic, PublishWrite, WriteMessages, SendMessage, harnessVars, caseVars,
           TypeOK
  <1>2. TypeOK'
    BY <1>1 DEF TypeOK
  <1>3. ReadersInv' /\ HeldInv' /\ WindowInv' /\ CheckInv'
    BY <1>1, HarnessKeptInv DEF HarnessKept, Polling
  <1>4. PlanningInv'
    BY <1>1 DEF PlanningInv
  <1>5. PanicHasCause'
    BY <1>1 DEF PanicHasCause, HeldInv
  <1> QED
    BY <1>2, <1>3, <1>4, <1>5

\* The broker appends or refuses a message.
LEMMA BrokerIInv ==
    ASSUME IInv, NEW m \in sending, BrokerAppends(m) \/ BrokerRefuses(m)
    PROVE  IInv'
  <1> USE DEF IInv
  <1>1. /\ UNCHANGED <<pub, handing, writer, readers, reader, plan, observed, pc, planning, ctx, last, calls>>
        /\ sending' \in SUBSET Kinds /\ m \in Kinds
        /\ log' = log \/ (log' = Append(log, m) /\ Len(log) < MaxLog)
    BY DEF BrokerAppends, BrokerRefuses, harnessVars, caseVars, TypeOK
  <1>2. TypeOK'
    <2>0. log \in Seq(Kinds) /\ Len(log) <= MaxLog
      BY DEF TypeOK
    <2>1. log' \in Seq(Kinds) /\ Len(log') <= MaxLog
      BY <1>1, <2>0
    <2> QED
      BY <1>1, <2>1 DEF TypeOK
  <1>3. ReadersInv' /\ HeldInv' /\ WindowInv' /\ CheckInv' /\ Len(log) <= Len(log')
    BY <1>1, HarnessKeptInv DEF HarnessKept, Polling
  <1>4. PlanningInv'
    BY <1>1, <1>2, <1>3 DEF PlanningInv, TypeOK
  <1>5. PanicHasCause'
    BY <1>1 DEF PanicHasCause
  <1> QED
    BY <1>2, <1>3, <1>4, <1>5

\* PlanOutbound begins, and its topic is found or not.
LEMMA PlanBeginsIInv ==
    ASSUME IInv, PlanOutbound \/ PlanEnsureTopic
    PROVE  IInv'
  <1> USE DEF IInv
  <1>1. /\ UNCHANGED <<log, pub, handing, sending, writer, readers, reader, plan, observed, ctx, last>>
        /\ ~Polling' /\ pc' \in {"idle", "ensuring", "connecting"}
    BY DEF PlanOutbound, PlanEnsureTopic, brokerVars, harnessVars, Polling
  <1>2. /\ planning' \in [expectation : Expectation \cup {NoPlan}, since : Nat]
        /\ pc' # "idle" => planning'.expectation \in Expectation /\ planning'.since <= Len(log)
    <2>1. CASE PlanOutbound
      <3>1. PICK count \in Counts, ordering \in Orderings :
               planning' = [expectation |-> [count |-> count, ordering |-> ordering], since |-> Len(log)]
        BY <2>1 DEF PlanOutbound
      <3>2. [count |-> count, ordering |-> ordering] \in Expectation /\ Len(log) \in Nat
        BY DEF Expectation, TypeOK
      <3> QED
        BY <3>1, <3>2
    <2>2. CASE PlanEnsureTopic
      BY <2>2 DEF PlanEnsureTopic, TypeOK, PlanningInv, NoPlanning
    <2> QED
      BY <2>1, <2>2
  <1>3. calls' \in 0 .. MaxPlans
    BY DEF PlanOutbound, PlanEnsureTopic, TypeOK
  <1>4. TypeOK'
    BY <1>1, <1>2, <1>3 DEF TypeOK
  <1>5. ReadersInv' /\ HeldInv' /\ WindowInv' /\ CheckInv'
    BY <1>1, HarnessKeptInv DEF HarnessKept
  <1>6. PlanningInv' /\ PanicHasCause'
    BY <1>1, <1>2 DEF PlanningInv, PanicHasCause
  <1> QED
    BY <1>4, <1>5, <1>6

\* The context of a check ends, or the check panics on a reader that is closed.
LEMMA CheckInterruptedIInv ==
    ASSUME IInv, ContextEnds \/ FetchPanics
    PROVE  IInv'
  <1> USE DEF IInv
  <1>1. /\ UNCHANGED <<log, pub, handing, sending, writer, readers, reader, plan, observed, planning, last, calls>>
        /\ pc' = pc \/ (pc' = "panicked" /\ ~readers[reader].open)
        /\ ctx' \in {"live", "expired", "canceled"} /\ Polling
    BY DEF ContextEnds, FetchPanics, brokerVars, harnessVars, TypeOK
  <1>2. TypeOK'
    BY <1>1 DEF TypeOK
  <1>3. ReadersInv' /\ HeldInv' /\ WindowInv' /\ CheckInv'
    BY <1>1, HarnessKeptInv DEF HarnessKept
  <1>4. PlanningInv'
    BY <1>1 DEF PlanningInv
  <1>5. PanicHasCause'
    BY <1>1 DEF PanicHasCause, HeldInv
  <1> QED
    BY <1>2, <1>3, <1>4, <1>5

\* Readers may open, close or fail: with their stretches of the log untouched, and the
\* reader in place closed only if it failed, a check that passed stays right.
LEMMA StretchesKept ==
    ASSUME IInv, readers' \in Seq(Reader), Len(readers) <= Len(readers'),
           \A r \in DOMAIN readers : /\ readers'[r].start = readers[r].start
                                     /\ readers'[r].pos = readers[r].pos,
           \A r \in DOMAIN readers' \ DOMAIN readers : /\ readers'[r].start = Len(log)
                                                       /\ readers'[r].pos = Len(log),
           UNCHANGED <<log, reader, plan, observed>>
    PROVE  ReadersInv' /\ WindowInv'
  <1> USE DEF IInv
  <1>1. readers \in Seq(Reader) /\ reader \in 0 .. Len(readers) /\ log \in Seq(Kinds)
    BY DEF TypeOK
  <1>2. ReadersInv'
    BY <1>1 DEF ReadersInv
  <1>3. WindowInv'
    <2> SUFFICES ASSUME plan # NoPlan PROVE Window(reader)' = Window(reader)
      BY DEF WindowInv
    <2>1. reader \in DOMAIN readers
      BY <1>1 DEF HeldInv
    <2> QED
      BY <2>1 DEF Window
  <1> QED
    BY <1>2, <1>3

\* The consumer of a reader fails.
LEMMA ConsumerFailsIInv ==
    ASSUME IInv, NEW r \in DOMAIN readers, ConsumerFails(r)
    PROVE  IInv'
  <1> USE DEF IInv
  <1>1. UNCHANGED <<log, pub, handing, sending, writer, reader, plan, observed, pc, planning, ctx, last, calls>>
    BY DEF ConsumerFails, brokerVars, caseVars
  <1>2. readers \in Seq(Reader) /\ reader \in 0 .. Len(readers)
    BY DEF TypeOK
  <1>3. PICK new \in Reader :
           /\ readers' = [readers EXCEPT ![r] = new]
           /\ new.start = readers[r].start /\ new.pos = readers[r].pos
           /\ new.open = readers[r].open /\ new.failed
    BY <1>2, ReaderTypes DEF ConsumerFails, Reader
  <1>4. /\ readers' \in Seq(Reader) /\ Len(readers') = Len(readers) /\ DOMAIN readers' = DOMAIN readers
        /\ readers'[r] = new
        /\ \A q \in DOMAIN readers \ {r} : readers'[q] = readers[q]
    BY <1>2, <1>3, ReaderChanged
  <1>5. TypeOK'
    BY <1>1, <1>4 DEF TypeOK
  <1>6. ReadersInv' /\ WindowInv'
    BY <1>1, <1>2, <1>3, <1>4, StretchesKept
  <1>7. CheckInv'
    BY <1>1 DEF CheckInv, Polling
  <1>8. HeldInv' /\ PanicHasCause'
    <2>1. reader # NoReader => /\ reader \in DOMAIN readers
                               /\ readers'[reader].open = readers[reader].open
                               /\ readers[reader].failed => readers'[reader].failed
      BY <1>2, <1>3, <1>4
    <2> QED
      BY <1>1, <2>1 DEF HeldInv, PanicHasCause, Polling
  <1>9. PlanningInv'
    BY <1>1, <1>2, <1>3, <1>4 DEF PlanningInv
  <1> QED
    BY <1>5, <1>6, <1>7, <1>8, <1>9

\* PlanOutbound has its new reader, which starts at the end of the log, or gives up.
LEMMA NewReaderIInv ==
    ASSUME IInv, NewReader
    PROVE  IInv'
  <1> USE DEF IInv
  <1>1. /\ pc = "connecting"
        /\ UNCHANGED <<log, pub, handing, sending, writer, reader, plan, observed, ctx, last, calls>>
    BY DEF NewReader, brokerVars
  <1>2. readers \in Seq(Reader) /\ reader \in 0 .. Len(readers) /\ log \in Seq(Kinds) /\ Len(log) \in Nat
    BY DEF TypeOK
  <1>3. CASE pc' = "idle" /\ planning' = NoPlanning /\ UNCHANGED readers
    <2>1. TypeOK'
      BY <1>1, <1>3 DEF TypeOK, NoPlanning
    <2>2. ReadersInv' /\ HeldInv' /\ WindowInv' /\ CheckInv'
      BY <1>1, <1>3, HarnessKeptInv DEF HarnessKept, Polling
    <2> QED
      BY <1>3, <2>1, <2>2 DEF PlanningInv, PanicHasCause
  <1>4. ASSUME NEW new, new = [start |-> Len(log), pos |-> Len(log), open |-> TRUE, failed |-> FALSE],
               pc' = "replacing", readers' = Append(readers, new), UNCHANGED planning
        PROVE  IInv'
    <2>1. new \in Reader /\ new.start = Len(log) /\ new.pos = Len(log) /\ new.open
      BY <1>2, <1>4 DEF Reader
    <2> HIDE <1>4
    <2>2. /\ readers' \in Seq(Reader) /\ Len(readers') = Len(readers) + 1
          /\ \A r \in DOMAIN readers : readers'[r] = readers[r]
          /\ readers'[Len(readers) + 1] = new
          /\ DOMAIN readers' = DOMAIN readers \cup {Len(readers) + 1}
      BY <1>2, <1>4, <2>1
    <2>3. TypeOK'
      BY <1>1, <1>4, <2>2 DEF TypeOK
    <2>4. ReadersInv' /\ WindowInv'
      BY <1>1, <1>2, <2>1, <2>2, StretchesKept
    <2>5. HeldInv'
      BY <1>1, <1>2, <1>4, <2>2 DEF HeldInv, Polling
    <2>6. CheckInv' /\ PanicHasCause'
      BY <1>1, <1>4 DEF CheckInv, PanicHasCause, Polling
    <2>7. PlanningInv'
      BY <1>1, <1>2, <1>4, <2>1, <2>2 DEF PlanningInv
    <2> QED
      BY <2>3, <2>4, <2>5, <2>6, <2>7
  <1> QED
    BY <1>3, <1>4 DEF NewReader, StartOffset

\* The reader in place, if there is one, is closed: nothing else of any reader changes.
LEMMA ClosedReader ==
    ASSUME TypeOK, readers' = IF reader # NoReader THEN Closed(reader) ELSE readers
    PROVE  /\ readers' \in Seq(Reader) /\ Len(readers') = Len(readers) /\ DOMAIN readers' = DOMAIN readers
           /\ \A r \in DOMAIN readers : /\ readers'[r].start = readers[r].start
                                        /\ readers'[r].pos = readers[r].pos
                                        /\ readers'[r].failed = readers[r].failed
                                        /\ r # reader => readers'[r] = readers[r]
  <1>1. readers \in Seq(Reader) /\ reader \in 0 .. Len(readers)
    BY DEF TypeOK
  <1>2. CASE reader = NoReader
    BY <1>1, <1>2
  <1>3. CASE reader # NoReader
    <2>1. PICK new \in Reader :
             /\ readers' = [readers EXCEPT ![reader] = new]
             /\ new.start = readers[reader].start /\ new.pos = readers[reader].pos
             /\ new.failed = readers[reader].failed
      <3>1. reader \in DOMAIN readers
        BY <1>1, <1>3
      <3>2. readers[reader] \in Reader /\ [readers[reader] EXCEPT !.open = FALSE] \in Reader
        BY <1>1, <3>1, ReaderTypes
      <3> QED
        BY <1>3, <3>1, <3>2 DEF Closed, Reader
    <2>2. reader \in DOMAIN readers
      BY <1>1, <1>3
    <2>3. /\ readers' \in Seq(Reader) /\ Len(readers') = Len(readers) /\ DOMAIN readers' = DOMAIN readers
          /\ readers'[reader] = new
          /\ \A q \in DOMAIN readers \ {reader} : readers'[q] = readers[q]
      BY <1>1, <2>1, <2>2, ReaderChanged
    <2> QED
      BY <2>1, <2>3
  <1> QED
    BY <1>2, <1>3

\* PlanOutbound replaces the reader.  If closing the old one fails it stays, failed; the
\* new one has read nothing of a log that is no shorter than when the call began.
LEMMA PlanReplaceReaderIInv ==
    ASSUME IInv, PlanReplaceReader
    PROVE  IInv'
  <1> USE DEF IInv
  <1>1. /\ pc = "replacing" /\ pc' = "idle" /\ planning' = NoPlanning /\ last' = NoCheck
        /\ readers' = IF reader # NoReader THEN Closed(reader) ELSE readers
        /\ UNCHANGED <<log, pub, handing, sending, writer, ctx, calls>>
    BY DEF PlanReplaceReader, brokerVars
  <1>2. readers \in Seq(Reader) /\ reader \in 0 .. Len(readers) /\ log \in Seq(Kinds)
    BY DEF TypeOK
  <1>3. /\ readers' \in Seq(Reader) /\ Len(readers') = Len(readers) /\ DOMAIN readers' = DOMAIN readers
        /\ \A r \in DOMAIN readers : /\ readers'[r].start = readers[r].start
                                     /\ readers'[r].pos = readers[r].pos
                                     /\ readers'[r].failed = readers[r].failed
                                     /\ r # reader => readers'[r] = readers[r]
    BY <1>1, ClosedReader
  <1>4. last' \in [op : Checks, ok : BOOLEAN] /\ ~last'.ok /\ ~Polling'
    BY <1>1 DEF NoCheck, Checks, Polling
  <1>5. planning' \in [expectation : Expectation \cup {NoPlan}, since : Nat]
    BY <1>1 DEF NoPlanning
  <1>6. CheckInv' /\ PlanningInv' /\ PanicHasCause'
    BY <1>1, <1>4 DEF CheckInv, PlanningInv, PanicHasCause
  <1>7. CASE reader # NoReader /\ CloseFails(reader) /\ UNCHANGED <<reader, plan, observed>>
    <2>1. TypeOK'
      BY <1>1, <1>3, <1>4, <1>5, <1>7 DEF TypeOK
    <2>2. ReadersInv' /\ WindowInv'
      BY <1>1, <1>3, <1>7, StretchesKept
    <2>3. HeldInv'
      BY <1>2, <1>3, <1>4, <1>7 DEF HeldInv, CloseFails
    <2> QED
      BY <1>6, <2>1, <2>2, <2>3
  <1>8. CASE reader' = Len(readers) /\ plan' = planning.expectation /\ observed' = <<>>
    <2>1. /\ reader' \in DOMAIN readers /\ reader' # reader /\ reader' # NoReader
          /\ plan' \in Expectation /\ plan' # NoPlan
      BY <1>1, <1>2, <1>8 DEF PlanningInv, NoPlan, Expectation, Orderings
    <2>2. TypeOK'
      BY <1>1, <1>2, <1>3, <1>4, <1>5, <1>8, <2>1 DEF TypeOK
    <2>3. ReadersInv'
      BY <1>1, <1>3 DEF ReadersInv
    <2>4. readers'[reader'].open /\ readers'[reader'].pos = readers'[reader'].start
      BY <1>1, <1>3, <1>8, <2>1 DEF PlanningInv
    <2>5. HeldInv'
      BY <1>4, <2>1, <2>4 DEF HeldInv
    <2>6. WindowInv'
      <3>1. readers'[reader'].start \in Nat
        BY <1>3, <2>1, ReaderTypes
      <3>2. Window(reader)' = <<>>
        BY <1>1, <1>2, <2>4, <3>1, StretchEmpty DEF Window
      <3> QED
        BY <1>8, <3>2 DEF WindowInv
    <2> QED
      BY <1>6, <2>2, <2>3, <2>5, <2>6
  <1> QED
    BY <1>7, <1>8 DEF PlanReplaceReader, ObservedAtPlan

\* A check begins: the verdict of the last one is forgotten.
LEMMA BeginCheckIInv ==
    ASSUME IInv, NEW op \in {"await", "verify"}, BeginCheck(op)
    PROVE  IInv'
  <1> USE DEF IInv
  <1>1. /\ pc = "idle" /\ pc' = op /\ reader # NoReader /\ last' = NoCheck
        /\ ctx' \in {"live", "expired", "canceled"}
        /\ UNCHANGED <<log, pub, handing, sending, writer, readers, reader, plan, observed, planning, calls>>
    BY DEF BeginCheck, brokerVars, harnessVars
  <1>2. last' \in [op : Checks, ok : BOOLEAN] /\ ~last'.ok
    BY <1>1 DEF NoCheck, Checks
  <1>3. TypeOK'
    BY <1>1, <1>2 DEF TypeOK
  <1>4. ReadersInv' /\ WindowInv'
    BY <1>1 DEF ReadersInv, WindowInv, Window
  <1>5. HeldInv' /\ PlanningInv' /\ CheckInv' /\ PanicHasCause'
    BY <1>1, <1>2 DEF HeldInv, PlanningInv, CheckInv, PanicHasCause
  <1> QED
    BY <1>3, <1>4, <1>5

\* The check reads the next message of its reader's stretch.
LEMMA FetchMessageIInv ==
    ASSUME IInv, FetchMessage
    PROVE  IInv'
  <1> USE DEF IInv
  <1>1. /\ Polling /\ readers[reader].open /\ readers[reader].pos < Len(log)
        /\ observed' = Append(observed, log[readers[reader].pos + 1])
        /\ UNCHANGED <<log, pub, handing, sending, writer, reader, plan, pc, planning, ctx, last, calls>>
    BY DEF FetchMessage, brokerVars, caseVars
  <1>2. /\ readers \in Seq(Reader) /\ log \in Seq(Kinds) /\ observed \in Seq(Kinds)
        /\ reader \in DOMAIN readers
    BY <1>1 DEF TypeOK, HeldInv
  <1>3. /\ readers[reader] \in Reader
        /\ readers[reader].start \in Nat /\ readers[reader].pos \in Nat
        /\ [readers[reader] EXCEPT !.pos = @ + 1] \in Reader
    BY <1>2, ReaderTypes
  <1>4. PICK new \in Reader :
           /\ readers' = [readers EXCEPT ![reader] = new]
           /\ new.start = readers[reader].start /\ new.pos = readers[reader].pos + 1
           /\ new.open = readers[reader].open /\ new.failed = readers[reader].failed
    BY <1>2, <1>3 DEF FetchMessage, Fetched, Reader
  <1>5. /\ readers' \in Seq(Reader) /\ Len(readers') = Len(readers) /\ DOMAIN readers' = DOMAIN readers
        /\ readers'[reader] = new
        /\ \A q \in DOMAIN readers \ {reader} : readers'[q] = readers[q]
    BY <1>2, <1>4, ReaderChanged
  <1>6. TypeOK'
    <2>1. observed' \in Seq(Kinds)
      BY <1>1, <1>2, <1>3
    <2> QED
      BY <1>1, <1>5, <2>1 DEF TypeOK
  <1>7. readers[reader].start <= readers[reader].pos
    BY <1>2 DEF ReadersInv
  <1>8. ReadersInv'
    <2>1. new.start <= new.pos /\ new.pos <= Len(log)
      BY <1>1, <1>2, <1>3, <1>4, <1>7
    <2> QED
      BY <1>1, <1>5, <2>1 DEF ReadersInv
  <1>9. WindowInv'
    <2>1. plan # NoPlan /\ observed = SubSeq(log, readers[reader].start + 1, readers[reader].pos)
      BY <1>1 DEF HeldInv, WindowInv, Window
    <2>2. observed' = SubSeq(log, readers[reader].start + 1, readers[reader].pos + 1)
      BY <1>1, <1>2, <1>3, <1>7, <2>1, StretchGrows
    <2> QED
      BY <1>1, <1>4, <1>5, <2>2 DEF WindowInv, Window
  <1>10. HeldInv' /\ PanicHasCause'
    BY <1>1, <1>4, <1>5 DEF HeldInv, PanicHasCause, Polling
  <1>11. PlanningInv' /\ CheckInv'
    BY <1>1 DEF PlanningInv, CheckInv, Polling
  <1> QED
    BY <1>6, <1>8, <1>9, <1>10, <1>11

\* An error of the consumer ends the check, without a verdict.
LEMMA FetchFailsIInv ==
    ASSUME IInv, FetchFails
    PROVE  IInv'
  <1> USE DEF IInv
  <1>1. /\ Polling /\ readers[reader].open /\ pc' = "idle" /\ ctx' = "live"
        /\ readers' = [readers EXCEPT ![reader].failed = FALSE]
        /\ UNCHANGED <<log, pub, handing, sending, writer, reader, plan, observed, planning, last, calls>>
    BY DEF FetchFails, brokerVars
  <1>2. readers \in Seq(Reader) /\ reader \in DOMAIN readers
    BY <1>1 DEF TypeOK, HeldInv
  <1>3. readers[reader] \in Reader /\ [readers[reader] EXCEPT !.failed = FALSE] \in Reader
    BY <1>2, ReaderTypes
  <1>4. PICK new \in Reader :
           /\ readers' = [readers EXCEPT ![reader] = new]
           /\ new.start = readers[reader].start /\ new.pos = readers[reader].pos /\ new.open
    BY <1>1, <1>2, <1>3 DEF Reader
  <1>5. /\ readers' \in Seq(Reader) /\ Len(readers') = Len(readers) /\ DOMAIN readers' = DOMAIN readers
        /\ readers'[reader] = new
        /\ \A q \in DOMAIN readers \ {reader} : readers'[q] = readers[q]
    BY <1>2, <1>4, ReaderChanged
  <1>6. TypeOK'
    BY <1>1, <1>5 DEF TypeOK
  <1>7. ReadersInv' /\ WindowInv'
    BY <1>1, <1>4, <1>5, StretchesKept
  <1>8. HeldInv' /\ PanicHasCause'
    BY <1>1, <1>4, <1>5 DEF HeldInv, PanicHasCause, Polling
  <1>9. PlanningInv' /\ CheckInv'
    BY <1>1 DEF PlanningInv, CheckInv, Polling
  <1> QED
    BY <1>6, <1>7, <1>8, <1>9

\* The poll is over and the check gives its verdict on what was observed.
LEMMA PollEndsIInv ==
    ASSUME IInv, PollEnds
    PROVE  IInv'
  <1> USE DEF IInv
  <1>1. /\ Polling /\ pc' = "idle" /\ ctx' = "live"
        /\ UNCHANGED <<log, pub, handing, sending, writer, readers, reader, plan, observed, planning, calls>>
    BY DEF PollEnds, brokerVars, harnessVars
  <1>2. PICK ok \in BOOLEAN :
           /\ last' = [op |-> pc, ok |-> ok]
           /\ ok /\ pc = "await" => EvaluateAwait(plan, observed, TRUE)
           /\ ok /\ pc = "verify" => EvaluateVerify(plan, observed)
    <2>1. EvaluateAwait(plan, observed, ctx = "expired") => EvaluateAwait(plan, observed, TRUE)
      BY DEF EvaluateAwait
    <2>2. /\ EvaluateAwait(plan, observed, ctx = "expired") \in BOOLEAN
          /\ EvaluateVerify(plan, observed) \in BOOLEAN
      BY DEF EvaluateAwait, EvaluateVerify, evaluateStrictOrdering
    <2>3. CASE pc = "await"
      BY <2>1, <2>2, <2>3, Zenon DEF PollEnds
    <2>4. CASE pc = "verify"
      BY <2>2, <2>4, Zenon DEF PollEnds
    <2> QED
      BY <1>1, <2>3, <2>4 DEF Polling
  <1>3. last' \in [op : Checks, ok : BOOLEAN]
    BY <1>1, <1>2 DEF Checks, Polling
  <1>4. TypeOK'
    BY <1>1, <1>3 DEF TypeOK
  <1>5. ReadersInv' /\ WindowInv' /\ HeldInv'
    BY <1>1 DEF ReadersInv, WindowInv, Window, HeldInv, Polling
  <1>6. PlanningInv' /\ PanicHasCause'
    BY <1>1 DEF PlanningInv, PanicHasCause
  <1>7. CheckInv'
    BY <1>1, <1>2 DEF CheckInv, HeldInv, Polling
  <1> QED
    BY <1>4, <1>5, <1>6, <1>7

\* CleanupBroker closes the reader and forgets reader, plan and writer.
LEMMA CleanupBrokerIInv ==
    ASSUME IInv, CleanupBroker
    PROVE  IInv'
  <1> USE DEF IInv
  <1>1. /\ pc = "idle" /\ reader' = NoReader /\ writer' = "nil" /\ plan' = NoPlan
        /\ observed' = <<>> /\ last' = NoCheck
        /\ readers' = IF reader # NoReader THEN Closed(reader) ELSE readers
        /\ UNCHANGED <<log, pub, handing, sending, pc, planning, ctx, calls>>
    BY DEF CleanupBroker, ReaderAfterCleanup, PlanAfterCleanup, brokerVars
  <1>2. /\ readers' \in Seq(Reader) /\ DOMAIN readers' = DOMAIN readers
        /\ \A r \in DOMAIN readers : /\ readers'[r].start = readers[r].start
                                     /\ readers'[r].pos = readers[r].pos
    BY <1>1, ClosedReader
  <1>3. last' \in [op : Checks, ok : BOOLEAN] /\ ~last'.ok /\ ~Polling'
    BY <1>1 DEF NoCheck, Checks, Polling
  <1>4. TypeOK'
    BY <1>1, <1>2, <1>3 DEF TypeOK
  <1>5. ReadersInv'
    BY <1>1, <1>2 DEF ReadersInv
  <1>6. HeldInv' /\ WindowInv' /\ PlanningInv'
    BY <1>1, <1>3 DEF HeldInv, WindowInv, PlanningInv
  <1>7. CheckInv' /\ PanicHasCause'
    BY <1>1, <1>3 DEF CheckInv, PanicHasCause
  <1> QED
    BY <1>4, <1>5, <1>6, <1>7

\* Nothing happens.
LEMMA StutterIInv ==
    ASSUME IInv, UNCHANGED vars
    PROVE  IInv'
  <1> USE DEF IInv
  <1>1. UNCHANGED <<log, pub, handing, sending, writer, readers, reader, plan, observed, pc, planning,
                    ctx, last, calls>>
    BY DEF vars, brokerVars, harnessVars, caseVars
  <1>2. TypeOK'
    BY <1>1 DEF TypeOK
  <1>3. ReadersInv' /\ HeldInv' /\ WindowInv' /\ CheckInv'
    BY <1>1, HarnessKeptInv DEF HarnessKept, Polling
  <1>4. PlanningInv' /\ PanicHasCause'
    BY <1>1 DEF PlanningInv, PanicHasCause
  <1> QED
    BY <1>2, <1>3, <1>4

\* Every step of the system under test, the broker and the case keeps the invariant.
LEMMA NextIInv == IInv /\ [Next]_vars => IInv'
  <1> SUFFICES ASSUME IInv, [Next]_vars PROVE IInv'
    OBVIOUS
  <1>1. CASE Sut
    BY <1>1, SutIInv
  <1>2. CASE Broker
    BY <1>2, BrokerIInv, ConsumerFailsIInv DEF Broker
  <1>3. CASE CaseGoroutine
    BY <1>3, PlanBeginsIInv, NewReaderIInv, PlanReplaceReaderIInv, BeginCheckIInv,
       CheckInterruptedIInv, FetchMessageIInv, FetchFailsIInv, PollEndsIInv, CleanupBrokerIInv
    DEF CaseGoroutine
  <1>4. CASE UNCHANGED vars
    BY <1>4, StutterIInv
  <1> QED
    BY <1>1, <1>2, <1>3, <1>4 DEF Next

\* The invariant holds throughout a case.
LEMMA HarnessInvariant == Spec => []IInv
  BY InitIInv, NextIInv, PTL DEF Spec

-----------------------------------------------------------------------------

\* The types of the harness; a plan always has a reader.
THEOREM TypeCorrect == Spec => []TypeOK
  BY HarnessInvariant, PTL DEF IInv

\* Every check sees exactly what the topic gained since the reader of its plan was opened,
\* in order, and nothing that was there when PlanOutbound was called.
THEOREM NothingMissedOrLeftOver == Spec => []ObservedIsWindow
  <1>1. IInv => ObservedIsWindow
    BY DEF IInv, WindowInv, PlanningInv, ObservedIsWindow
  <1> QED
    BY <1>1, HarnessInvariant, PTL

\* PublishRaw and the checks panic only on a writer that CleanupBroker took away or closed,
\* or on a reader whose Close failed.
THEOREM PanicsHaveCause == Spec => []PanicHasCause
  <1>1. IInv => PanicHasCause
    BY DEF IInv
  <1> QED
    BY <1>1, HarnessInvariant, PTL

\* A strict check that passes has found the expected messages and no others.
LEMMA StrictCounts ==
    ASSUME NEW e \in Expectation, NEW s \in Seq(Kinds), evaluateStrictOrdering(e, s)
    PROVE  MatchedCount(e, s) = e.count /\ Len(s) = e.count
  <1>1. e.count \in Nat /\ Len(s) \in Nat /\ DOMAIN s = 1 .. Len(s)
    BY DEF Expectation
  <1>2. Len(s) = e.count
    BY <1>1 DEF evaluateStrictOrdering
  <1>3. MatchedAt(e, s) = 1 .. e.count
    BY <1>1, <1>2 DEF MatchedAt, evaluateStrictOrdering
  <1>4. Cardinality(1 .. e.count) = e.count
    BY <1>1, FS_Interval
  <1> QED
    BY <1>2, <1>3, <1>4 DEF MatchedCount

\* A check that passed is right about the topic if its reader had read all of it: verify
\* about the number of messages and, in strict order, about the absence of others, await
\* about their arrival or absence.
THEOREM VerdictsAreTrue == Spec => []VerdictTrue
  <1>1. IInv => VerdictTrue
    <2> SUFFICES ASSUME IInv, last.ok, readers[reader].pos = Len(log)
                 PROVE  LET n == MatchedCount(plan, OnTopic(reader))
                        IN  /\ last.op = "verify" => n = plan.count
                            /\ last.op = "verify" /\ plan.ordering = "strict" /\ plan.count > 0
                                  => Len(OnTopic(reader)) = n
                            /\ last.op = "await" => IF plan.count > 0 THEN n >= plan.count ELSE n = 0
      BY DEF VerdictTrue
    <2>1. OnTopic(reader) = observed
      BY DEF IInv, CheckInv, WindowInv, Window, OnTopic
    <2>2. plan \in Expectation /\ observed \in Seq(Kinds)
      BY DEF IInv, CheckInv, TypeOK
    <2>3. plan.count \in Nat
      BY <2>2 DEF Expectation
    <2>4. CASE last.op = "verify"
      <3>1. EvaluateVerify(plan, observed)
        BY <2>4 DEF IInv, CheckInv
      <3>2. CASE plan.count = 0
        BY <2>1, <2>4, <3>1, <3>2 DEF EvaluateVerify
      <3>3. CASE plan.count # 0 /\ plan.ordering = "strict"
        BY <2>1, <2>2, <2>4, <3>1, <3>3, StrictCounts DEF EvaluateVerify
      <3>4. CASE plan.count # 0 /\ plan.ordering # "strict"
        BY <2>1, <2>4, <3>1, <3>4 DEF EvaluateVerify
      <3> QED
        BY <3>2, <3>3, <3>4
    <2>5. CASE last.op = "await"
      BY <2>1, <2>3, <2>5 DEF IInv, CheckInv, EvaluateAwait
    <2> QED
      BY <2>4, <2>5
  <1> QED
    BY <1>1, HarnessInvariant, PTL
=============================================================================
