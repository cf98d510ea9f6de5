---------------------------- MODULE KafkaHarness ----------------------------
(***************************************************************************)
(* queue/kafkaproducer/harness.go: the Kafka harness of one case.  The     *)
(* case's goroutine plans, awaits, verifies and cleans up, one call after  *)
(* the other, while the system under test publishes.                       *)
(*                                                                         *)
(* Broker and sarama are external: a topic is a log with one partition, a  *)
(* consumer reads it in order from where it was opened, a send may be      *)
(* acknowledged, refused, or appended with its acknowledgement lost and    *)
(* then retried.                                                           *)
(***************************************************************************)
EXTENDS Probe

CONSTANTS
    Counts,    \* the values of expected_count the plans use
    MaxPlans,  \* bound on the calls of PlanOutbound
    MaxSends,  \* bound on the sends under way at once
    MaxLog     \* bound on the length of the topic's log

ASSUME CountsAssumption == Counts \subseteq Nat
ASSUME BoundsAssumption == MaxPlans \in Nat /\ MaxSends \in Nat /\ MaxLog \in Nat

NoReader == 0
NoPlan == [count |-> 0, ordering |-> "none"]

VARIABLES
    log,        \* the topic's log at the broker
    pub,        \* where the call of PublishRaw is
    handing,    \* the messages whose SendMessage has not given them to the producer yet
    sending,    \* the messages that the producer sends
    writer,     \* harness.writer: "open" or "nil"
    readers,    \* every reader ever made: start, pos, open, failed
    reader,     \* harness.reader: an index of readers
    plan,       \* harness.plan
    observed,   \* harness.observed
    pc,         \* where the case's goroutine is
    planning,   \* the expectation and the log's length PlanOutbound began with
    ctx,        \* the context of the running check
    last,       \* the last check: what it was and how it came out
    calls       \* calls of PlanOutbound so far

brokerVars == <<log, pub, handing, sending>>
harnessVars == <<writer, readers, reader, plan, observed>>
caseVars == <<pc, planning, ctx, last, calls>>
vars == <<brokerVars, harnessVars, caseVars>>

Reader == [start : Nat, pos : Nat, open : BOOLEAN, failed : BOOLEAN]
Checks == {"none", "await", "verify"}
NoCheck == [op |-> "none", ok |-> FALSE]
NoPlanning == [expectation |-> NoPlan, since |-> 0]

TypeOK ==
    /\ log \in Seq(Kinds) /\ Len(log) <= MaxLog
    /\ pub \in {"idle", "ensured"}
    /\ handing \in SUBSET Kinds /\ sending \in SUBSET Kinds
    /\ writer \in {"open", "nil"}
    /\ readers \in Seq(Reader)
    /\ reader \in 0 .. Len(readers)
    /\ plan \in Expectation \cup {NoPlan}
    /\ observed \in Seq(Kinds)
    /\ pc \in {"idle", "ensuring", "connecting", "replacing", "await", "verify", "panicked"}
    /\ planning \in [expectation : Expectation \cup {NoPlan}, since : Nat]
    /\ ctx \in {"live", "expired", "canceled"}
    /\ last \in [op : Checks, ok : BOOLEAN]
    /\ calls \in 0 .. MaxPlans
    /\ plan # NoPlan => reader # NoReader

Init ==
    /\ log = <<>>
    /\ pub = "idle"
    /\ handing = {}
    /\ sending = {}
    /\ writer = "open"
    /\ readers = <<>>
    /\ reader = NoReader
    /\ plan = NoPlan
    /\ observed = <<>>
    /\ pc = "idle"
    /\ planning = NoPlanning
    /\ ctx = "live"
    /\ last = NoCheck
    /\ calls = 0

-----------------------------------------------------------------------------
(* PublishRaw, called by the system under test.  What it returns does not touch
   the harness: a send whose caller gave up runs on like any other. *)

\* ensureTopicFn has found or made the topic.
PublishEnsureTopic ==
    /\ pc # "panicked"
    /\ pub = "idle"
    /\ pub' = "ensured"
    /\ UNCHANGED <<log, handing, sending, harnessVars, caseVars>>

\* WriteMessages on a done context sends nothing; else the send runs in a goroutine
\* of runWithContext, which goes on when the caller's context ends first.
WriteMessages(m) == handing' \in {handing, handing \cup {m}}

\* The writer is read without the lock, and CleanupBroker may have set it to nil.
PublishWrite ==
    /\ pc # "panicked"
    /\ pub = "ensured"
    /\ pub' = "idle"
    /\ \/ /\ writer = "nil"
          /\ pc' = "panicked"
          /\ UNCHANGED handing
       \/ /\ writer = "open"
          /\ \E m \in Kinds \ (handing \cup sending) : WriteMessages(m)
          /\ Cardinality(handing' \cup sending) <= MaxSends
          /\ UNCHANGED pc
    /\ UNCHANGED <<log, sending, harnessVars, planning, ctx, last, calls>>

\* SendMessage gives the message to the producer.  If CleanupBroker has closed it since
\* the writer was read, this is a send on a closed channel.
SendMessage(m) ==
    /\ pc # "panicked"
    /\ handing' = handing \ {m}
    /\ IF writer = "open" THEN sending' = sending \cup {m} /\ UNCHANGED pc
       ELSE pc' = "panicked" /\ UNCHANGED sending
    /\ UNCHANGED <<log, pub, harnessVars, planning, ctx, last, calls>>

\* The broker appends a message.  If its answer is lost the producer sends again.
BrokerAppends(m) ==
    /\ Len(log) < MaxLog
    /\ log' = Append(log, m)
    /\ sending' \in {sending, sending \ {m}}
    /\ UNCHANGED <<pub, handing, harnessVars, caseVars>>

BrokerRefuses(m) ==
    /\ sending' = sending \ {m}
    /\ UNCHANGED <<log, pub, handing, harnessVars, caseVars>>

\* The consumer of an open reader meets an error, which waits in its channel.
ConsumerFails(r) ==
    /\ readers[r].open /\ ~readers[r].failed
    /\ readers' = [readers EXCEPT ![r].failed = TRUE]
    /\ UNCHANGED <<brokerVars, writer, reader, plan, observed, caseVars>>

-----------------------------------------------------------------------------
(* PlanOutbound. *)

PlanOutbound ==
    /\ pc = "idle"
    /\ calls < MaxPlans
    /\ calls' = calls + 1
    /\ pc' = "ensuring"
    /\ \E count \in Counts, ordering \in Orderings :
          planning' = [expectation |-> [count |-> count, ordering |-> ordering],
                       since |-> Len(log)]
    /\ UNCHANGED <<brokerVars, harnessVars, ctx, last>>

PlanEnsureTopic ==
    /\ pc = "ensuring"
    /\ \/ pc' = "connecting" /\ UNCHANGED planning
       \/ pc' = "idle" /\ planning' = NoPlanning
    /\ UNCHANGED <<brokerVars, harnessVars, ctx, last, calls>>

\* newSaramaReader consumes from sarama.OffsetNewest.
StartOffset == Len(log)

NewReader ==
    /\ pc = "connecting"
    /\ \/ /\ pc' = "replacing"
          /\ readers' = Append(readers, [start |-> StartOffset, pos |-> StartOffset,
                                         open |-> TRUE, failed |-> FALSE])
          /\ UNCHANGED planning
       \/ /\ pc' = "idle"
          /\ planning' = NoPlanning
          /\ UNCHANGED readers
    /\ UNCHANGED <<brokerVars, writer, reader, plan, observed, ctx, last, calls>>

\* Closing a reader hands out the errors that wait in its channel.  A reader
\* closed before has nothing left to close.
CloseFails(r) == readers[r].open /\ readers[r].failed

Closed(r) == [readers EXCEPT ![r].open = FALSE]

\* Fault: what the previous plan observed is kept.
ObservedKept == observed

ObservedAtPlan == <<>>

\* Under the lock: the previous reader is closed.  If that fails the call returns,
\* with the previous reader and plan in place and the new reader left open.
PlanReplaceReader ==
    /\ pc = "replacing"
    /\ pc' = "idle"
    /\ readers' = IF reader # NoReader THEN Closed(reader) ELSE readers
    /\ IF reader # NoReader /\ CloseFails(reader)
       THEN UNCHANGED <<reader, plan, observed>>
       ELSE /\ reader' = Len(readers)
            /\ plan' = planning.expectation
            /\ observed' = ObservedAtPlan
    /\ planning' = NoPlanning
    /\ last' = NoCheck
    /\ UNCHANGED <<brokerVars, writer, ctx, calls>>

-----------------------------------------------------------------------------
(* AwaitOutbound and VerifyOutbound hold the lock throughout. *)

\* Without a reader the check returns at once.
BeginCheck(op) ==
    /\ pc = "idle"
    /\ reader # NoReader
    /\ pc' = op
    /\ ctx' \in {"live", "expired", "canceled"}
    /\ last' = NoCheck
    /\ UNCHANGED <<brokerVars, harnessVars, planning, calls>>

Polling == pc \in {"await", "verify"}

ContextEnds ==
    /\ Polling /\ ctx = "live"
    /\ ctx' \in {"expired", "canceled"}
    /\ UNCHANGED <<brokerVars, harnessVars, pc, planning, last, calls>>

\* A reader whose Close has run has no partition consumer to ask.
FetchPanics ==
    /\ Polling /\ ~readers[reader].open
    /\ pc' = "panicked"
    /\ UNCHANGED <<brokerVars, harnessVars, planning, ctx, last, calls>>

Fetched(r) == [readers EXCEPT ![r].pos = @ + 1]

FetchMessage ==
    /\ Polling /\ readers[reader].open
    /\ readers[reader].pos < Len(log)
    /\ observed' = Append(observed, log[readers[reader].pos + 1])
    /\ readers' = Fetched(reader)
    /\ UNCHANGED <<brokerVars, writer, reader, plan, caseVars>>

\* An error of the consumer ends the check.
FetchFails ==
    /\ Polling /\ readers[reader].open /\ readers[reader].failed
    /\ readers' = [readers EXCEPT ![reader].failed = FALSE]
    /\ pc' = "idle"
    /\ ctx' = "live"
    /\ UNCHANGED <<brokerVars, writer, reader, plan, observed, planning, last, calls>>

\* FetchMessage runs into pollBatchTimeout, or takes the done context although
\* messages wait: the poll ends and the check is made on what was read.
PollEnds ==
    /\ Polling /\ readers[reader].open
    /\ last' = [op |-> pc,
                ok |-> IF pc = "await" THEN EvaluateAwait(plan, observed, ctx = "expired")
                       ELSE EvaluateVerify(plan, observed)]
    /\ pc' = "idle"
    /\ ctx' = "live"
    /\ UNCHANGED <<brokerVars, harnessVars, planning, calls>>

-----------------------------------------------------------------------------
(* CleanupBroker. *)

\* Fault: the closed reader stays in place.
ReaderKept == reader

ReaderAfterCleanup == NoReader

PlanAfterCleanup == NoPlan

\* Errors of both closes are joined and everything is released all the same.
CleanupBroker ==
    /\ pc = "idle"
    /\ readers' = IF reader # NoReader THEN Closed(reader) ELSE readers
    /\ reader' = ReaderAfterCleanup
    /\ writer' = "nil"
    /\ plan' = PlanAfterCleanup
    /\ observed' = <<>>
    /\ last' = NoCheck
    /\ UNCHANGED <<brokerVars, pc, planning, ctx, calls>>

-----------------------------------------------------------------------------

Sut == PublishEnsureTopic \/ PublishWrite \/ \E m \in handing : SendMessage(m)

Broker ==
    \/ \E m \in sending : BrokerAppends(m) \/ BrokerRefuses(m)
    \/ \E r \in DOMAIN readers : ConsumerFails(r)

CaseGoroutine ==
    \/ PlanOutbound \/ PlanEnsureTopic \/ NewReader \/ PlanReplaceReader
    \/ \E op \in {"await", "verify"} : BeginCheck(op)
    \/ ContextEnds \/ FetchPanics \/ FetchMessage \/ FetchFails \/ PollEnds
    \/ CleanupBroker

Next == Sut \/ Broker \/ CaseGoroutine

Spec == Init /\ [][Next]_vars

-----------------------------------------------------------------------------
(* Properties. *)

\* The messages the log gained since a reader was opened, as far as it has read.
Window(r) == SubSeq(log, readers[r].start + 1, readers[r].pos)

\* Every check looks at exactly what its reader has read since PlanOutbound: no
\* message is lost, repeated, reordered or left over from an earlier plan.  The reader
\* is activated "with a from now boundary": nothing that was on the topic when
\* PlanOutbound was called is observed.
ObservedIsWindow ==
    /\ plan # NoPlan => observed = Window(reader)
    /\ pc = "replacing" => readers[Len(readers)].start >= planning.since

\* What the reader will ever see of the topic, if nothing more is published.
OnTopic(r) == SubSeq(log, readers[r].start + 1, Len(log))

\* A check that passed is right about the topic, if its reader had read all that
\* was there: a verify about the number of messages, and in strict order about
\* the absence of others, an await about their arrival or their absence.
VerdictTrue ==
    last.ok /\ readers[reader].pos = Len(log) =>
        LET n == MatchedCount(plan, OnTopic(reader))
        IN  /\ last.op = "verify" => n = plan.count
            /\ last.op = "verify" /\ plan.ordering = "strict" /\ plan.count > 0
                  => Len(OnTopic(reader)) = n
            /\ last.op = "await" => IF plan.count > 0 THEN n >= plan.count ELSE n = 0

\* A panic has one of two causes: a check uses a reader whose Close failed when
\* PlanOutbound replaced it, or a publication runs into CleanupBroker, which takes away
\* the writer before PublishRaw reads it, without the lock, or closes the producer before
\* SendMessage has given it the message.  A cleanup or a replacement that works leaves
\* no closed reader behind for the next check.
PanicHasCause ==
    pc = "panicked" =>
        IF reader # NoReader /\ ~readers[reader].open THEN readers[reader].failed
        ELSE writer = "nil"

\* The doc comment of CleanupBroker: it "releases the consumer/producer harness
\* resources".  After it no reader the harness opened is open.
CleanupReleasesReaders ==
    pc = "idle" /\ writer = "nil" /\ reader = NoReader /\ calls > 0 =>
        \A r \in DOMAIN readers : ~readers[r].open
=============================================================================
