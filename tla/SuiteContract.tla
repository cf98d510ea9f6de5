---------------------------- MODULE SuiteContract ----------------------------
(***************************************************************************)
(* What RunCases promises to a test author, whatever the execution mode:   *)
(* the cases run between one setup and one teardown, no more than the      *)
(* limit at once, a case runs at most once, cases are left out only after  *)
(* a failure, and the verdict is "pass" exactly when nothing failed.       *)
(***************************************************************************)
EXTENDS Integers, FiniteSets

CONSTANT Cases

VARIABLES
    stage,    \* "before", "up", "over" or "aborted"
    chosen,   \* the cases to run, decided when the suite comes up
    cap,      \* how many may run at once, decided when the suite comes up
    running,  \* the cases running now
    ended,    \* the cases that have ended
    bad,      \* the ended cases that failed
    verdict   \* "none", then "pass" or "fail"

cvars == <<stage, chosen, cap, running, ended, bad, verdict>>

Init ==
    /\ stage = "before"
    /\ chosen = {}
    /\ cap = 0
    /\ running = {} /\ ended = {} /\ bad = {}
    /\ verdict = "none"

SetupFails ==
    /\ stage = "before"
    /\ stage' = "over"
    /\ verdict' = "fail"
    /\ UNCHANGED <<chosen, cap, running, ended, bad>>

Up ==
    /\ stage = "before"
    /\ stage' = "up"
    /\ chosen' \in SUBSET Cases
    /\ cap' \in Nat \ {0}
    /\ UNCHANGED <<running, ended, bad, verdict>>

Start(c) ==
    /\ stage = "up"
    /\ c \in chosen \ (running \cup ended)
    /\ running' = running \cup {c}
    /\ Cardinality(running') <= cap
    /\ UNCHANGED <<stage, chosen, cap, ended, bad, verdict>>

End(c) ==
    /\ stage = "up"
    /\ c \in running
    /\ running' = running \ {c}
    /\ ended' = ended \cup {c}
    /\ bad' \in {bad, bad \cup {c}}
    /\ UNCHANGED <<stage, chosen, cap, verdict>>

Down ==
    /\ stage = "up"
    /\ running = {}
    /\ ended = chosen \/ bad # {}
    /\ stage' = "over"
    /\ verdict' \in IF bad = {} THEN {"pass", "fail"} ELSE {"fail"}
    /\ UNCHANGED <<chosen, cap, running, ended, bad>>

Abort ==
    /\ stage = "up"
    /\ running # {}
    /\ stage' = "aborted"
    /\ verdict' = "fail"
    /\ UNCHANGED <<chosen, cap, running, ended, bad>>

Next ==
    \/ SetupFails \/ Up \/ Down \/ Abort
    \/ \E c \in Cases : Start(c) \/ End(c)

Spec == Init /\ [][Next]_cvars
=============================================================================
