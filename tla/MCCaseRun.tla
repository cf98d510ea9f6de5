------------------------------ MODULE MCCaseRun ------------------------------
(* Three steps of the kinds the runner tells apart, each of them without a
   template or with one that refers to the step before it (the first one to a
   step that does not exist). *)
EXTENDS CaseRun

MCCodes == {"NotFound", "Internal"}

Kinds == {"prepare", "action", "cleanup"}

\* The loader refuses a success assert that has no step to compare with, and
\* response_from_step is not looked at in any other case.
MCTestCases ==
    {c \in [kind : [Steps -> Kinds],
            refs : {f \in [Steps -> SUBSET (0 .. NumSteps)] :
                        \A s \in Steps : f[s] \in {{}, {s - 1}}},
            code : {Success, "NotFound", "deadline"},
            from : Steps \cup {NoStep}] :
        IF c.code = Success
        THEN c.from # NoStep \/ \E s \in Steps : c.kind[s] = "action"
        ELSE c.from = NoStep}
=============================================================================
