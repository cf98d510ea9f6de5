----------------------------- MODULE MCSuiteRun -----------------------------
(* Three cases; limits that serialise the cases and that hold all of them, the default
   that blocks the third one, and a limit that is not positive and is ignored. *)
EXTENDS SuiteRunRefinement

MCLimits == {0, 1, 3}
=============================================================================
