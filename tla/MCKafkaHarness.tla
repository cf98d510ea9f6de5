--------------------------- MODULE MCKafkaHarness ---------------------------
(* Plans for no message and for one, the plan replaced once, and room on the
   topic for a message before the plan or an unexpected one beside the expected. *)
EXTENDS KafkaHarness

MCCounts == {0, 1}
=============================================================================
