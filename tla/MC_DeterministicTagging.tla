----------------------- MODULE MC_DeterministicTagging -----------------------
(* Two clients with two grouping attributes each, over the group of order *)
(* 5; plaintexts 1 and 2 and two encryption randomness values.            *)
EXTENDS DeterministicTagging

CONSTANTS c1, c2
=============================================================================
