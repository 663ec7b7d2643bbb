--------------------------- MODULE MCIdentifiers ----------------------------
(***************************************************************************)
(* Every millisecond; a time of the recorded run of the program that gave  *)
(* an identifier in executions.txt, and the last second of 32 bits.        *)
(***************************************************************************)
EXTENDS Identifiers

MCMilliseconds == 0..999
MCTimes        == {1514087037, 2147483647}
=============================================================================
