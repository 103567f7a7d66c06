--------------------------- MODULE MCBatchRunner ---------------------------
(* Two runs, two batch directories and two command lines: on the same batch, *)
(* or on two whose runs have the same directories.                          *)
EXTENDS BatchRunner

CONSTANTS r1, r2

MCRunOrder == <<r1, r2>>
=============================================================================
