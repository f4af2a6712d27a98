------------------------- MODULE MCWorkerAddressing -------------------------
(* Three worker boards.  The FRAM is at 34, so that they reach its address   *)
(* as 0x30 boards would reach 0x50.                                          *)
EXTENDS WorkerAddressing

CONSTANTS w1, w2, w3

MCWorkers == {w1, w2, w3}
==============================================================================
