----------------------------- MODULE MCDispatch -----------------------------
(***************************************************************************)
(* Processing with bytes below ten and blocks of three bytes: an input     *)
(* file that is empty, of a block and a rest, and longer than a byte can   *)
(* count.  One of the three workers, and the largest result, do not fit    *)
(* into their arrays; the other results may be stored in part.             *)
(***************************************************************************)
EXTENDS Dispatch

MCInputEnds == {1, 7, 12}
MCWritten == {0, 2}
MCFound == 0..3
MCCounts == 0..2
MCSizes == {0, 2, 4}
=============================================================================
