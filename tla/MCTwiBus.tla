------------------------------ MODULE MCTwiBus ------------------------------
(***************************************************************************)
(* TwiBus with bytes of two bits, a FRAM of eight of them, and calls with  *)
(* offsets below and above one byte.  The third byte of a write does not   *)
(* fit into in_buffer of a worker.  A read at offset 2 makes a worker that *)
(* has no text compress it.                                                *)
(***************************************************************************)
EXTENDS TwiBus

MCWrites == {[offset |-> 0, bytes |-> <<1, 3>>], [offset |-> 2, bytes |-> <<1>>],
             [offset |-> 0, bytes |-> <<2>>], [offset |-> 5, bytes |-> <<1, 2, 3>>]}
MCReads == {[offset |-> 0, length |-> 2], [offset |-> 2, length |-> 3],
            [offset |-> 6, length |-> 1]}

\* The text comes back reversed or shifted, so that the jobs can be told apart; it
\* may reach beyond in_buffer, and inflating takes in the byte behind it, if any.
MCHuffman(job, in) ==
  LET reversed(b) == [k \in 1..in[1] |-> IF in[1] + 1 - k < NONE THEN in[in[1] + 2 - k] ELSE b]
      shifted(b) == [k \in 1..in[1] |-> ((IF k + 1 < NONE THEN in[k + 2] ELSE b) + 1) % (NONE + 1)]
  IN  {IF job = 1 THEN reversed(b) ELSE shifted(b) : b \in Byte}
=============================================================================
