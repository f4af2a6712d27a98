------------------------------ MODULE ByteStore ------------------------------
(***************************************************************************)
(* What a device on the bus promises to the calls of the controller        *)
(* (i2c_writeReg and i2c_readReg, main/i2c_master.c): the bytes of a call  *)
(* are stored one after the other, in order and at consecutive addresses.  *)
(* A call that succeeds has stored them all; one that fails has stored the *)
(* first few.  Nothing is ever stored outside of a call.                   *)
(***************************************************************************)
EXTENDS Integers, Sequences

VARIABLES cells,          \* what is stored
          busy,           \* "yes" during a call
          start, bytes,   \* where and what it is to store
          stored,         \* how many bytes of it are stored
          ret             \* what the last call returned, 0 or 1

vars == <<cells, busy, start, bytes, stored, ret>>

Init == busy = "no" /\ stored = 0

Begin ==
  /\ busy = "no" /\ busy' = "yes"
  /\ stored' = 0
  /\ UNCHANGED <<cells, ret>>

Store ==
  /\ busy = "yes" /\ stored < Len(bytes)
  /\ cells' = [cells EXCEPT ![start + stored] = bytes[stored + 1]]
  /\ stored' = stored + 1
  /\ UNCHANGED <<busy, start, bytes, ret>>

Return ==
  /\ busy = "yes" /\ busy' = "no"
  /\ ret' = 0 => stored = Len(bytes)
  /\ UNCHANGED <<cells, start, bytes, stored>>

Next == Begin \/ Store \/ Return

Spec == Init /\ [][Next]_vars
==============================================================================
