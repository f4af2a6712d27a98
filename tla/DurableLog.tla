------------------------------ MODULE DurableLog ------------------------------
(***************************************************************************)
(* What input_datastream (main/main.c) promises of the input file: a log   *)
(* on storage that survives power loss.  A call receives the text chunk by *)
(* chunk, behind one flag byte if the log is empty, and the whole of it    *)
(* becomes part of the log at once, when the call commits it.  A crash     *)
(* loses what is not committed and nothing else; a format clears the log.  *)
(***************************************************************************)
EXTENDS Integers, Sequences

CONSTANTS Chunks,   \* what may be received
          STAR,     \* the flag of raw text
          HASH      \* the first byte of a text that brings its own flag

VARIABLES log,       \* what is committed
          tail,      \* what was received after that, in the present call
          incoming   \* the chunk at hand

vars == <<log, tail, incoming>>

Init == log = <<>> /\ tail = <<>> /\ incoming = <<>>

Receive ==
  /\ incoming = <<>>
  /\ incoming' \in Chunks
  /\ UNCHANGED <<log, tail>>

Flagged == log # <<>> \/ tail # <<>> \/ incoming[1] = HASH

Flag ==
  /\ incoming # <<>> /\ ~ Flagged
  /\ tail' = <<STAR>>
  /\ UNCHANGED <<log, incoming>>

Extend ==
  /\ incoming # <<>> /\ Flagged
  /\ tail' = tail \o incoming
  /\ incoming' = <<>>
  /\ UNCHANGED log

Commit ==
  /\ incoming = <<>>
  /\ log' = log \o tail
  /\ tail' = <<>>
  /\ UNCHANGED incoming

Crash ==
  /\ tail' = <<>> /\ incoming' = <<>>
  /\ UNCHANGED log

Clear ==
  /\ tail = <<>> /\ incoming = <<>>
  /\ log' = <<>>
  /\ UNCHANGED <<tail, incoming>>

Next == Receive \/ Flag \/ Extend \/ Commit \/ Crash \/ Clear

Spec == Init /\ [][Next]_vars
==============================================================================
