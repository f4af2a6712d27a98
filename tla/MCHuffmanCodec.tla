---------------------------- MODULE MCHuffmanCodec ----------------------------
(* Blocks for the codec: every block of up to six bytes over four letters,    *)
(* and the block of huffman/main.c, in which all six letters of the alphabet  *)
(* occur.                                                                     *)
EXTENDS HuffmanCodec, SequencesExt

MaxBlock == 6
MCAlphabet == 65..70
SteepAlphabet == 65..74
Letters == 65..68

\* "ABCDDFDDDDDDFEEEEE", huffman/main.c:36
TestBlock == <<65, 66, 67, 68, 68, 70, 68, 68, 68, 68, 68, 68, 70, 69, 69, 69, 69, 69>>

MCBlocks == (BoundedSeq(Letters, MaxBlock) \ {<<>>}) \cup {TestBlock}

\* 122 bytes in which ten letters occur 1, 1, 1, 3, 4, 7, 11, 18, 29 and 47
\* times, each having its first occurrence among the first ten bytes.
Occurrences == <<1, 1, 1, 3, 4, 7, 11, 18, 29, 47>>
SteepBlock ==
  FoldLeft(LAMBDA b, k : b \o [j \in 1..Occurrences[k] - 1 |-> 64 + k],
           [k \in 1..10 |-> 64 + k], [k \in 1..10 |-> k])
SteepBlocks == {SteepBlock}

\* 0, 1, 85 and 255
MCShiftResults == {ZERO, [ZERO EXCEPT ![0] = 1], [k \in 0..7 |-> (k + 1) % 2], [k \in 0..7 |-> 1]}
==============================================================================
