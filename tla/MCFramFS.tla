------------------------------- MODULE MCFramFS -------------------------------
(* An FRAM of 24 bytes: the input file has room for six bytes before the        *)
(* output file, and is read and printed two bytes at a time.                    *)
EXTENDS FramFS

MCChunks == {<<65>>, <<66, 67>>, <<HASH, 65>>}
==============================================================================
