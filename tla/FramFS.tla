-------------------------------- MODULE FramFS --------------------------------
(***************************************************************************)
(* The "filesystem" on the FRAM: format_storage (main/i2c_master.c),       *)
(* initialize_fs, input_datastream and output_datastream (main/main.c).    *)
(* Bytes 0..7 of the FRAM record where the input and the output file start *)
(* and end, as four little-endian words; _fs is their copy in RAM, read    *)
(* once, at boot.  A step is one i2c_writeReg or i2c_readReg with the code *)
(* around it, and the power may fail between any two steps.                *)
(***************************************************************************)
EXTENDS Integers, Sequences

CONSTANTS SIZE,        \* bytes of the FRAM, 32768
          FORMATTED,   \* bytes that format_storage zeroes, 32000
          INPUT,       \* where the input file starts, 8
          OUTPUT,      \* where the output file starts, 16004
          CHUNK,       \* bytes that are read from the line or printed at a time, 8
          Chunks,      \* what fgets may return
          LIMIT,       \* bound of the model: the input file ends here at the latest
          CarefulUse   \* TRUE: after a format, even one that the power cut short,
                       \* the board is formatted and restarted before an input

ASSUME LayoutAssumption ==
  /\ {SIZE, FORMATTED, INPUT, OUTPUT, CHUNK, LIMIT} \subseteq Nat
  /\ 8 <= INPUT /\ INPUT <= OUTPUT /\ OUTPUT < SIZE
  /\ FORMATTED % 4 = 0 /\ 8 <= FORMATTED /\ FORMATTED <= SIZE
  /\ LIMIT <= SIZE /\ SIZE < 256 * 256 /\ CHUNK > 0

Byte == 0..255

\* Text: fgets returns at least one character, and no NUL among them; nor a '%',
\* 37, which printf(buffer) would not print as it is.
ASSUME ChunksAssumption ==
  \A c \in Chunks : c \in Seq(Byte \ {0, 37}) /\ Len(c) \in 1..CHUNK

ASSUME UsageAssumption == CarefulUse \in BOOLEAN

VARIABLES fram,      \* the bytes of the FRAM
          _fs,       \* the extents of the two files, in RAM
          pc,        \* what the controller is doing
          buffer,    \* the chunk at hand
          address,   \* how far format_storage or output_datastream has come
          file,      \* the file that output_datastream prints
          printed    \* what it has printed of it

vars == <<fram, _fs, pc, buffer, address, file, printed>>

STAR == 42   \* '*', raw_text
HASH == 35   \* '#', the compression flag

\* The chip takes an address modulo its size.
Put(mem, a, bytes) ==
  [k \in DOMAIN mem |->
     IF (k - a) % SIZE < Len(bytes) THEN bytes[1 + ((k - a) % SIZE)] ELSE mem[k]]

Get(mem, a, n) == [k \in 1..n |-> mem[(a + k - 1) % SIZE]]

Word(n) == <<n % 256, n \div 256>>

\* Mutation: the words are read big-endian.
WordAt_swapped(mem, a) == 256 * mem[a] + mem[a + 1]

WordAt(mem, a) == mem[a] + 256 * mem[a + 1]

Extents(mem) ==
  [input  |-> [start |-> WordAt(mem, 0), end |-> WordAt(mem, 2)],
   output |-> [start |-> WordAt(mem, 4), end |-> WordAt(mem, 6)]]

Content(mem, f) == Get(mem, f.start, f.end - f.start)

\* What printf(buffer) puts out: the bytes before the first NUL.
CString(s) ==
  SubSeq(s, 1, CHOOSE n \in 0..Len(s) : /\ \A i \in 1..n : s[i] # 0
                                        /\ n < Len(s) => s[n + 1] = 0)

metadata == Word(INPUT) \o Word(INPUT) \o Word(OUTPUT) \o Word(OUTPUT)
Unknown == [input |-> [start |-> 0, end |-> 0], output |-> [start |-> 0, end |-> 0]]

\* A board that was formatted once and is off.
Init ==
  /\ fram = Put([k \in 0..SIZE - 1 |-> 0], 0, metadata)
  /\ _fs = Unknown
  /\ pc = "off"
  /\ buffer = <<>>
  /\ address = 0
  /\ file = "input"
  /\ printed = <<>>

initialize_fs ==
  /\ pc = "off"
  /\ _fs' = Extents(fram)
  /\ pc' = "idle"
  /\ UNCHANGED <<fram, buffer, address, file, printed>>

PowerLoss ==
  /\ pc # "off"
  /\ pc' = "off"
  /\ _fs' = Unknown
  /\ buffer' = <<>> /\ address' = 0 /\ file' = "input" /\ printed' = <<>>
  /\ UNCHANGED fram

-----------------------------------------------------------------------------
(* format_storage                                                          *)

StartFormat ==
  /\ pc = "idle"
  /\ address' = 0
  /\ pc' = "zeroing"
  /\ UNCHANGED <<fram, _fs, buffer, file, printed>>

ZeroCell ==
  /\ pc = "zeroing"
  /\ fram' = Put(fram, address, <<0, 0, 0, 0>>)
  /\ address' = address + 4
  /\ pc' = IF address' < FORMATTED THEN "zeroing" ELSE "metadata"
  /\ UNCHANGED <<_fs, buffer, file, printed>>

\* _fs in RAM keeps the extents from before.
WriteMetadata ==
  /\ pc = "metadata"
  /\ fram' = Put(fram, 0, metadata)
  /\ pc' = "idle"
  /\ UNCHANGED <<_fs, buffer, address, file, printed>>

-----------------------------------------------------------------------------
(* input_datastream, called with the input file.                           *)

Sound == _fs.input = Extents(fram).input /\ _fs.input.start = INPUT

StartInput ==
  /\ pc = "idle"
  /\ CarefulUse => Sound
  /\ pc' = "input"
  /\ UNCHANGED <<fram, _fs, buffer, address, file, printed>>

fgets ==
  /\ pc = "input"
  /\ buffer' \in Chunks
  /\ _fs.input.end + 1 + Len(buffer') <= LIMIT
  /\ pc' = IF _fs.input.end = _fs.input.start /\ buffer'[1] # HASH
           THEN "flag" ELSE "chunk"
  /\ UNCHANGED <<fram, _fs, address, file, printed>>

\* Mutation: the end of the file is not moved past the flag.
WriteFlag_in_place ==
  /\ pc = "flag"
  /\ fram' = Put(fram, _fs.input.end, <<STAR>>)
  /\ pc' = "chunk"
  /\ UNCHANGED <<_fs, buffer, address, file, printed>>

WriteFlag ==
  /\ pc = "flag"
  /\ fram' = Put(fram, _fs.input.end, <<STAR>>)
  /\ _fs' = [_fs EXCEPT !.input.end = @ + 1]
  /\ pc' = "chunk"
  /\ UNCHANGED <<buffer, address, file, printed>>

WriteChunk ==
  /\ pc = "chunk"
  /\ fram' = Put(fram, _fs.input.end, buffer)
  /\ _fs' = [_fs EXCEPT !.input.end = @ + Len(buffer)]
  /\ pc' = "input"
  /\ UNCHANGED <<buffer, address, file, printed>>

\* fgets returns NULL.
EndOfInput ==
  /\ pc = "input"
  /\ pc' = "record"
  /\ UNCHANGED <<fram, _fs, buffer, address, file, printed>>

\* The end of the file is recorded, and pollButtonA goes on to print it.
RecordEnd ==
  /\ pc = "record"
  /\ fram' = Put(fram, 2, Word(_fs.input.end))
  /\ pc' = "output"
  /\ file' = "input" /\ address' = _fs.input.start /\ printed' = <<>>
  /\ UNCHANGED <<_fs, buffer>>

-----------------------------------------------------------------------------
(* output_datastream                                                       *)

StartOutput ==
  /\ pc = "idle"
  /\ pc' = "output"
  /\ file' = "output" /\ address' = _fs.output.start /\ printed' = <<>>
  /\ UNCHANGED <<fram, _fs, buffer>>

\* Mutation: a full chunk is read also at the end of the file.
PrintChunk_whole ==
  /\ pc = "output"
  /\ address < _fs[file].end
  /\ printed' = printed \o CString(Get(fram, address, CHUNK))
  /\ address' = address + CHUNK
  /\ UNCHANGED <<fram, _fs, pc, buffer, file>>

\* address has moved on when it is compared with the start of the file.
PrintChunk ==
  /\ pc = "output"
  /\ address < _fs[file].end
  /\ LET left == _fs[file].end - address
         text == CString(Get(fram, address, IF left > CHUNK THEN CHUNK ELSE left))
     IN  printed' = printed \o (IF /\ address + CHUNK = _fs[file].start
                                   /\ text # <<>> /\ text[1] = STAR
                                THEN Tail(text) ELSE text)
  /\ address' = address + CHUNK
  /\ UNCHANGED <<fram, _fs, pc, buffer, file>>

\* Mutation: the loop waits for address to equal the end of the file.
EndOutput_exact ==
  /\ pc = "output"
  /\ address = _fs[file].end
  /\ pc' = "idle"
  /\ UNCHANGED <<fram, _fs, buffer, address, file, printed>>

EndOutput ==
  /\ pc = "output"
  /\ address >= _fs[file].end
  /\ pc' = "idle"
  /\ UNCHANGED <<fram, _fs, buffer, address, file, printed>>

Calls == initialize_fs \/ StartFormat \/ StartInput \/ StartOutput
Serial == fgets \/ EndOfInput
Steps == ZeroCell \/ WriteMetadata \/ WriteFlag \/ WriteChunk \/ RecordEnd \/ PrintChunk \/ EndOutput

Next == Calls \/ Serial \/ Steps \/ PowerLoss

\* A call that has begun goes on; the host need not send and nobody need press
\* a button.
Spec == Init /\ [][Next]_vars /\ WF_vars(Steps)

-----------------------------------------------------------------------------

\* Every variable has its type, and the extents lie within the FRAM.
TypeOK ==
  /\ fram \in [0..SIZE - 1 -> Byte]
  /\ \A f \in {"input", "output"} : 0 <= _fs[f].start /\ _fs[f].start <= _fs[f].end
  /\ \A f \in {"input", "output"} : _fs[f].end <= SIZE
  /\ pc \in {"off", "idle", "zeroing", "metadata", "input", "flag", "chunk", "record", "output"}
  /\ buffer \in Chunks \cup {<<>>}
  /\ address \in 0..SIZE + CHUNK
  /\ file \in {"input", "output"}
  /\ printed \in Seq(Byte \ {0})

recorded == Extents(fram).input
InInput == pc \in {"input", "flag", "chunk", "record"}

committed == Content(fram, recorded)
received ==
  IF InInput THEN Get(fram, recorded.end, _fs.input.end - recorded.end) ELSE <<>>
atHand == IF pc \in {"flag", "chunk"} THEN buffer ELSE <<>>

Log == INSTANCE DurableLog WITH log <- committed, tail <- received, incoming <- atHand

\* The input file is a durable log: what the recorded extents enclose grows by
\* the text of a whole call of input_datastream, behind one flag byte, at the
\* step that records the end; a power failure at any other point leaves what was
\* there, and a format empties it at its first write.
DurableInput == Log!Spec

\* The file less the flag of a raw text.
Unflagged(text) == IF text # <<>> /\ text[1] = STAR THEN Tail(text) ELSE text

\* "print out the file f stored on FRAM": when output_datastream is done it has
\* printed every byte of the text, once and in order, whatever the length of the
\* file modulo CHUNK.  Whether the flag comes before it is left open here: the
\* code says "remove raw_text flag", and does not (FlagIsPrinted).
PrintedIsFile ==
  pc = "output" /\ address >= _fs[file].end =>
    LET text == Content(fram, _fs[file])
    IN  printed \in {text, Unflagged(text)}

\* A format and a print come to an end, and so does an input once the host has
\* sent its last chunk.
Settles == pc \notin {"off", "idle", "input"} ~> pc \in {"off", "idle", "input"}
==============================================================================
