# Distributed compression on AVR boards: TLA+ specifications and proofs

The repository holds the firmware of a small distributed system. A *controller*
board takes text over USB serial, keeps it on an FRAM chip, cuts it into blocks
and hands the blocks to *worker* boards; the workers compress or inflate them
with a Huffman library. Controller, FRAM and workers share one I2C bus.

## Parts

| Part | Code | State | Operations | Concurrency and failures |
|------|------|-------|------------|--------------------------|
| Huffman library | `main/huffman.c` (copies in `slave/`, `huffman/`) | node and queue arrays on the stack, code table, bit stream | `huffman_compress`, `huffman_inflate` | sequential; fixed arrays, 8-bit codes |
| Worker addressing | `slave/main.c` (`auto_address`), `main/main.c` (`scan_i2c`) | `workerID`, bus address of each worker; `workers[10]` of the controller | release of A on a worker; scan by the controller | several bus masters, lost STARTs, power cycles |
| FRAM file system | `main/main.c`, `format_storage` in `main/i2c_master.c` | extents in FRAM bytes 0..7, their copy `_fs` in RAM, file contents | format, input, output, mount at boot | power loss between writes, two copies of the extents |
| Buttons and control loop | `main/buttons.c`, `main/main.c` | `button_status`, `pinb_previous`, hold count | pin-change interrupt, two polling functions | interrupt against main loop |
| I2C master driver | `main/i2c_master.c`, `slave/i2c_master.c` | TWI registers | probe with timeout, `i2c_readReg`, `i2c_writeReg` | missing answers, overlooked errors |
| Worker protocol | `slave/i2c_slave.c` | `buffer_address`, `in_buffer`, `out_buffer` | TWI interrupt, one byte at a time; the job runs inside it | bus events while a job runs |
| Dispatch | `processData`, `sequence_blocks` in `main/main.c` | read and write pointers, `block`, the two buffers | poll workers, collect results, send blocks | independent workers, failing polls |
| USB serial port | `virtualserial/`, the CDC class driver of LUFA | one packet bank for each direction | `fgets` and `printf` through `getchar` and `putchar`, flush | the host sends and reads when it likes, timeouts, callbacks that print from the pin interrupt |
| Serial console, LEDs, rest of LUFA | `main/lufa.c`, `leds.c`, `lufa/` | | | see "Not modelled" |

The parts meet in `main/main.c`: a button starts a command; a format, an input
or a print works on the FRAM; `processData` scans for workers, sends them blocks
of the input file and appends their answers to the output file; a worker runs
the Huffman library inside its TWI interrupt.

## Modules

| Module | Models | Step | State beside the code's own |
|--------|--------|------|-----------------------------|
| `HuffmanTree` | `build_queue`, `build_tree` and the helpers they call | one byte counted, or one merge | none |
| `HuffmanCodec` (extends `HuffmanTree`) | the rest of `huffman_compress`, `huffman_inflate`, `main` of `huffman/main.c` | one byte encoded or one bit decoded | `stage` |
| `WorkerAddressing` | `auto_address`, `scan_i2c` | one call of `i2c_start_timeout` | `mode`, `scan` (program counters), `faults` (history) |
| `FramFS` | `format_storage`, `initialize_fs`, `input_datastream`, `output_datastream` | one `i2c_writeReg` or `i2c_readReg` with the code around it | `pc`, `printed` |
| `DurableLog` | what `input_datastream` promises: an abstract log that `FramFS` implements | | |
| `Buttons` | the pin-change interrupt, its callbacks, `pollButtonA`, `pollButtonC` | one access to the pins, or one test of the flags | `isr`, `loop` |
| `TwiBus` | `i2c_start_timeout`, `i2c_writeReg`, `i2c_readReg`, the interrupt handler of a worker; the wires and the FRAM | one byte on the bus, one interrupt, one job | `pc`, `link`, `event`; `ignored`, `stored` (histories) |
| `ByteStore` | what a device on the bus promises to a call: an abstract store that `TwiBus` implements | | |
| `Dispatch` | `processData`, `sequence_blocks` | one bus call, or a few, with the code around it | `pc`; `sent`, `records` (histories) |
| `SerialPort` | `CDC_Device_USBTask`, `_Flush`, `_SendByte`, `_ReceiveByte`, `Endpoint_WaitUntilReady`, with `input_datastream`, `output_datastream` and the callbacks of the buttons as their users | one access to an endpoint | `pc`, `after`, `isr`; `lost`, `printed`, `noted`, `dropped`, `overrun` (histories) |
| `*_proofs` | theorems about the module of that name; `HuffmanTree_proofs` also has the lemmas on the walks of the tree that `HuffmanCodec_proofs` uses | | |
| `MC*` | values of the constants for TLC | | |

The modules are cut where the code calls from one layer into the next.
`TwiBus` shows what a call of `i2c_writeReg` or `i2c_readReg` does to a device;
`FramFS` and `Dispatch` take such a call as one step. `SerialPort` shows which
chunks `fgets` returns; `FramFS` takes any of them. `WorkerAddressing` shows which
addresses `scan_i2c` returns; `Dispatch` takes any number of them.

**HuffmanTree.** The node array `tree_memory` is a sequence, a pointer an index
into it, `NULL` is 0. The queue is the sequence of its elements; the cells it
takes are counted, since `queue_alloc` never reuses one. `ALPHABET_SIZE` is the
size of the constant `Alphabet`.

**HuffmanCodec.** A byte that is shifted is a vector of eight bits, and shifts lose
what leaves it; any other byte is a number. A right shift by a negative count is
undefined in C, and `reverse_bits` may yield any of `ShiftResults` for it. The walks of
the tree (`tree_get_size`, `serialize_tree`, `build_encoding_table`) are recursive
functions on node indices, a child being older than its parent; `deserialize_tree`
is one on positions of the stream, and a deserialized node is identified with the
position of its byte. `CodecAssumption` states what the format rests on: the
marks `*` and `-` are no letters, the number of nodes fits a byte and the number of
bits two, which they do for the blocks of at most 255 bytes that the program handles.

**WorkerAddressing.** A worker off the bus, or inside `auto_address`, acknowledges
nothing. Everything may happen at once; `faults` remembers whether two workers
were inside `auto_address` together, whether a START was lost to another master,
and whether a worker lost power, and each property says which of these it
excepts. Addresses are natural numbers: in the program they have eight bits,
seven of which go on the bus, so the model is the program for up to 95 workers.

**FramFS.** The FRAM is an array of bytes; the extents are encoded into and
decoded from its first eight bytes as the program does. Power loss can come
between any two bus transactions and loses `_fs` and everything else in RAM. The
start of the model is a board that was formatted once. With `CarefulUse` an input
is begun only when the extents in RAM are those on the FRAM and start where they
should, which is the case if a format is followed by a restart and an interrupted
one is repeated. The output file is only ever empty here, since `processData` alone
fills it. `DurableInput` is a refinement: the log is the text between the recorded
extents, its tail what the present call has written behind the recorded end, and the
chunk at hand is `buffer`.

**Buttons.** A change of a pin makes the interrupt due; a change while the handler
runs makes it due again, as the flag of the hardware does. `DEBUG_BUTTONS` is
defined, so the handler begins with its 150 ms delay. The loop stands still while
the handler runs; the commands are single steps.

**TwiBus.** All calls of a behaviour go to one device, the FRAM or a worker. The
hardware of a worker acknowledges by itself according to `TWEA`, puts the byte
into `TWDR` and raises an event; the clock is held until the handler clears
`TWINT`, which it does before it runs the job, so that a job and the next transfer
overlap. What `huffman_compress` and `huffman_inflate` may return is the constant
operator `Huffman`, a set of results for each content of `in_buffer`: several where
the library reads bytes that are not the text's, none where it has no defined outcome.
A job can also stop the worker. Compressing a text of no bytes fails
the assertion in `build_tree` (`"aborted"`), and a result that does not fit
`out_buffer` runs into the memory behind it (`"undefined"`); nothing is said of the
worker after that. The FRAM may miss a byte and then stays silent; a worker
may be absent, but answers to the end once it has answered. The electrical level
is left out. `StoresInOrder` is a
refinement to `ByteStore`: the cells are the FRAM or `in_buffer`, and for a worker
the low byte of the offset counts as the first datum, as the handler takes it.

**Dispatch.** Answers of the workers and contents of the input file are arbitrary,
a poll may fail and leave the answer before it in `in_buffer`, and a write to the
output file may fail and store only a beginning of its bytes, or none. `irp` and `block`
have the width of the code's `uint8_t`, which is a constant. Where an array is
overrun the behaviour ends as `"undefined"`. The output file records which result
each byte belongs to, and `records` how much of each result was stored.

**SerialPort.** The host cuts its bytes into packets as it likes and reads when it
likes. A line is what `fgets` of avr-libc returns: up to a newline or a full buffer,
and NULL, dropping what it had, as soon as no byte is there. A call prints its
greeting, reads, and prints the file back behind a message of `HEADER` bytes. A callback
prints its message from the pin interrupt, between any two accesses of the main
program to an endpoint: to the same bank, and leaving the IN endpoint selected. If it
comes in the middle of `CDC_Device_ReceiveByte`, the rest of that function works on the
IN endpoint: it finds no packet, or reads nothing or a byte that the host never sent (a
foreign byte, numbered by the interrupt), and may hand the bank over. A byte written to a
bank without room is gone. `ClearOUT` on the IN endpoint leaves `TXINI` set, which can
add an empty packet on the wire but no byte; a foreign NUL, which `fgets` and `strlen`
treat as the end of the text, is left out.

Definitions named `X_something` next to a definition `X` and commented as a
mutation are wrong variants of `X`. No specification uses them. Each was put in
the place of `X` to see that a property notices.

## Checks

Runs that pass:

| Configuration | Properties | Instance |
|---------------|-----------|----------|
| `MCHuffmanCodec` | `Forest`, `NodeAccounting`, `TreeMemoryBound`, `QueueMemoryBound`, `WeightsCount` of the tree; `CodecTypeOK` (which includes `TypeOK` of the tree), `RoundTrip`, `StreamLayout`, `ReadsWithinStream`, `CodecTerminates` | every nonempty block of up to six bytes over four letters, and the block of `huffman/main.c` |
| `MCWorkerAddressing` | `TypeOK`, `UniqueAddresses`, `NoGaps`, `ScanIsComplete`, `AddressingEnds`, `ScanEnds` | three workers and a scan at once, lost STARTs, power cycles |
| `MCFramFS` | `TypeOK`, `PrintedIsFile`, `DurableInput` (refinement), `Settles` | 24 bytes of FRAM, chunks of two, power loss |
| `MCButtons` | `TypeOK`, `StatusIsTrue`, `FlagsExclude`, `HoldingFormats`, `LongPressOfC` | two buttons, a hold of two delays |
| `MCTwiBus` | `TypeOK`, `ReadOfFram`, `ReadsOneResult`, `StoresInOrder` (refinement), `CallReturns` | bytes of two bits, buffers of four, a FRAM of eight, jobs with several results |
| `MCDispatch` | `TypeOK`, `SentInOrder`, `ResultsKept`, `ResultsBounded`, `CallEnds` | counters modulo ten, blocks of three bytes, up to three workers, writes that fail |
| `MCSerialPort` | `TypeOK`, `StoredInOrder`, `PrintedArrives`, `CallEnds`, `BankIsFlushed` | three bytes and a newline among them, packets of three, two calls, a callback at any point |

What they show, part by part: a tree is always well formed and a block of two
letters or more comes
back; addresses are unique and dense; the input file survives power loss as a
whole; no press is lost by debouncing; bytes on the bus arrive in order, and a read
sees one result; blocks are cut without gap or overlap and results do not
destroy each other beyond the one byte; the serial port keeps the order of what is
read and of what each of its two writers prints, and an interrupt costs one printed
byte or adds one foreign byte at most.

Runs in which the code does not do what a document or a comment says:

| Configuration | Property | What happens |
|---------------|----------|--------------|
| `Steep` | `RoundTrip` | a block of 122 bytes has codes of nine bits, which do not fit in a byte |
| `CarelessUse` | `DurableInput` | after a format without a restart the next input goes behind the old end of the file; after power loss during a format it goes over the extents |
| `WriteToWorker` | `AtOffset` | a worker takes the second byte of the offset for data, and answers a read from the place behind the first |
| `BlockHeaders` | `HeaderTells` | blocks are numbered by the results received, and the number runs into the job bit |
| `SerialLoss` | `BytesAreWritten` | `fgets` drops the beginning of a line whose rest has not arrived |

Disagreements that a property states as the code has them, or that the models
show without a run of their own:

- The queue has one cell per letter of the alphabet, but N letters take 2N-1:
  `QueueMemoryBound` holds for blocks that use up to half of the alphabet
  (`main/huffman.c:365`).
- A block of one letter is encoded in no bits and inflates to nothing
  (`main/huffman.c:268`), although "data expansion" is to be "reversing the huffman
  encoding" (`main/main.c:9`). `RoundTrip` speaks of two letters or more, and
  `OneLetterLost` proves what happens to one.
- A worker that is read at offset 2 while it has no text, as happens when a failed
  poll leaves the size of another worker in `in_buffer`, is given the 2 for a header,
  whose job is to compress, and compresses no bytes: `assert(head != NULL)` fails
  (`slave/huffman.c:198`) and the worker stops inside its interrupt, holding the bus.
  `CallReturns` is stated for behaviours in which no job stops the worker.
- `i2c_readReg` of a worker does not return "length bytes starting at offset_addr"
  (`main/i2c_master.c:218`): the first byte is the address byte left in `TWDR`, the
  others come from one place behind the high byte of the offset (`ReadPlace`). So
  `processData` never sees the status it takes for the first byte (`main/main.c:289`).
  `ReadsOneResult` leaves the place open and asks for one job's result.
- The weight of a queued node grows without the queue being sorted again, so a
  more frequent byte can get the longer code (`CountSeen`).
- A probe that loses the START to another master reports a taken address as free
  (`slave/main.c:54`): `UniqueAddresses` excepts it.
- `scan_i2c` stores an eleventh worker behind its array of ten.
- `pollButtonC` tests the flag of A (`main/main.c:127`): once A was released, a long
  press of C is taken for a short one. `LongPressOfC` is stated for the time before.
- The first press after power-up sets both flags of the button and is not seen
  (`pressed`), and the rest of a long press is taken for another press
  (`HoldingFormats`). A press shorter than the delay of 500 ms is not served.
- The raw text flag is never removed from what is printed, as `address` has moved
  on when it is compared, although the comment there says "remove raw_text flag"
  (`main/main.c:201`). `PrintedIsFile` accepts the text with or without the flag, and
  `FlagIsPrinted` proves that it is printed. A `%`
  in the text is taken for a conversion by `printf(buffer)`.
- Nothing keeps the input file out of the output file (`fgets` without `LIMIT`).
- `block_count` is 1 for every raw file that is not empty, since `?:` binds weaker
  than `+` (`main/main.c:274`): `processData` returns after the round that brings
  the first result, whether or not all blocks were sent.
- `irp` has eight bits: a file that ends beyond byte 255 is sent again from its
  beginning. `SentInOrder` is stated for shorter files.
- A worker that is ready after the last block is sent a block of no bytes;
  `i2c_readReg` with length 0 counts up to `length - 1`, which wraps around, and
  overruns its buffer.
- `output->end` moves by one byte less than was written, so that every result loses
  its last byte to the next one; `ResultsKept` states what is kept. The number of
  blocks goes there too, and is itself overwritten if another result comes in
  the same round. The pointer moves on when a write has failed as well, and what was
  not stored stays as it was in the middle of the file.
- A callback that prints between the check of `CDC_Device_SendByte` and its write can
  take the room that was found, and the byte is lost; one that prints inside
  `CDC_Device_ReceiveByte` can put a byte into the text that the host did not send.
  `PrintedArrives` and `StoredInOrder` allow one for every callback.
- Without workers `processData` never returns; and `block` wraps around if a round
  takes it past 255, which `ResultsBounded` and `CallEnds` except (`Countable`).

### Bounds

- Four letters and six bytes give every shape of tree of up to four leaves, equal
  and unequal weights, and weights that grow after a node was queued. The alphabet
  has six letters, all used by the block of `huffman/main.c`, so that the memory of
  the tree is filled to the last node. The block of `Steep` has Fibonacci-like
  weights, which make the deepest tree for its length.
- Three workers: two that probe the same address while a third holds it. The
  FRAM lies two addresses above the first, within their reach.
- In `MCFramFS` the input file has room for six bytes: three chunks, the flag,
  files of even and of odd length. `LIMIT` bounds it, at the start of the output
  file. `FORMATTED` is less than `SIZE`, as in the code. No byte of a chunk is NUL or
  `%`: `strlen` and `printf(buffer)` treat those specially.
- A hold of two delays in place of ten shortens the count only.
- In `MCTwiBus` the offsets lie in the first and in the second page of the FRAM,
  and the longest write does not fit into the buffer of a worker. 3 plays the part
  of 0xFF. Texts of every length come up: none, which stops the worker, some that fit,
  and some whose result fills `out_buffer` without a NUL or reaches beyond it.
- In `MCDispatch` the input files are without text, of blocks and a rest,
  and too long for `irp`; the third worker and the
  largest result do not fit into their arrays. The output file has room for the
  results of the rounds that the counts allow. A write stores any beginning of its
  bytes.
- In `MCSerialPort` a packet is longer than a chunk and no multiple of it, and what two
  calls and a callback print makes up to four packets, so that banks fill
  in the middle of either's message; two calls let a second input meet what
  the first left. The callback prints two bytes and can come at any point; the theorems
  are for any number of callbacks.

### Fairness

- `HuffmanTree`, `HuffmanCodec`, `Dispatch`: sequential code that goes on; weak
  fairness of the next step. `CallEnds` of `Dispatch` has results that keep coming as
  its premise.
- `WorkerAddressing`: the loops of `auto_address` and `scan_i2c` go on once
  entered; nobody need press a button or start a scan.
- `FramFS`: a command goes on with its bus transactions; the host need not send
  anything and need not end the input.
- `Buttons`: the handler runs when it is due, the loop when the handler does not
  run. Nothing is assumed of the pins: `HoldingFormats` and `LongPressOfC` have
  their own premises.
- `TwiBus`: the driver, the answer of the hardware to a probe, and the processor of
  the worker each go on; nobody need call.
- `SerialPort`: the controller goes on; the host need neither send nor read.
  `BankIsFlushed` has a host that reads as its premise.

The codec and `processData` end, so a stop is no deadlock there; on the bus a job may
stop the worker for good, which then holds the clock. In all other runs deadlock is
checked.

## Proofs

**HuffmanTree_proofs**, for every finite alphabet and every block over it. `Forest`
and `NodeAccounting` are inductive together with `TypeOK`; that is the invariant
`IInv`. The merge is the hard case: the two nodes taken off the queue become
children of a fresh node, and everything else keeps its parent. Leaves carry
distinct bytes of the alphabet, so there are at most `ALPHABET_SIZE` of them, and
with nodes + queued = 2 * leaves and a queue that is never empty there are at
most `TREE_MAX_SIZE` nodes: `TreeMemorySuffices`. As every node takes one queue
cell, `QueueCellsNeeded` gives both when the queue array is large enough and the
size at which it would always be. `WeightsCorrect` rests on `Weighed`: a leaf weighs as
often as its byte has been counted, an inner node what its children weigh modulo the width
of the counter; that this sum never wraps follows by induction on the subtrees, as the
leaves below a node count different bytes of the block. `BuildProgress` bounds the two
loops: what is left to count, twice, plus the length of the queue falls with every step.

The weights and the walks are recursive, and the library's induction theorems cannot be
instantiated here. The module goes back to the least element of a set of
naturals: the nodes that lack a property are a set, and it has a least one.
`Upwards`, `Downwards` and `TreeInduction` are the forms the proofs use; `NodeRecursion`
shows, with `Computes`, that a recursion on older nodes defines a function, so
that the recursive definitions can be expanded. On it rest the lemmas on the
walks: `words` of a node are the pairs of a byte and the way down to its leaf; the table of
`build_encoding_table` holds them as codes, the serialised tree is as long as the subtree is
large, and `deserialize_tree` finds the end of each subtree. The module ends with the lemmas on
bits and bytes and on the finished tree that `huffman_compress` hands to the encoder.

**HuffmanCodec_proofs**, for every alphabet, every block and every outcome of the
undefined shift, within `CodecAssumption`. The invariant has four parts. `TreeInv`: the tree is that of
`HuffmanTree` (`CodecBuildsTree` says so of whole behaviours). `EncodeInv`: the
table holds the words of the finished tree. `StreamInv`: the stream consists of
the three bytes in front, the tree and the bits, each where `Written` says, and the decoder
stands at a node of the tree it has read. From these follow `CodecTypeCorrect` and
`StreamLayoutCorrect`. `RoundInv`, for codes of at most eight bits: the bits are the words of
the block one after another (`Spells` has their offsets), and the decoder has written
a prefix of the block, what it has still to read of the present word leads from its node
to the leaf of the next byte (`Reading`). This gives `RoundTripCorrect` (with short codes
a block of two letters or more comes back), `OneLetterLost` (of a block of one letter
nothing comes back, as its code has no bits) and `ReadsWithinCorrect`
(the decoder, which tests for more bits only between two bytes, stops at the
last one). `NineLettersSurvive` removes the premise on the codes: a tree of at most nine leaves is
at most eight deep, whatever the weights. `Steep` shows that ten letters are too many.
What remains true of long codes is `OverrunBounded`: a child is serialised behind its
parent, so within one byte the decoder goes forward through a tree of at most 255
nodes and can overrun the stream by no more bits than that (`ReadInv`). With it every loop of
the codec has a bound, and `CodecProgress` says that each step comes nearer to it.

**WorkerAddressing_proofs**, for every set of workers.
- `UniqueCorrect`: the invariant adds that, as long as nothing overlapped or was
  lost, the address of a worker that is about to claim is free, and that at most
  one worker is inside `auto_address`.
- `NoGapsCorrect`: an address once held stays held, as a worker moves on only from
  an address that another one acknowledges; the invariant `GapInv` adds that a
  worker not yet addressed is at `BASE`.
- `ScanCorrect` adds that every recorded address stays held, and follows from the
  absence of gaps: what the scan has not reached lies above an address nobody
  holds.

**Buttons_proofs**, for every `HOLD`. `StatusIsTrue` speaks of quiet moments only;
the invariant adds that the flags always follow `pinb_previous`, and that a
sample or an accepted value that is out of date has made the interrupt due.
`FlagsExcludeHolds` follows from it: in a button that has one flag a toggle meets the
flag it is to clear.
`TypeCorrect` needs that the count exceeds `HOLD` only inside a command.

**FramFS_proofs**, for every size of the FRAM, layout, chunk size and set of texts,
from `CarefulUse`. `FSInv` says how the extents in RAM and on the FRAM are related
at each point of each call: during an input both enclose text and the end in RAM is
ahead by what was written, during a format the recorded ones are zero from the first
write on, and at any other time each is zero or encloses a whole file. On it rest
`TypeCorrect`, `DurableInputHolds` (each step is a step of `DurableLog` or a stutter,
the lemmas about `Put` and `Get` say that a write behind the end extends what is read
and touches nothing else) and `PrintedIsFileHolds`, whose invariant `PrintOK` says
that what is printed is the file up to `address`. The flag is part of the file, hence
`FlagIsPrinted`.

**Dispatch_proofs**, for every width of the counters, block size, buffer size, number
of workers and answer. `Fresh`: nothing is sent or collected before the loop.
`ResultsBoundedHolds` rests on `BoundInv`: when the i-th worker is polled, the round
has brought at most i results to the fewer than `block_count` it began with.
`ResultsKeptHolds` rests on `Below`: every result lies below the write pointer but for its
last byte, however much of it was stored. `SentInOrderHolds` rests on `SentInv`: the blocks
sent cover the file exactly up
to `irp`, which is why a fresh block meets none of them; and on `Textless`: for a file
without text, where `irp` starts behind the end, no block is counted and nobody is
asked. `RoundsEnd`: a round over the
workers takes at most three steps for each; the loop around it has no bound, as it waits for
the workers' results.

**TwiBus_proofs**, for every width of a byte, size of the FRAM, set of calls and
results of the jobs. `StoresInOrderHolds` is the refinement to `ByteStore`. Its
invariant `BusInv` ties the three parties together: where the controller is in which
call (`CallInv`); on the FRAM, that the pointer is the offset plus what was sent
(`FramInv`); on a worker, that at most one byte is under way and that `buffer_address`
is ahead of the offset by the bytes stored, one more after the handler has run
(`WorkerInv`). That 0xFF is also the mark for "no address" does no harm because the
worker stops acknowledging one byte before it would be read as such.
The theorems on reads build on `BusInv`. `ReadOfFramHolds` rests on `FramRead`: as long
as no byte was missed, the pointer of the FRAM is the offset plus what was read.
`ReadsOneResultHolds` rests on `WorkerRead`: a job belongs to what `in_buffer` holds, the
handler that answers the second address has waited for it, and from then on no
job runs until the read is over; where the bytes lie is `ReadPlace`. `ReadCall` bounds the read, so that the handler never
takes the place it sends for the mark 0xFF. `TypeCorrect` adds that the pointer of
the FRAM stays below `SIZE`, and shows that `strlen` always finds an end and that the result of a
job fits `out_buffer`, status byte included. `CallsAreBounded` counts the steps left of a
write or a read: three for each of the controller's, as an event it raises costs the
worker a run of the handler and perhaps a job before the next. The count falls with every step
of either party. A probe has no such bound, since `i2c_start_timeout` goes round
until the bus has answered.

**SerialPort_proofs**, for every text, packet size, chunk size, message, number of callbacks
and pace of the host. `Shape` has the types that the steps rest on.
`PrintedArrivesHolds` rests on `PrintInv`: the bytes of either writer that are with the
host or in the bank are in order and below the next one, and the ones that are missing
are counted as dropped or overrun; a `SendByte` of the main program that is about to write
finds room unless an interrupt came since its check, and that interrupt has cost no byte
yet, so that no more bytes are overrun than interrupts came.
`StoredInOrderHolds` rests on `Place` and `Stored`: what is stored, in the buffer of
`fgets`, in hand and in the bank is in order, and with what was lost it is all that was
sent; each foreign byte belongs to an interrupt of its own, as `ReceiveByte` selects the
OUT endpoint anew before the next; the line at hand is shorter than a chunk and has no
newline while `fgets` runs, and only calls that have ended have lost anything.
`TypeCorrect` adds `Bounds`: no bank ever holds more than a packet, since a putchar
that waited for the bank finds it empty, or finds it taken and its byte gone.

Assumptions on constants are the named `ASSUME`s of the modules: natural numbers,
sizes in a sensible order, calls and texts of the right type; in `BusAssumption`
and `CallAssumption` that calls lie within the memory they address; in
`HuffmanAssumption` that what a job writes are bytes.

Every invariant, action property and refinement that a passing run checks has a theorem,
`RoundTrip` under the premise that the codes are short, without which `Steep` refutes it.
Only model-checked: all liveness properties, since they need reasoning about fairness
and `ENABLED`. `BuildProgress`, `CodecProgress`, `RoundsEnd` and `CallsAreBounded` are what can be
proved of `CodecTerminates`, `CallEnds` and `CallReturns`: no endless run of steps inside
those loops. That a step is possible whenever one is left, and is taken, is for TLC.

## Not modelled

- Power loss inside a bus transaction, and transactions that fail, in `FramFS`:
  `TwiBus` shows what they leave on the device, but the two are not combined.
- A button held down while the board boots.
- In `SerialPort`: what is printed by other commands, by the scan, at boot and by the
  driver when a bus transaction fails. They go through the same putchar.
- The USB stack below the byte stream: enumeration, control requests, disconnection
  and descriptors. `src/lufa` is a vendored copy of the LUFA library, with drivers for
  other boards and classes, demos and bootloaders. It makes up nearly all of the lines
  under `src/`, and almost none of them are on a path of this program. The few that
  carry the byte stream are in `SerialPort`; a model of the rest would be
  one of another project. Hence the modules cover most of the project's own code
  and only a small share of all lines in the tree.
- `main/lufa.c` (serial console), `checkButtons`, `read_data`, `i2c_start_wait`,
  `i2c_transmit`, `i2c_receive`, `i2c_rep_start`: called by nobody.
- LEDs and the printing of trees: output only.
