------------------------------ MODULE Dispatch ------------------------------
(***************************************************************************)
(* One call of processData (main/main.c): the controller cuts the input    *)
(* file into blocks, hands them to the workers it polls in turn, and       *)
(* writes what they return to the output file.  A step is a call of        *)
(* i2c_readReg or i2c_writeReg, or a few, with the code around it.         *)
(*                                                                         *)
(* The answer of a worker is arbitrary, and so is the content of the input *)
(* file; both calls may fail, which nobody looks at: a read then leaves    *)
(* what was there, and a write has stored some of its bytes, or none.      *)
(* "undefined" is where an array is overrun, also by a read of 0 bytes:    *)
(* the last index of i2c_readReg is length - 1.                            *)
(***************************************************************************)
EXTENDS Integers, Sequences

CONSTANTS W, W16,       \* the values of a uint8_t, 256, and of a uint16_t
          BLOCK_SIZE,   \* 128
          BUFFER,       \* bytes of in_buffer and out_buffer, 256
          ARRAY,        \* workers that fit into the array, 10
          START,        \* where the input file starts, 8
          InputEnds,    \* where it may end
          SIZE,         \* bytes of the output file
          Written,      \* how many of them earlier calls may have written
          Found,        \* bound of the model: workers on the bus
          Counts,       \* bound of the model: block counts in a compressed file
          Sizes         \* bound of the model: sizes of a result or compressed block

ASSUME WidthAssumption ==
  /\ {W, W16, BLOCK_SIZE, BUFFER, ARRAY, START, SIZE} \subseteq Nat
  /\ W <= W16 /\ 0 < BLOCK_SIZE /\ BLOCK_SIZE + 2 <= BUFFER /\ START + 1 < W
  /\ InputEnds \subseteq Nat /\ \A e \in InputEnds : START <= e
  /\ Written \subseteq Nat /\ Found \subseteq Nat
  /\ Counts \subseteq 0..W - 1 /\ Sizes \subseteq 0..W - 1

VARIABLES pc, job, input_end,
          out, output_end,     \* the output file, by the record each byte is of
          worker_count, block_count,
          n,                   \* the loop counter of sequence_blocks
          i, block, irp,
          status, bytes_in,    \* the head of in_buffer
          sent,                \* the raw blocks given to i2c_writeReg, or the last compressed one
          records              \* the results written to the output file

setup == <<job, input_end, worker_count, block_count, n>>
output == <<out, output_end, records>>
counters == <<i, block, irp>>
answer == <<status, bytes_in>>
vars == <<pc, setup, output, counters, answer, sent>>

\* Mutation: irp is an int.
uint8_wide(x) == x

\* irp and block wrap around.
uint8(x) == x % W

BLANK == -1
FLAG == 0     \* '#'
COUNT == -2   \* the number of blocks

Init ==
  /\ pc = "job" /\ job = "DECODE" /\ input_end \in InputEnds
  /\ out = [a \in 0..SIZE - 1 |-> BLANK] /\ output_end \in Written
  /\ worker_count = 0 /\ block_count = 0 /\ n = 0
  /\ i = 0 /\ block = 0 /\ irp = 0
  /\ status = "busy" /\ bytes_in = 0
  /\ sent = {} /\ records = <<>>

Put(a, size, tag) == [b \in DOMAIN out |-> IF b \in a..a + size - 1 THEN tag ELSE out[b]]

-----------------------------------------------------------------------------
(* Before the loop                                                         *)

\* Also an empty file may begin with '*': the one whose input was cut short by a
\* power failure.
ReadJob ==
  /\ pc = "job" /\ pc' = "scan"
  /\ \/ /\ job' = "ENCODE"
        /\ \E stored \in 0..1 : out' = Put(0, stored, FLAG)
        /\ output_end' = output_end + 1
     \/ job' = "DECODE" /\ UNCHANGED <<out, output_end>>
  /\ UNCHANGED <<input_end, worker_count, block_count, n, records, counters, answer, sent>>

scan_i2c ==
  /\ pc = "scan"
  /\ worker_count' \in Found
  /\ pc' = IF worker_count' <= ARRAY THEN "count" ELSE "undefined"
  /\ UNCHANGED <<job, input_end, block_count, n, output, counters, answer, sent>>

\* The sum is the condition of the ?: operator.
BlockCount ==
  /\ pc = "count"
  /\ \/ /\ job = "ENCODE" /\ pc' = "start"
        /\ LET length == input_end - START
           IN  block_count' = IF (length \div BLOCK_SIZE) + (length % BLOCK_SIZE) # 0 THEN 1 ELSE 0
     \/ job = "DECODE" /\ block_count' \in Counts \cup {0} /\ pc' = "sequence"
  /\ UNCHANGED <<job, input_end, worker_count, n, output, counters, answer, sent>>

\* What it records nobody reads: a block is selected by its number, which is not
\* checked.
sequence_blocks ==
  /\ pc = "sequence"
  /\ IF n < block_count
     THEN n' = n + 1 /\ \E seq_num \in 0..(W \div 2) - 1 :
                          pc' = IF seq_num < block_count THEN "sequence" ELSE "undefined"
     ELSE n' = n /\ pc' = "start"
  /\ UNCHANGED <<job, input_end, worker_count, block_count, output, counters, answer, sent>>

Start ==
  /\ pc = "start" /\ pc' = "loop"
  /\ irp' = uint8(START + 1)
  /\ block' = 0
  /\ UNCHANGED <<setup, output, i, answer, sent>>

-----------------------------------------------------------------------------
(* The loop over the blocks, and in it the loop over the workers           *)

\* Mutation: one block too many is waited for.
MoreBlocks_one == block <= block_count

MoreBlocks == block < block_count

\* Without workers it spins.
Loop ==
  /\ pc = "loop"
  /\ pc' = IF ~ MoreBlocks THEN "done" ELSE IF worker_count = 0 THEN "loop" ELSE "poll"
  /\ i' = 0
  /\ UNCHANGED <<setup, output, block, irp, answer, sent>>

\* Mutation: a worker that is ready has nothing to send.
HasData_busy(s, size) == size # 0 /\ s = "busy"

HasData(s, size) == size # 0

\* A poll that fails leaves the answer of another worker in in_buffer.
Poll ==
  /\ pc = "poll"
  /\ \/ status' \in {"busy", "ready"} /\ bytes_in' \in Sizes
     \/ UNCHANGED <<status, bytes_in>>
  /\ pc' = IF HasData(status', bytes_in') THEN "collect" ELSE "send"
  /\ UNCHANGED <<setup, output, counters, sent>>

\* Mutation: the header is not counted.
Past_header(size) == output_end + size

\* One less than was written.
Past(size) == output_end + size + 1

\* The result, header included, and behind the last one the number of blocks, as far
\* as they are stored.
Collected(size, stored, counted) ==
  LET written == Put(output_end, stored, Len(records) + 1)
  IN  IF block + 1 = block_count /\ counted
      THEN [written EXCEPT ![Past(size)] = COUNT] ELSE written

Collect ==
  /\ pc = "collect"
  /\ IF bytes_in + 2 > BUFFER
     THEN pc' = "undefined" /\ UNCHANGED <<output, block>>
     ELSE /\ \E stored \in 0..bytes_in + 2, counted \in BOOLEAN :
               /\ out' = Collected(bytes_in, stored, counted)
               /\ records' = Append(records, [at |-> output_end, size |-> bytes_in, stored |-> stored])
          /\ output_end' = Past(bytes_in)
          /\ block' = uint8(block + 1)
          /\ pc' = "send"
  /\ UNCHANGED <<setup, i, irp, answer, sent>>

\* The next worker, or the head of the outer loop
Advance == i' = i + 1 /\ pc' = IF i' < worker_count THEN "poll" ELSE "loop"

NotReady ==
  /\ pc = "send" /\ status = "busy"
  /\ Advance
  /\ UNCHANGED <<setup, output, block, irp, answer, sent>>

\* (block << 1) | job, where ENCODE is 2
Header == uint8(2 * block + (IF job = "ENCODE" /\ block % 2 = 0 THEN 2 ELSE 0))

Send(at, size) ==
  /\ IF size = 0 \/ size + 2 > BUFFER
     THEN pc' = "undefined" /\ UNCHANGED <<i, irp, sent>>
     ELSE /\ sent' = (IF job = "ENCODE" THEN sent ELSE {})
                      \cup {[at |-> at, size |-> size, header |-> Header]}
          /\ irp' = uint8(at + size)
          /\ Advance
  /\ UNCHANGED <<setup, output, block, answer>>

\* Mutation: the last block is a full one.
BytesLeft_full == BLOCK_SIZE

\* Subtracted in uint16_t
BytesLeft ==
  LET left == (input_end - irp) % W16 IN IF left > BLOCK_SIZE THEN BLOCK_SIZE ELSE left

SendRaw ==
  /\ pc = "send" /\ status = "ready" /\ job = "ENCODE"
  /\ Send(irp, BytesLeft)

SendCompressed ==
  /\ pc = "send" /\ status = "ready" /\ job = "DECODE"
  /\ \E size \in Sizes : Send(uint8(irp + 1), size)

Before == ReadJob \/ scan_i2c \/ BlockCount \/ sequence_blocks \/ Start
Body == Loop \/ Poll \/ Collect \/ NotReady \/ SendRaw \/ SendCompressed

Next == Before \/ Body

\* processData waits for nothing; the workers need not have results.
Spec == Init /\ [][Next]_vars /\ WF_vars(Next)

-----------------------------------------------------------------------------

\* Every variable has its type.
TypeOK ==
  /\ pc \in {"job", "scan", "count", "sequence", "start", "loop", "poll", "collect", "send",
             "done", "undefined"}
  /\ job \in {"ENCODE", "DECODE"} /\ input_end \in InputEnds
  /\ DOMAIN out = 0..SIZE - 1 /\ output_end \in Nat
  /\ worker_count \in Nat /\ block_count \in 0..W - 1 /\ n \in 0..W - 1
  /\ i \in Nat /\ block \in 0..W - 1 /\ irp \in 0..W - 1
  /\ status \in {"busy", "ready"} /\ bytes_in \in 0..W - 1
  /\ sent \subseteq [at : 0..W - 1, size : 1..BUFFER, header : 0..W - 1]
  /\ records \in Seq([at : Nat, size : 0..BUFFER, stored : 0..BUFFER])

Bytes(b) == b.at..b.at + b.size - 1
Kept(r) == {a \in r.at..r.at + r.size : a < r.at + r.stored}
Looping == pc \in {"loop", "poll", "collect", "send", "done"}

\* A raw file that a uint8_t can address is cut into blocks of which no two
\* overlap, that are within the file and leave out nothing up to irp, whoever
\* asks for work and whenever; the read of 0 bytes comes when all are sent.  Of a
\* file without text, although irp is past its end, no block is cut.
SentInOrder ==
  job = "ENCODE" /\ input_end < W =>
    /\ \A a, b \in sent : a # b => Bytes(a) \cap Bytes(b) = {}
    /\ \A b \in sent : b.size <= BLOCK_SIZE
    /\ Looping => /\ UNION {Bytes(b) : b \in sent} = START + 1..irp - 1
                  /\ irp <= input_end \/ (input_end = START /\ sent = {})
    /\ pc = "undefined" /\ worker_count <= ARRAY /\ bytes_in + 2 <= BUFFER => irp = input_end

\* The pointer into the output file is moved by one byte less than the result has,
\* also when its write fails half way: of every result, header included, what was
\* stored is kept but for the last byte, whatever is written behind it, the number
\* of blocks included, and nothing is written over the flag in front, as long as
\* the file has room.
ResultsKept ==
  output_end < SIZE =>
    /\ \A k \in 1..Len(records) : \A a \in Kept(records[k]) : out[a] = k
    /\ job = "ENCODE" => out[0] \in {FLAG, BLANK}

\* block does not wrap around, not even in the round that reaches block_count.
Countable == block_count + worker_count <= W

\* Results that come in the same round are all taken: there may be more of them
\* than blocks were counted, but for every worker at most one.
ResultsBounded ==
  Countable /\ records # <<>> => Len(records) < block_count + worker_count

\* The call ends if it has workers and they return results again and again.
CallEnds ==
  (pc = "loop" /\ worker_count > 0 ~> pc \in {"done", "undefined"} \/ bytes_in # 0)
    => (pc = "loop" /\ worker_count > 0 /\ Countable ~> pc \in {"done", "undefined"})

\* "an additional byte containing the job code and a sequencing number is prefixed,
\* so that the worker boards can determine whether the sent block should be
\* compressed or inflated, while keeping track of the sequence of the blocks"
\* (readme.md); a worker takes the job from bit 1 (ISR(TWI_vect)).
HeaderTells ==
  /\ \A b \in sent : (b.header \div 2) % 2 = 1 <=> job = "ENCODE"
  /\ \A a, b \in sent : a.header = b.header => a = b
==============================================================================
