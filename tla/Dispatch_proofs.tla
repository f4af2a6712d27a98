--------------------------- MODULE Dispatch_proofs ---------------------------
(***************************************************************************)
(* processData for any width of a byte, any block size, any number of      *)
(* workers and any answers of theirs.  DispatchInv adds to SentInOrder     *)
(* that nothing is sent before the loop, to ResultsKept that every result  *)
(* lies below the write pointer, and to ResultsBounded how many results a  *)
(* round can have brought when the i-th worker is polled.                  *)
(***************************************************************************)
EXTENDS Dispatch, TLAPS

\* The constants, one by one.
LEMMA Constants ==
  /\ W \in Nat /\ W16 \in Nat /\ BLOCK_SIZE \in Nat /\ BUFFER \in Nat /\ ARRAY \in Nat
  /\ START \in Nat /\ SIZE \in Nat /\ W <= W16 /\ 0 < BLOCK_SIZE /\ BLOCK_SIZE + 2 <= BUFFER
  /\ START + 1 < W /\ InputEnds \subseteq Nat /\ Written \subseteq Nat /\ Found \subseteq Nat
  /\ Counts \subseteq 0..W - 1 /\ Sizes \subseteq 0..W - 1
  /\ \A e \in InputEnds : START <= e
  BY WidthAssumption

\* What a uint8_t holds is within its width, and a value within it is kept.
LEMMA Uint8 ==
  ASSUME NEW x \in Nat
  PROVE  uint8(x) \in 0..W - 1 /\ (x < W => uint8(x) = x)
  BY Constants DEF uint8

\* What is left of the file is subtracted in a uint16_t, which is wide enough.
LEMMA Left ==
  ASSUME TypeOK
  PROVE  /\ BytesLeft \in 0..BLOCK_SIZE
         /\ irp <= input_end /\ input_end < W =>
              irp + BytesLeft <= input_end /\ (BytesLeft = 0 => irp = input_end)
<1>1. irp \in Nat /\ input_end \in Nat /\ W16 \in Nat \ {0} /\ BLOCK_SIZE \in Nat /\ W <= W16
  BY Constants DEF TypeOK
<1>2. (input_end - irp) % W16 \in Nat
  BY <1>1
<1>3. irp <= input_end /\ input_end < W => (input_end - irp) % W16 = input_end - irp
  BY <1>1, Constants
<1>. QED
  BY <1>1, <1>2, <1>3, Constants DEF BytesLeft

\* The header byte is a byte.
LEMMA HeaderType == ASSUME TypeOK PROVE Header \in 0..W - 1
<1>1. 2 * block \in Nat /\ 2 * block + 2 \in Nat
  BY Constants DEF TypeOK
<1>. QED
  BY <1>1, Uint8 DEF Header

\* Sending a block, raw or compressed, keeps the types.
LEMMA SendType ==
  ASSUME TypeOK, NEW at \in 0..W - 1, NEW size \in Nat, Send(at, size)
  PROVE  TypeOK'
<1>0. size = 0 \/ size + 2 > BUFFER \/ (size \in 1..BUFFER /\ at + size \in Nat)
  BY Constants
<1>. USE DEF TypeOK, Send, Advance, setup, output, answer
<1>1. CASE size = 0 \/ size + 2 > BUFFER
  BY <1>1, SMTT(30)
<1>2. CASE ~ (size = 0 \/ size + 2 > BUFFER)
  <2>1. size \in 1..BUFFER /\ at + size \in Nat
    BY <1>0, <1>2
  <2>2. sent' \subseteq [at : 0..W - 1, size : 1..BUFFER, header : 0..W - 1]
    BY <1>2, <2>1, HeaderType, SMTT(30)
  <2>3. irp' \in 0..W - 1
    BY <1>2, <2>1, Uint8, Zenon
  <2>. QED
    BY <1>2, <2>2, <2>3, SMTT(30)
<1>. QED
  BY <1>1, <1>2

\* Every step of processData keeps the types.
LEMMA TypeStep == TypeOK /\ [Next]_vars => TypeOK'
<1>. SUFFICES ASSUME TypeOK, [Next]_vars PROVE TypeOK'
  OBVIOUS
<1>. USE DEF TypeOK, setup, output, counters, answer
<1>1. CASE ReadJob
  BY <1>1 DEF ReadJob, Put
<1>2. CASE scan_i2c
  BY <1>2, Constants DEF scan_i2c
<1>3. CASE BlockCount
  <2>0. block_count' \in {0, 1} \/ block_count' \in Counts \cup {0}
    BY <1>3, Zenon DEF BlockCount
  <2>1. block_count' \in 0..W - 1
    <3>1. 0 \in 0..W - 1 /\ 1 \in 0..W - 1 /\ Counts \subseteq 0..W - 1
      BY Constants
    <3>. QED
      BY <2>0, <3>1, Zenon
  <2>. QED
    BY <1>3, <2>1 DEF BlockCount
<1>4. CASE sequence_blocks
  <2>1. n' \in 0..W - 1
    BY <1>4, Constants DEF sequence_blocks
  <2>2. pc' \in {"sequence", "undefined", "start"}
    BY <1>4, Zenon DEF sequence_blocks
  <2>. QED
    BY <1>4, <2>1, <2>2 DEF sequence_blocks
<1>5. CASE Start
  BY <1>5, Constants, Uint8 DEF Start
<1>6. CASE Loop
  BY <1>6 DEF Loop
<1>7. CASE Poll
  BY <1>7, Constants, Zenon DEF Poll
<1>8. CASE Collect
  <2>1. CASE bytes_in + 2 > BUFFER
    BY <1>8, <2>1 DEF Collect
  <2>2. CASE ~ bytes_in + 2 > BUFFER
    <3>0. PICK stored \in 0..bytes_in + 2, counted \in BOOLEAN :
               /\ out' = Collected(bytes_in, stored, counted)
               /\ records' = Append(records, [at |-> output_end, size |-> bytes_in, stored |-> stored])
      BY <1>8, <2>2, Zenon DEF Collect
    <3>1. /\ output_end' = Past(bytes_in)
          /\ block' = uint8(block + 1) /\ pc' = "send"
          /\ UNCHANGED <<setup, i, irp, answer, sent>>
      BY <1>8, <2>2 DEF Collect
    <3>2. bytes_in \in 0..BUFFER /\ block + 1 \in Nat /\ stored \in 0..BUFFER
      BY <2>2, <3>0, Constants
    <3>3. block' \in 0..W - 1
      BY <3>1, <3>2, Uint8
    <3>4. output_end' \in Nat
      BY <3>1, <3>2 DEF Past
    <3>5. DOMAIN out' = 0..SIZE - 1
      BY <3>0 DEF Collected, Put
    <3>6. records' \in Seq([at : Nat, size : 0..BUFFER, stored : 0..BUFFER])
      BY <3>0, <3>2
    <3>. QED
      BY <3>1, <3>3, <3>4, <3>5, <3>6
  <2>. QED
    BY <2>1, <2>2
<1>9. CASE NotReady
  BY <1>9 DEF NotReady, Advance
<1>10. CASE SendRaw
  <2>1. BytesLeft \in Nat /\ irp \in 0..W - 1
    BY Left, Constants
  <2>. QED
    BY <1>10, <2>1, SendType, Zenon DEF SendRaw
<1>11. CASE SendCompressed
  <2>1. PICK size \in Sizes : Send(uint8(irp + 1), size)
    BY <1>11 DEF SendCompressed
  <2>2. size \in Nat /\ uint8(irp + 1) \in 0..W - 1
    BY <2>1, Uint8, Constants
  <2>. QED
    BY <2>1, <2>2, SendType, Zenon
<1>12. CASE UNCHANGED vars
  BY <1>12 DEF vars
<1>. QED
  BY <1>1, <1>2, <1>3, <1>4, <1>5, <1>6, <1>7, <1>8, <1>9, <1>10, <1>11, <1>12
  DEF Next, Before, Body

\* processData keeps every variable within its type, whatever the workers answer.
THEOREM TypeCorrect == Spec => []TypeOK
<1>1. Init => TypeOK
  BY Constants DEF Init, TypeOK
<1>. QED
  BY <1>1, TypeStep, PTL DEF Spec

-----------------------------------------------------------------------------
(* What is sent and collected: nothing before the loop.                    *)

BeforeLoop == pc \in {"job", "scan", "count", "sequence", "start"}

Fresh ==
  /\ BeforeLoop => sent = {} /\ records = <<>>
  /\ pc = "job" => out = [a \in 0..SIZE - 1 |-> BLANK]
  /\ pc = "sequence" => job = "DECODE"
  /\ pc \in {"poll", "collect", "send"} => i < worker_count

\* Only the loop sends and collects, and i counts the workers in it.
LEMMA FreshStep == TypeOK /\ Fresh /\ [Next]_vars => Fresh'
<1>. SUFFICES ASSUME TypeOK, Fresh, [Next]_vars PROVE Fresh'
  OBVIOUS
<1>. USE DEF Fresh, BeforeLoop, setup, output, counters, answer
<1>1. CASE ReadJob
  BY <1>1 DEF ReadJob
<1>2. CASE scan_i2c
  BY <1>2 DEF scan_i2c
<1>3. CASE BlockCount
  BY <1>3, Zenon DEF BlockCount
<1>4. CASE sequence_blocks
  <2>1. pc' \in {"sequence", "undefined", "start"}
    BY <1>4, Zenon DEF sequence_blocks
  <2>. QED
    BY <1>4, <2>1 DEF sequence_blocks
<1>5. CASE Start
  BY <1>5 DEF Start
<1>6. CASE Loop
  BY <1>6 DEF Loop, TypeOK
<1>7. CASE Poll
  BY <1>7 DEF Poll
<1>8. CASE Collect
  BY <1>8 DEF Collect
<1>9. CASE NotReady
  BY <1>9 DEF NotReady, Advance
<1>10. ASSUME NEW at, NEW size, pc = "send", Send(at, size) PROVE Fresh'
  BY <1>10 DEF Send, Advance
<1>11. CASE SendRaw \/ SendCompressed
  BY <1>10, <1>11 DEF SendRaw, SendCompressed
<1>12. CASE UNCHANGED vars
  BY <1>12 DEF vars
<1>. QED
  BY <1>1, <1>2, <1>3, <1>4, <1>5, <1>6, <1>7, <1>8, <1>9, <1>11, <1>12
  DEF Next, Before, Body

\* Hence it holds throughout.
LEMMA FreshHolds == Spec => [](TypeOK /\ Fresh)
<1>1. Init => Fresh
  BY DEF Init, Fresh, BeforeLoop
<1>. QED
  BY <1>1, FreshStep, TypeStep, TypeCorrect, PTL DEF Spec

-----------------------------------------------------------------------------
(* How many results a call takes.                                          *)

\* When the i-th worker is polled the round has brought at most i results.
BoundInv ==
  Countable =>
    /\ Looping => block = Len(records)
    /\ pc \in {"poll", "collect"} => Len(records) < block_count + i
    /\ pc = "send" => Len(records) <= block_count + i
    /\ pc \notin {"poll", "collect", "send"} /\ records # <<>> =>
         Len(records) < block_count + worker_count

\* Every step keeps the number of results within the bound.
LEMMA BoundStep == TypeOK /\ Fresh /\ BoundInv /\ [Next]_vars => BoundInv'
<1>. SUFFICES ASSUME TypeOK, Fresh, BoundInv, [Next]_vars, Countable' PROVE BoundInv'
  BY DEF BoundInv
<1>0. /\ Len(records) \in Nat /\ block \in Nat /\ block_count \in Nat /\ i \in Nat
      /\ worker_count \in Nat /\ W \in Nat
  BY Constants DEF TypeOK
<1>1. CASE Before
  <2>1. CASE Start
    <3>1. records' = <<>> /\ block' = 0 /\ pc' = "loop"
      BY <2>1 DEF Start, output, Fresh, BeforeLoop
    <3>. QED
      BY <3>1 DEF BoundInv
  <2>2. CASE ReadJob \/ scan_i2c \/ BlockCount \/ sequence_blocks
    <3>1. records' = <<>>
      BY <2>2, Zenon DEF ReadJob, scan_i2c, BlockCount, sequence_blocks, output, Fresh, BeforeLoop
    <3>2. pc' \in {"scan", "count", "sequence", "start", "undefined"}
      BY <2>2, Zenon DEF ReadJob, scan_i2c, BlockCount, sequence_blocks
    <3>. QED
      BY <3>1, <3>2 DEF BoundInv, Looping
  <2>. QED
    BY <1>1, <2>1, <2>2 DEF Before
<1>2. CASE Body
  <2>1. /\ UNCHANGED <<block_count, worker_count>> /\ Countable
        /\ block = Len(records) /\ pc \in {"loop", "poll", "collect", "send"}
    <3>1. UNCHANGED <<block_count, worker_count>> /\ pc \in {"loop", "poll", "collect", "send"}
      BY <1>2 DEF Body, Loop, Poll, Collect, NotReady, SendRaw, SendCompressed, Send, setup
    <3>. QED
      BY <3>1 DEF Countable, BoundInv, Looping
  <2>2. CASE Loop
    BY <1>0, <2>1, <2>2 DEF Loop, MoreBlocks, BoundInv, Looping, output
  <2>3. CASE Poll
    BY <1>0, <2>1, <2>3 DEF Poll, BoundInv, Looping, output, counters
  <2>4. CASE Collect
    <3>1. Len(records) < block_count + i /\ i < worker_count
      BY <2>1, <2>4 DEF Collect, BoundInv, Fresh
    <3>2. Len(records) + 1 < W
      BY <1>0, <2>1, <3>1 DEF Countable
    <3>3. CASE bytes_in + 2 > BUFFER
      BY <1>0, <2>1, <2>4, <3>1, <3>3 DEF Collect, BoundInv, Looping, output
    <3>4. CASE ~ bytes_in + 2 > BUFFER
      <4>0. PICK r \in [at : Nat, size : Nat, stored : Nat] : records' = Append(records, r)
        <5>1. output_end \in Nat /\ bytes_in \in Nat /\ 0..bytes_in + 2 \subseteq Nat
          BY DEF TypeOK
        <5>. QED
          BY <2>4, <3>4, <5>1 DEF Collect
      <4>1. block' = uint8(block + 1) /\ pc' = "send" /\ i' = i
        BY <2>4, <3>4 DEF Collect
      <4>2. block' = Len(records) + 1
        BY <1>0, <2>1, <3>2, <4>1, Uint8
      <4>3. Len(records') = Len(records) + 1
        BY <4>0 DEF TypeOK
      <4>. QED
        BY <1>0, <2>1, <3>1, <4>1, <4>2, <4>3 DEF BoundInv
    <3>. QED
      BY <3>3, <3>4
  <2>5. CASE NotReady \/ SendRaw \/ SendCompressed
    <3>1. UNCHANGED <<records, block>> /\ pc = "send"
      BY <2>5 DEF NotReady, SendRaw, SendCompressed, Send, output
    <3>2. pc' = "undefined" \/ Advance
      BY <2>5 DEF NotReady, SendRaw, SendCompressed, Send
    <3>3. Len(records) <= block_count + i /\ i < worker_count
      BY <2>1, <3>1 DEF BoundInv, Fresh
    <3>4. CASE pc' = "undefined"
      BY <1>0, <2>1, <3>1, <3>3, <3>4 DEF BoundInv, Looping
    <3>5. CASE Advance
      BY <1>0, <2>1, <3>1, <3>3, <3>5 DEF Advance, BoundInv, Looping
    <3>. QED
      BY <3>2, <3>4, <3>5
  <2>. QED
    BY <1>2, <2>2, <2>3, <2>4, <2>5 DEF Body
<1>3. CASE UNCHANGED vars
  BY <1>3 DEF vars, setup, output, counters, BoundInv, Countable, Looping
<1>. QED
  BY <1>1, <1>2, <1>3 DEF Next

\* processData takes fewer results than there are blocks and workers together,
\* for any number of both that a uint8_t can count.
THEOREM ResultsBoundedHolds == Spec => []ResultsBounded
<1>1. Init => BoundInv
  BY DEF Init, BoundInv, Looping
<1>2. TypeOK /\ Fresh /\ BoundInv => ResultsBounded
  <2>. SUFFICES ASSUME TypeOK, Fresh, BoundInv PROVE ResultsBounded
    OBVIOUS
  <2>1. /\ Len(records) \in Nat /\ block_count \in Nat /\ i \in Nat /\ worker_count \in Nat
    BY Constants DEF TypeOK
  <2>. QED
    BY <2>1 DEF Fresh, BoundInv, ResultsBounded
<1>. QED
  BY <1>1, <1>2, BoundStep, FreshHolds, PTL DEF Spec

-----------------------------------------------------------------------------
(* The output file.                                                        *)

\* Every result but its last byte lies below the write pointer, stored or not.
Below ==
  /\ \A k \in 1..Len(records) : records[k].at + records[k].size + 1 <= output_end
  /\ job = "ENCODE" => output_end >= 1

\* Every step keeps the results where they are.
LEMMA KeptStep ==
  TypeOK /\ Fresh /\ Below /\ ResultsKept /\ [Next]_vars => Below' /\ ResultsKept'
<1>. SUFFICES ASSUME TypeOK, Fresh, Below, ResultsKept, [Next]_vars
              PROVE  Below' /\ ResultsKept'
  OBVIOUS
<1>0. /\ output_end \in Nat /\ SIZE \in Nat /\ DOMAIN out = 0..SIZE - 1
      /\ bytes_in \in Nat /\ Len(records) \in Nat
      /\ \A k \in 1..Len(records) : records[k].at \in Nat /\ records[k].size \in Nat
  <2>1. ASSUME NEW k \in 1..Len(records) PROVE records[k] \in [at : Nat, size : 0..BUFFER, stored : 0..BUFFER]
    <3>. DEFINE R == [at : Nat, size : 0..BUFFER, stored : 0..BUFFER]
    <3>1. records \in Seq(R)
      BY DEF TypeOK
    <3>. HIDE DEF R
    <3>2. records[k] \in R
      BY <3>1
    <3>. QED
      BY <3>2 DEF R
  <2>2. ASSUME NEW k \in 1..Len(records) PROVE records[k].at \in Nat /\ records[k].size \in Nat
    BY <2>1, Constants
  <2>. QED
    BY <2>2, Constants DEF TypeOK
<1>1. CASE ReadJob
  <2>1. records = <<>> /\ records' = <<>> /\ out = [a \in 0..SIZE - 1 |-> BLANK]
    BY <1>1 DEF ReadJob, Fresh, BeforeLoop
  <2>2. CASE job' = "ENCODE"
    <3>1. PICK stored \in 0..1 : out' = Put(0, stored, FLAG)
      BY <1>1, <2>2 DEF ReadJob
    <3>2. output_end' = output_end + 1
      BY <1>1, <2>2 DEF ReadJob
    <3>3. output_end' < SIZE => 0 \in DOMAIN out
      BY <1>0, <3>2
    <3>4. output_end' < SIZE => out'[0] \in {FLAG, BLANK}
      BY <2>1, <3>1, <3>3 DEF Put
    <3>. QED
      BY <1>0, <2>1, <3>2, <3>4 DEF Below, ResultsKept
  <2>3. CASE job' = "DECODE" /\ UNCHANGED <<out, output_end>>
    BY <2>1, <2>3 DEF Below, ResultsKept
  <2>. QED
    BY <1>1, <2>2, <2>3 DEF ReadJob
<1>2. CASE Collect /\ ~ bytes_in + 2 > BUFFER
  <2>0. PICK stored \in 0..bytes_in + 2, counted \in BOOLEAN :
             /\ out' = Collected(bytes_in, stored, counted)
             /\ records' = Append(records, [at |-> output_end, size |-> bytes_in, stored |-> stored])
    BY <1>2, Zenon DEF Collect
  <2>1. output_end' = Past(bytes_in) /\ job' = job
    BY <1>2 DEF Collect, setup
  <2>2. output_end' = output_end + bytes_in + 1 /\ output_end' \in Nat /\ stored \in Nat
    BY <1>0, <2>0, <2>1 DEF Past
  <2>3. /\ Len(records') = Len(records) + 1
        /\ \A k \in 1..Len(records) : records'[k] = records[k]
        /\ records'[Len(records) + 1] = [at |-> output_end, size |-> bytes_in, stored |-> stored]
    BY <2>0 DEF TypeOK
  <2>4. ASSUME NEW k \in 1..Len(records') PROVE k \in 1..Len(records) \/ k = Len(records) + 1
    BY <1>0, <2>3
  <2>5. Below'
    BY <1>0, <2>1, <2>2, <2>3, <2>4, SMTT(30) DEF Below
  <2>6. ASSUME NEW a \in 0..SIZE - 1, a < output_end'
        PROVE  /\ a < output_end => out'[a] = out[a]
               /\ output_end <= a /\ a < output_end + stored => out'[a] = Len(records) + 1
    <3>1. a # Past(bytes_in) /\ a \in DOMAIN out
      BY <1>0, <2>1, <2>2, <2>6
    <3>2. out'[a] = Put(output_end, stored, Len(records) + 1)[a]
      BY <2>0, <3>1 DEF Collected, Put
    <3>3. a \in output_end..output_end + stored - 1 <=> output_end <= a /\ a < output_end + stored
      BY <1>0, <2>2, <2>6
    <3>. QED
      BY <1>0, <2>6, <3>1, <3>2, <3>3 DEF Put
  <2>7. ASSUME output_end' < SIZE, NEW k \in 1..Len(records'), NEW a \in Kept(records'[k])
        PROVE  out'[a] = k
    <3>1. CASE k \in 1..Len(records)
      <4>1. a \in Kept(records[k])
        BY <2>3, <3>1, <2>7
      <4>2. a < output_end /\ output_end < SIZE /\ a \in Nat
        <5>1. records[k].at + records[k].size + 1 <= output_end
          BY <3>1 DEF Below
        <5>2. records[k].at \in Nat /\ records[k].size \in Nat
          BY <1>0, <3>1
        <5>3. a \in records[k].at..records[k].at + records[k].size
          BY <4>1 DEF Kept
        <5>4. output_end < SIZE
          BY <1>0, <2>2, <2>7
        <5>5. a \in Nat /\ a <= records[k].at + records[k].size
          BY <5>2, <5>3
        <5>6. a < output_end
          BY <1>0, <5>1, <5>2, <5>5
        <5>. QED
          BY <5>4, <5>5, <5>6
      <4>3. out[a] = k
        BY <3>1, <4>1, <4>2 DEF ResultsKept
      <4>4. a \in 0..SIZE - 1 /\ a < output_end'
        BY <1>0, <2>2, <4>2
      <4>. QED
        BY <2>6, <4>2, <4>3, <4>4
    <3>2. CASE k = Len(records) + 1
      <4>1. a \in output_end..output_end + bytes_in /\ a < output_end + stored
        BY <2>3, <2>7, <3>2 DEF Kept
      <4>2. a \in 0..SIZE - 1 /\ a < output_end' /\ output_end <= a
        BY <1>0, <2>2, <2>7, <4>1
      <4>. QED
        BY <2>6, <3>2, <4>1, <4>2
    <3>. QED
      BY <2>4, <3>1, <3>2
  <2>8. ASSUME output_end' < SIZE, job' = "ENCODE" PROVE out'[0] \in {FLAG, BLANK}
    <3>1. output_end >= 1 /\ output_end < SIZE /\ out[0] \in {FLAG, BLANK}
      BY <1>0, <2>1, <2>2, <2>8 DEF Below, ResultsKept
    <3>2. 0 \in 0..SIZE - 1 /\ 0 < output_end' /\ 0 < output_end
      BY <1>0, <2>2, <2>8, <3>1
    <3>. QED
      BY <2>6, <3>1, <3>2
  <2>. QED
    BY <2>5, <2>7, <2>8 DEF ResultsKept
<1>3. CASE UNCHANGED <<output, job>>
  BY <1>3 DEF output, Below, ResultsKept
<1>4. ReadJob \/ (Collect /\ ~ bytes_in + 2 > BUFFER) \/ UNCHANGED <<output, job>>
  <2>1. CASE Before
    BY <2>1, Zenon DEF Before, scan_i2c, BlockCount, sequence_blocks, Start, setup
  <2>2. CASE Body
    BY <2>2, Zenon DEF Body, Loop, Poll, Collect, NotReady, SendRaw, SendCompressed, Send, setup, output
  <2>. QED
    BY <2>1, <2>2 DEF Next, vars, setup, output
<1>. QED
  BY <1>1, <1>2, <1>3, <1>4

\* What was stored of a result stays what it was, but for its last byte, as long as
\* the file has room, for results of any size and writes that fail anywhere.
THEOREM ResultsKeptHolds == Spec => []ResultsKept
<1>1. Init => Below /\ ResultsKept
  BY DEF Init, Below, ResultsKept
<1>. QED
  BY <1>1, KeptStep, FreshHolds, PTL DEF Spec

-----------------------------------------------------------------------------
(* The blocks of a raw file.                                               *)

\* No block is counted in a file without text, and no worker is polled for it.
Textless ==
  job = "ENCODE" /\ input_end = START =>
    /\ pc \in {"start", "loop"} => block_count = 0
    /\ pc \notin {"poll", "collect", "send"}

\* Every step keeps it so.
LEMMA TextlessStep == TypeOK /\ Fresh /\ Textless /\ [Next]_vars => Textless'
<1>. SUFFICES ASSUME TypeOK, Fresh, Textless, [Next]_vars, job' = "ENCODE", input_end' = START
              PROVE  /\ pc' \in {"start", "loop"} => block_count' = 0
                     /\ pc' \notin {"poll", "collect", "send"}
  BY DEF Textless
<1>. USE DEF setup, output, counters, answer
<1>1. CASE ReadJob \/ scan_i2c
  BY <1>1 DEF ReadJob, scan_i2c
<1>2. CASE BlockCount
  <2>1. BLOCK_SIZE \in Nat \ {0} /\ START - START = 0
    BY Constants
  <2>2. 0 \div BLOCK_SIZE = 0 /\ 0 % BLOCK_SIZE = 0
    BY <2>1
  <2>3. (0 \div BLOCK_SIZE) + (0 % BLOCK_SIZE) = 0
    BY <2>2
  <2>4. job = "ENCODE" /\ input_end = START
    BY <1>2, Zenon DEF BlockCount
  <2>. QED
    BY <1>2, <2>1, <2>3, <2>4, Zenon DEF BlockCount
<1>3. CASE sequence_blocks
  BY <1>3, Zenon DEF sequence_blocks, Fresh
<1>4. CASE Start
  BY <1>4 DEF Start, Textless
<1>5. CASE Loop
  <2>1. block_count = 0 /\ block \in Nat /\ UNCHANGED block_count
    BY <1>5, Constants DEF Loop, Textless, TypeOK
  <2>2. ~ MoreBlocks
    BY <2>1 DEF MoreBlocks
  <2>. QED
    BY <1>5, <2>2 DEF Loop
<1>6. CASE Poll \/ Collect \/ NotReady \/ SendRaw \/ SendCompressed
  BY <1>6 DEF Poll, Collect, NotReady, SendRaw, SendCompressed, Send, Textless
<1>7. CASE UNCHANGED vars
  BY <1>7 DEF vars, Textless
<1>. QED
  BY <1>1, <1>2, <1>3, <1>4, <1>5, <1>6, <1>7 DEF Next, Before, Body

\* Hence it holds throughout.
LEMMA TextlessHolds == Spec => [](TypeOK /\ Fresh /\ Textless)
<1>1. Init => Textless
  BY DEF Init, Textless
<1>. QED
  BY <1>1, TextlessStep, FreshHolds, PTL DEF Spec

\* The blocks are the bytes from behind the flag up to irp.
SentInv ==
  /\ SentInOrder
  /\ job = "ENCODE" /\ input_end < W /\ Looping => START + 1 <= irp

\* A block that is sent begins where the last one ended.
LEMMA SendStep ==
  ASSUME TypeOK, Fresh, Textless, SentInv, SendRaw, input_end < W
  PROVE  SentInv'
<1>. DEFINE new == [at |-> irp, size |-> BytesLeft, header |-> Header]
<1>0. /\ irp \in Nat /\ input_end \in Nat /\ START \in Nat /\ W \in Nat /\ irp < W
      /\ BLOCK_SIZE \in Nat /\ BLOCK_SIZE + 2 <= BUFFER /\ BUFFER \in Nat
  BY Constants DEF TypeOK
<1>1. /\ START + 1 <= irp /\ irp <= input_end
      /\ job = "ENCODE" /\ job' = job /\ input_end' = input_end
      /\ pc = "send" /\ bytes_in' = bytes_in /\ worker_count' = worker_count
      /\ UNION {Bytes(b) : b \in sent} = START + 1..irp - 1
      /\ \A a, b \in sent : a # b => Bytes(a) \cap Bytes(b) = {}
      /\ \A b \in sent : b.size <= BLOCK_SIZE
  BY DEF SendRaw, Send, setup, answer, SentInv, SentInOrder, Looping, Textless
<1>2. /\ BytesLeft \in 0..BLOCK_SIZE /\ irp + BytesLeft <= input_end
      /\ BytesLeft = 0 => irp = input_end
  BY <1>1, Left
<1>3. CASE BytesLeft = 0
  <2>1. pc' = "undefined" /\ irp' = irp /\ sent' = sent /\ irp = input_end
    BY <1>2, <1>3 DEF SendRaw, Send
  <2>. QED
    BY <1>1, <2>1 DEF SentInv, SentInOrder, Looping
<1>4. CASE BytesLeft # 0
  <2>1. BytesLeft + 2 <= BUFFER /\ irp + BytesLeft < W /\ BytesLeft \in Nat /\ BytesLeft > 0
    BY <1>0, <1>2, <1>4
  <2>2. /\ sent' = sent \cup {new} /\ irp' = uint8(irp + BytesLeft) /\ Advance
    BY <1>1, <1>4, <2>1, <1>0 DEF SendRaw, Send
  <2>3. irp' = irp + BytesLeft /\ pc' # "undefined"
    BY <1>0, <2>1, <2>2, Uint8 DEF Advance
  <2>4. Bytes(new) = irp..irp + BytesLeft - 1
    BY DEF Bytes
  <2>5. ASSUME NEW b \in sent PROVE Bytes(b) \subseteq START + 1..irp - 1
    BY <1>1
  <2>6. ASSUME NEW b \in sent PROVE Bytes(b) \cap Bytes(new) = {}
    <3>1. START + 1..irp - 1 \cap irp..irp + BytesLeft - 1 = {}
      BY <1>0, <2>1
    <3>. QED
      BY <2>4, <2>5, <3>1
  <2>7. \A a, b \in sent' : a # b => Bytes(a) \cap Bytes(b) = {}
    BY <1>1, <2>2, <2>6, Zenon
  <2>8. \A b \in sent' : b.size <= BLOCK_SIZE
    BY <1>0, <1>1, <1>2, <2>2
  <2>9. UNION {Bytes(b) : b \in sent'} = START + 1..irp' - 1
    <3>1. UNION {Bytes(b) : b \in sent'} = (UNION {Bytes(b) : b \in sent}) \cup Bytes(new)
      BY <2>2
    <3>2. (START + 1..irp - 1) \cup (irp..irp + BytesLeft - 1) = START + 1..irp + BytesLeft - 1
      BY <1>0, <1>1, <2>1
    <3>3. START + 1..irp' - 1 = START + 1..irp + BytesLeft - 1
      <4>1. irp' - 1 = irp + BytesLeft - 1
        BY <1>0, <2>1, <2>3
      <4>. QED
        BY <4>1, Zenon
    <3>4. UNION {Bytes(b) : b \in sent} = START + 1..irp - 1
      BY <1>1
    <3>. QED
      BY <2>4, <3>1, <3>2, <3>3, <3>4, Zenon
  <2>. QED
    BY <1>0, <1>1, <1>2, <2>3, <2>7, <2>8, <2>9 DEF SentInv, SentInOrder, Bytes
<1>. QED
  BY <1>3, <1>4

\* Every step keeps the order.
LEMMA SentStep == TypeOK /\ Fresh /\ Textless /\ SentInv /\ [Next]_vars => SentInv'
<1>. SUFFICES ASSUME TypeOK, Fresh, Textless, SentInv, [Next]_vars PROVE SentInv'
  OBVIOUS
<1>0. /\ irp \in Nat /\ input_end \in Nat /\ START \in Nat /\ W \in Nat /\ START + 1 < W
      /\ bytes_in \in Nat /\ BUFFER \in Nat /\ worker_count \in Nat /\ ARRAY \in Nat
  BY Constants DEF TypeOK
<1>1. CASE job' = "DECODE"
  BY <1>1 DEF SentInv, SentInOrder
<1>2. CASE SendRaw
  <2>1. CASE input_end < W
    BY <1>2, <2>1, SendStep
  <2>2. CASE ~ input_end < W
    BY <1>2, <2>2, Zenon DEF SendRaw, Send, setup, SentInv, SentInOrder
  <2>. QED
    BY <2>1, <2>2
<1>3. CASE ReadJob /\ job' = "ENCODE"
  BY <1>3 DEF ReadJob, Fresh, BeforeLoop, SentInv, SentInOrder, Looping
<1>4. CASE scan_i2c /\ job = "ENCODE"
  <2>1. /\ pc' = "count" \/ (pc' = "undefined" /\ ~ worker_count' <= ARRAY)
        /\ sent = {} /\ UNCHANGED <<job, input_end, sent>>
    BY <1>4 DEF scan_i2c, Fresh, BeforeLoop
  <2>. QED
    BY <1>4, <2>1 DEF SentInv, SentInOrder, Looping
<1>5. CASE BlockCount /\ job = "ENCODE"
  <2>1. pc' = "start" /\ sent = {} /\ UNCHANGED <<job, input_end, sent>>
    BY <1>5, Zenon DEF BlockCount, Fresh, BeforeLoop
  <2>. QED
    BY <1>5, <2>1 DEF SentInv, SentInOrder, Looping
<1>6. CASE Start /\ job = "ENCODE"
  <2>1. /\ pc' = "loop" /\ sent = {} /\ UNCHANGED <<job, input_end, sent>> /\ irp' = START + 1
    BY <1>0, <1>6, Uint8 DEF Start, setup, Fresh, BeforeLoop
  <2>2. UNION {Bytes(b) : b \in {}} = {} /\ START + 1..irp' - 1 = {}
    BY <1>0, <2>1
  <2>3. input_end \in InputEnds /\ (START + 1 <= input_end \/ input_end = START)
    BY <1>0, Constants DEF TypeOK
  <2>. QED
    BY <1>0, <1>6, <2>1, <2>2, <2>3 DEF SentInv, SentInOrder, Looping
<1>7. CASE Loop \/ Poll \/ Collect \/ NotReady
  <2>1. /\ UNCHANGED <<job, input_end, sent, irp>> /\ Looping
        /\ pc' = "undefined" => ~ bytes_in' + 2 <= BUFFER
    BY <1>0, <1>7
    DEF Loop, Poll, Collect, NotReady, Advance, setup, counters, answer, Looping
  <2>. QED
    BY <2>1 DEF SentInv, SentInOrder
<1>8. CASE UNCHANGED vars
  BY <1>8, Zenon DEF vars, setup, answer, counters, SentInv, SentInOrder, Looping
<1>9. \/ job' = "DECODE" \/ SendRaw \/ (ReadJob /\ job' = "ENCODE") \/ (scan_i2c /\ job = "ENCODE")
      \/ (BlockCount /\ job = "ENCODE") \/ (Start /\ job = "ENCODE")
      \/ (Loop \/ Poll \/ Collect \/ NotReady) \/ UNCHANGED vars
  <2>1. job \in {"ENCODE", "DECODE"}
    BY DEF TypeOK
  <2>2. CASE ReadJob
    BY <2>2 DEF ReadJob
  <2>3. CASE scan_i2c \/ BlockCount \/ Start
    BY <2>1, <2>3, Zenon DEF scan_i2c, BlockCount, Start, setup
  <2>4. CASE sequence_blocks
    BY <2>4, Zenon DEF sequence_blocks, Fresh
  <2>5. CASE SendCompressed
    BY <2>5 DEF SendCompressed, Send, setup
  <2>. QED
    BY <2>2, <2>3, <2>4, <2>5 DEF Next, Before, Body
<1>. QED
  BY <1>1, <1>2, <1>3, <1>4, <1>5, <1>6, <1>7, <1>8, <1>9

\* Whoever asks for work and whenever, the blocks cut from a raw file that a uint8_t
\* can address follow each other without gap or overlap up to irp, and a file without
\* text, such as a power failure behind the flag leaves, is not read at all.
THEOREM SentInOrderHolds == Spec => []SentInOrder
<1>1. Init => SentInv
  BY DEF Init, SentInv, SentInOrder
<1>2. SentInv => SentInOrder
  BY DEF SentInv
<1>. QED
  BY <1>1, <1>2, SentStep, TextlessHolds, PTL DEF Spec

-----------------------------------------------------------------------------
(* The loop over the workers.                                              *)

InRound == pc \in {"poll", "collect", "send"}

\* A bound on the steps that the round over the workers still takes.
RoundLeft ==
  3 * (worker_count - i) + (CASE pc = "poll" -> 2 [] pc = "collect" -> 1 [] OTHER -> 0)

\* A step within a round leaves it or comes nearer to its end.
RoundStep ==
  InRound => \/ pc' \in {"loop", "undefined"}
             \/ RoundLeft' \in Nat /\ RoundLeft' < RoundLeft

\* Every round of processData over the workers ends, after at most three steps for
\* each, whoever answers, keeps silent or has a result: only the loop around it can
\* go on for ever.
THEOREM RoundsEnd == Spec => [][RoundStep]_vars
<1>1. ASSUME TypeOK, Fresh, Next PROVE RoundStep
  <2>. SUFFICES ASSUME InRound, pc' \notin {"loop", "undefined"}
                PROVE  RoundLeft' \in Nat /\ RoundLeft' < RoundLeft
    BY DEF RoundStep
  <2>0. i \in Nat /\ worker_count \in Nat /\ i < worker_count
    BY <1>1 DEF TypeOK, Fresh, InRound
  <2>1. CASE Poll
    <3>1. pc = "poll" /\ pc' \in {"collect", "send"} /\ UNCHANGED <<i, worker_count>>
      BY <2>1 DEF Poll, setup, counters
    <3>. QED
      BY <2>0, <3>1 DEF RoundLeft
  <2>2. CASE Collect
    <3>1. pc = "collect" /\ pc' = "send" /\ UNCHANGED <<i, worker_count>>
      BY <2>2 DEF Collect, setup
    <3>. QED
      BY <2>0, <3>1 DEF RoundLeft
  <2>3. CASE NotReady \/ SendRaw \/ SendCompressed
    <3>1. pc = "send" /\ Advance /\ worker_count' = worker_count
      BY <2>3 DEF NotReady, SendRaw, SendCompressed, Send, setup
    <3>2. i' = i + 1 /\ pc' = "poll" /\ i' < worker_count
      BY <3>1 DEF Advance
    <3>. QED
      BY <2>0, <3>1, <3>2 DEF RoundLeft
  <2>4. ~ (Before \/ Loop)
    BY DEF InRound, Before, ReadJob, scan_i2c, BlockCount, sequence_blocks, Start, Loop
  <2>. QED
    BY <1>1, <2>1, <2>2, <2>3, <2>4, Zenon DEF Next, Body
<1>2. TypeOK /\ Fresh /\ [Next]_vars => [RoundStep]_vars
  BY <1>1, Zenon
<1>. QED
  BY <1>2, FreshHolds, PTL DEF Spec
==============================================================================
