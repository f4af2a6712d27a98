------------------------------- MODULE TwiBus -------------------------------
(***************************************************************************)
(* The two-wire bus, byte by byte: i2c_writeReg, i2c_readReg and the probe *)
(* i2c_start_timeout of the controller (main/i2c_master.c), the interrupt  *)
(* handler of a worker (slave/i2c_slave.c), and the FRAM, which is outside *)
(* of the repository.  All calls go to one of the two devices, chosen in   *)
(* Init; the other one would ignore them.                                  *)
(*                                                                         *)
(* A step of the controller is the transfer of one byte.  The hardware of  *)
(* a worker acknowledges it on its own and raises an event; as long as the *)
(* handler has not cleared it the worker holds the clock, so that nothing  *)
(* else is transferred.  The handler clears the event before it runs the   *)
(* job, so the next byte may come while the job is running.                *)
(*                                                                         *)
(* A job runs in the handler.  One that fails the assertion of build_tree  *)
(* stops the worker for good, and so does, in the model, one whose effect  *)
(* is undefined; the next event then holds the clock for ever.             *)
(*                                                                         *)
(* A FRAM may miss any byte and then stays silent until the next START; a  *)
(* worker may be missing, but answers to the end once it has answered.     *)
(***************************************************************************)
EXTENDS Integers, Sequences

CONSTANTS NONE,      \* 0xFF: the last value of a byte, and "no address yet"
          SIZE,      \* bytes of the FRAM
          SLA_R,     \* the byte that addresses the device to read from it
          Writes,    \* offset and bytes of the calls of i2c_writeReg
          Reads,     \* offset and length of the calls of i2c_readReg
          TIMEOUT,   \* ms_timeout of a probe
          Huffman(_, _)   \* what a job may write for the content of in_buffer

ASSUME BusAssumption ==
  /\ NONE \in Nat /\ 3 <= NONE /\ (NONE + 1) % 4 = 0 /\ SIZE \in Nat
  /\ SLA_R \in 1..NONE /\ TIMEOUT \in 1..NONE

Byte == 0..NONE
High(n) == n \div (NONE + 1)
Low(n) == n % (NONE + 1)

ASSUME CallAssumption ==
  /\ \A w \in Writes : w.offset \in Nat /\ w.bytes \in Seq(Byte) /\ w.bytes # <<>>
  /\ \A w \in Writes : w.offset + Len(w.bytes) <= SIZE /\ High(w.offset) < NONE
  /\ \A r \in Reads : r.offset \in Nat /\ r.length \in Nat \ {0}
  /\ \A r \in Reads : r.offset + r.length <= SIZE /\ High(r.offset) + r.length <= NONE

\* huffman_compress and huffman_inflate write bytes.  There may be several results:
\* either may read what lies behind in_buffer, huffman_inflate also what is behind
\* the text in it.  There is none if it is undefined what they do.
ASSUME HuffmanAssumption ==
  \A job \in {0, 1}, in \in [Byte -> Byte] : Huffman(job, in) \subseteq Seq(Byte)

VARIABLES dev,              \* the device that is called, "fram" or "worker"
          call,             \* the call
          pc,               \* where the controller is
          got,              \* what i2c_readReg has read
          ret,              \* what the last call returned
          ms_timeout,
          ignored,          \* "yes": this call overlooked a missing byte
          link,             \* how the device takes part: "none", "write" or "read";
                            \* "pending" while a probe is not answered
          fram, pointer,    \* the FRAM and where it reads or writes next
          event, TWDR, TWEA,   \* the bus interface of the worker
          isr,              \* "job" while the handler runs a job, "aborted" or
                            \* "undefined" when it does not come back from it
          buffer_address, in_buffer, out_buffer,
          stored            \* how many bytes the device has stored in this call

controller == <<call, pc, got, ret, ms_timeout, ignored>>
framVars == <<fram, pointer>>
twi == <<event, TWDR, TWEA>>
worker == <<isr, buffer_address, in_buffer, out_buffer>>
vars == <<dev, controller, link, framVars, twi, worker, stored>>

Zeroed == [k \in 0..NONE |-> 0]

Init ==
  /\ dev \in {"fram", "worker"}
  /\ call = [op |-> "none"] /\ pc = "idle" /\ got = <<>> /\ ret = 0
  /\ ms_timeout = 0 /\ ignored = "no"
  /\ link = "none"
  /\ fram = [k \in 0..SIZE - 1 |-> 0] /\ pointer = 0
  /\ event = "none" /\ TWDR = 0 /\ TWEA = "yes"
  /\ isr = "none" /\ buffer_address = 0 /\ in_buffer = Zeroed /\ out_buffer = Zeroed
  /\ stored = 0

-----------------------------------------------------------------------------
(* The controller                                                          *)

Begin(c, timeout) ==
  /\ pc = "idle"
  /\ call' = c /\ pc' = "start" /\ got' = <<>> /\ ignored' = "no" /\ stored' = 0
  /\ ms_timeout' = timeout
  /\ UNCHANGED <<dev, ret, link, framVars, twi, worker>>

writeReg == \E w \in Writes : Begin([offset |-> w.offset, bytes |-> w.bytes, op |-> "write"], 0)
readReg == \E r \in Reads : Begin([offset |-> r.offset, length |-> r.length, op |-> "read"], 0)
probe == Begin([op |-> "probe"], TIMEOUT)

\* The device is addressed, to be written or read, and answers or does not.
Answer(dir, answers) ==
  /\ event = "none"
  /\ answers = "yes" /\ dev = "worker" => TWEA = "yes"
  /\ link' = IF answers = "yes" THEN dir ELSE "none"
  /\ IF answers = "yes" /\ dev = "worker"
     THEN /\ event' = IF dir = "write" THEN "SR_SLA_ACK" ELSE "ST_SLA_ACK"
          /\ TWDR' = IF dir = "write" THEN SLA_R - 1 ELSE SLA_R
     ELSE UNCHANGED <<event, TWDR>>
  /\ UNCHANGED <<dev, call, got, ms_timeout, ignored, framVars, TWEA, worker, stored>>

i2c_start(here, dir, next) ==
  /\ pc = here /\ call.op # "probe"
  /\ \E answers \in {"yes", "no"} :
       /\ Answer(dir, answers)
       /\ IF answers = "yes" THEN pc' = next /\ UNCHANGED ret
                             ELSE pc' = "idle" /\ ret' = 1

StartWrite == i2c_start("start", "write", "high")
StartRead == i2c_start("address", "read", "read")

\* i2c_start_timeout does not stop while it waits for the answer.
StartProbe ==
  /\ pc = "start" /\ call.op = "probe"
  /\ pc' = "wait" /\ link' = "pending"
  /\ UNCHANGED <<dev, call, got, ret, ms_timeout, ignored, framVars, twi, worker, stored>>

ProbeAnswer ==
  /\ link = "pending"
  /\ \E answers \in {"yes", "no"} : Answer("read", answers)
  /\ UNCHANGED <<pc, ret>>

\* Mutation: ms_timeout is signed.
Waiting_signed ==
  /\ pc = "wait"
  /\ ms_timeout' = ms_timeout - 1
  /\ IF ms_timeout <= 0 /\ link # "pending"
     THEN pc' = "idle" /\ ret' = IF link = "read" THEN 0 ELSE 1
     ELSE UNCHANGED <<pc, ret>>
  /\ UNCHANGED <<dev, call, got, ignored, link, framVars, twi, worker, stored>>

\* The loop ends at 0 and nowhere else; past it ms_timeout wraps around.
Waiting ==
  /\ pc = "wait"
  /\ ms_timeout' = (ms_timeout - 1) % (NONE + 1)
  /\ IF ms_timeout = 0 /\ link # "pending"
     THEN pc' = "idle" /\ ret' = IF link = "read" THEN 0 ELSE 1
     ELSE UNCHANGED <<pc, ret>>
  /\ UNCHANGED <<dev, call, got, ignored, link, framVars, twi, worker, stored>>

\* A byte to the device, acknowledged if ack is "yes"; where the FRAM goes on then
\* and what it holds.
Transfer(byte, ack, at, mem) ==
  \/ /\ link = "write" /\ dev = "worker" /\ ack = TWEA
     /\ TWDR' = byte
     /\ event' = IF ack = "yes" THEN "SR_DATA_ACK" ELSE "SR_DATA_NACK"
     /\ link' = IF ack = "yes" THEN "write" ELSE "none"
     /\ UNCHANGED <<framVars, stored>>
  \/ /\ link = "write" /\ dev = "fram" /\ ack = "yes"
     /\ pointer' = at /\ fram' = mem
     /\ stored' = IF pc = "data" THEN stored + 1 ELSE stored
     /\ UNCHANGED <<link, event, TWDR>>
  \/ /\ link = "none" \/ dev = "fram"
     /\ ack = "no" /\ link' = "none"
     /\ UNCHANGED <<framVars, event, TWDR, stored>>

\* Whether the offset arrives is not looked at.
Offset(here, byte, at, next) ==
  /\ pc = here /\ event = "none"
  /\ \E ack \in {"yes", "no"} :
       Transfer(byte, ack, at, fram) /\ ignored' = IF ack = "no" THEN "yes" ELSE ignored
  /\ pc' = next
  /\ UNCHANGED <<dev, call, got, ret, ms_timeout, TWEA, worker>>

OffsetHigh == Offset("high", High(call.offset), High(call.offset) * (NONE + 1), "low")

OffsetLow ==
  Offset("low", Low(call.offset), (pointer + Low(call.offset)) % SIZE,
         IF call.op = "write" THEN "data" ELSE "restart")

\* got counts the bytes sent.  A failure returns without a STOP.
i2c_write ==
  /\ pc = "data" /\ event = "none"
  /\ \E ack \in {"yes", "no"} :
       LET byte == call.bytes[Len(got) + 1]
       IN  /\ Transfer(byte, ack, (pointer + 1) % SIZE, [fram EXCEPT ![pointer] = byte])
           /\ IF ack = "yes"
              THEN /\ got' = Append(got, byte)
                   /\ pc' = IF Len(got') = Len(call.bytes) THEN "stop" ELSE "data"
                   /\ UNCHANGED ret
              ELSE pc' = "idle" /\ ret' = 1 /\ UNCHANGED got
  /\ UNCHANGED <<dev, call, ms_timeout, ignored, TWEA, worker>>

\* The START before the second address; a worker that is being written notices.
Restart ==
  /\ pc = "restart" /\ event = "none"
  /\ event' = IF dev = "worker" /\ link = "write" THEN "SR_STOP" ELSE "none"
  /\ link' = "none"
  /\ pc' = "address"
  /\ UNCHANGED <<dev, call, got, ret, ms_timeout, ignored, framVars, TWDR, TWEA, worker, stored>>

\* Mutation: i2c_read_ack is called for every byte, and i2c_read_nack after them.
Last_one_more == Len(got) = call.length

Last == Len(got) + 1 = call.length

\* i2c_read_ack, and i2c_read_nack for the last byte.
i2c_read ==
  /\ pc = "read" /\ event = "none"
  /\ \/ /\ dev = "worker" /\ link = "read"
        /\ got' = Append(got, TWDR)
        /\ event' = IF Last THEN "ST_DATA_NACK" ELSE "ST_DATA_ACK"
        /\ link' = IF Last THEN "none" ELSE link
        /\ UNCHANGED <<ignored, framVars>>
     \/ /\ dev = "fram" /\ link = "read"
        /\ got' = Append(got, fram[pointer])
        /\ pointer' = (pointer + 1) % SIZE
        /\ UNCHANGED <<ignored, link, fram, event>>
     \/ /\ dev = "fram"
        /\ got' = Append(got, NONE)
        /\ ignored' = "yes" /\ link' = "none"
        /\ UNCHANGED <<framVars, event>>
  /\ pc' = IF Last THEN "stop" ELSE "read"
  /\ UNCHANGED <<dev, call, ret, ms_timeout, TWDR, TWEA, worker, stored>>

i2c_stop ==
  /\ pc = "stop" /\ event = "none"
  /\ event' = IF dev = "worker" /\ link = "write" THEN "SR_STOP" ELSE "none"
  /\ link' = "none"
  /\ pc' = "idle" /\ ret' = 0
  /\ UNCHANGED <<dev, call, got, ms_timeout, ignored, framVars, TWDR, TWEA, worker, stored>>

-----------------------------------------------------------------------------
(* The worker                                                              *)

\* Mutation: the last address is used as well.
Space_off_by_one(address) == address <= NONE

\* "if there is still enough space inside the buffer"
Space(address) == address < NONE

Receive ==
  /\ event = "SR_DATA_ACK"
  /\ IF buffer_address = NONE
     THEN buffer_address' = TWDR /\ TWEA' = "yes" /\ UNCHANGED <<in_buffer, stored>>
     ELSE /\ in_buffer' = [in_buffer EXCEPT ![buffer_address] = TWDR]
          /\ buffer_address' = buffer_address + 1
          /\ TWEA' = IF Space(buffer_address') THEN "yes" ELSE "no"
          /\ stored' = stored + 1
  /\ isr' = "job"
  /\ UNCHANGED <<TWDR, out_buffer>>

Send ==
  /\ event = "ST_DATA_ACK"
  /\ LET here == IF buffer_address = NONE THEN TWDR ELSE buffer_address
     IN  TWDR' = out_buffer[here] /\ buffer_address' = (here + 1) % (NONE + 1)
  /\ TWEA' = "yes"
  /\ UNCHANGED <<isr, in_buffer, out_buffer, stored>>

OtherEvent ==
  /\ event \notin {"none", "SR_DATA_ACK", "ST_DATA_ACK"}
  /\ buffer_address' = IF event = "SR_SLA_ACK" THEN NONE ELSE buffer_address
  /\ TWEA' = "yes"
  /\ UNCHANGED <<TWDR, isr, in_buffer, out_buffer, stored>>

\* Mutation: the next event is handled although a job is running.
Handle_nested ==
  /\ Receive \/ Send \/ OtherEvent
  /\ event' = "none"
  /\ UNCHANGED <<dev, controller, link, framVars>>

\* Mutation: an event that needs no answer is not cleared.
Handle_uncleared ==
  /\ isr = "none"
  /\ \/ (Receive \/ Send) /\ event' = "none"
     \/ OtherEvent /\ event' = IF event = "SR_SLA_ACK" THEN "none" ELSE event
  /\ UNCHANGED <<dev, controller, link, framVars>>

Handle ==
  /\ isr = "none"
  /\ Receive \/ Send \/ OtherEvent
  /\ event' = "none"
  /\ UNCHANGED <<dev, controller, link, framVars>>

\* The bytes before the first NUL are counted.
strlen(s) ==
  CHOOSE n \in 0..Len(s) : (\A i \in 1..n : s[i] # 0) /\ (n < Len(s) => s[n + 1] = 0)

job_bit(in) == (in[0] \div 2) % 2
Results(in) == Huffman(job_bit(in), in)

\* out_buffer has room for NONE - 1 bytes, and strlen needs a NUL among them.
Fits(result) == Len(result) < NONE /\ strlen(result) < NONE - 1

\* What a job leaves in out_buffer: [seq_num][job][I2C_READY], size, text.
Outcome(in, result) ==
  [k \in 0..NONE |-> IF k = 0 THEN 4 * (in[0] \div 4) + 2 * job_bit(in) + 1
                     ELSE IF k = 1 THEN strlen(result)
                     ELSE IF k - 1 <= Len(result) THEN result[k - 1] ELSE 0]

\* huffman_compress builds no tree for a text of no bytes.
NoText(in) == job_bit(in) = 1 /\ in[1] = 0

Job ==
  /\ isr = "job"
  /\ \/ /\ NoText(in_buffer)
        /\ out_buffer' = Zeroed /\ isr' = "aborted"
     \/ /\ ~ NoText(in_buffer)
        /\ \E result \in Results(in_buffer) :
             Fits(result) /\ out_buffer' = Outcome(in_buffer, result)
        /\ isr' = "none"
     \/ /\ ~ NoText(in_buffer)
        /\ Results(in_buffer) = {} \/ \E result \in Results(in_buffer) : ~ Fits(result)
        /\ isr' = "undefined" /\ UNCHANGED out_buffer
  /\ UNCHANGED <<dev, controller, link, framVars, twi, buffer_address, in_buffer, stored>>

Calls == writeReg \/ readReg \/ probe
Driver ==
  StartWrite \/ StartProbe \/ Waiting \/ OffsetHigh \/ OffsetLow \/ i2c_write
    \/ Restart \/ StartRead \/ i2c_read \/ i2c_stop
Worker == Handle \/ Job

Next == Calls \/ Driver \/ ProbeAnswer \/ Worker

\* The hardware answers, the processor of the worker runs, and the controller
\* waits for nothing else.  Nobody need call.
Spec ==
  Init /\ [][Next]_vars /\ WF_vars(Driver) /\ WF_vars(ProbeAnswer) /\ WF_vars(Worker)

-----------------------------------------------------------------------------

\* Every variable has its type.
TypeOK ==
  /\ dev \in {"fram", "worker"}
  /\ pc \in {"idle", "start", "wait", "high", "low", "data", "restart", "address", "read", "stop"}
  /\ got \in Seq(Byte) /\ ret \in {0, 1} /\ ms_timeout \in Byte
  /\ ignored \in {"yes", "no"} /\ link \in {"none", "write", "read", "pending"}
  /\ fram \in [0..SIZE - 1 -> Byte] /\ pointer \in Nat
  /\ event \in {"none", "SR_SLA_ACK", "SR_DATA_ACK", "SR_DATA_NACK", "SR_STOP",
                "ST_SLA_ACK", "ST_DATA_ACK", "ST_DATA_NACK"}
  /\ TWDR \in Byte /\ TWEA \in {"yes", "no"} /\ isr \in {"none", "job", "aborted", "undefined"}
  /\ buffer_address \in Byte
  /\ in_buffer \in [Byte -> Byte] /\ out_buffer \in [Byte -> Byte]

\* What the device is to store in this call, and where.  A worker takes the
\* high byte of the offset for the place and the low byte for the first datum.
cells == IF dev = "fram" THEN fram ELSE in_buffer
busy == IF pc = "idle" THEN "no" ELSE "yes"
start ==
  IF call.op \notin {"write", "read"} THEN 0
  ELSE IF dev = "fram" THEN call.offset ELSE High(call.offset)
bytes ==
  (IF call.op \in {"write", "read"} /\ dev = "worker" THEN <<Low(call.offset)>> ELSE <<>>)
    \o (IF call.op = "write" THEN call.bytes ELSE <<>>)

Store == INSTANCE ByteStore

\* The FRAM and the worker store the bytes of a call in order and at consecutive
\* addresses, all of them if i2c_writeReg or i2c_readReg returns 0, although
\* the results of the two offset bytes are dropped and 0xFF is both an address
\* and the mark for none.
StoresInOrder == Store!Spec

\* i2c_readReg of the FRAM returns the bytes at the offset, unless it overlooked
\* that the FRAM missed a byte.
ReadOfFram ==
  pc = "idle" /\ call.op = "read" /\ dev = "fram" /\ ret = 0 /\ ignored = "no" =>
    got = [k \in 1..call.length |-> fram[call.offset + k - 1]]

\* A read that a worker has answered to the end shows one result: behind the first
\* byte, which stands in for the status, i2c_readReg gets consecutive bytes of a
\* single job, the one that ran on what is now in in_buffer, although every byte
\* received starts a job anew.  Where they are taken from is left open (ReadPlace).
ReadsOneResult ==
  pc = "idle" /\ call.op = "read" /\ dev = "worker" /\ ret = 0 =>
    \E result \in Results(in_buffer), p \in Byte :
      /\ Fits(result)
      /\ \A k \in 2..call.length :
           got[k] = Outcome(in_buffer, result)[(p + k - 1) % (NONE + 1)]

Stopped == isr \in {"aborted", "undefined"}

\* Every call returns, as long as no job stops the worker: the clock is never held
\* for ever and the loop of i2c_start_timeout ends.
CallReturns == []~Stopped => (pc # "idle" ~> pc = "idle")

\* "write length bytes to device devaddr at buffer offset of offset_addr from data"
\* and "read length bytes starting at offset_addr" (main/i2c_master.c): a call that
\* missed nothing has moved the bytes that it says.
AtOffset ==
  pc = "idle" /\ ret = 0 /\ ignored = "no" =>
    /\ call.op = "write" =>
         \A k \in 1..Len(call.bytes) :
           call.offset + k - 1 \in DOMAIN cells /\ cells[call.offset + k - 1] = call.bytes[k]
    /\ call.op = "read" =>
         LET shown == IF dev = "fram" THEN fram ELSE out_buffer
         IN  \A k \in 1..call.length :
               call.offset + k - 1 \in DOMAIN shown /\ got[k] = shown[call.offset + k - 1]
==============================================================================
