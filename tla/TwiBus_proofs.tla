---------------------------- MODULE TwiBus_proofs ----------------------------
(***************************************************************************)
(* The calls of the controller implement ByteStore, for any width of a     *)
(* byte, any calls and any interleaving of the bus, the handler of the     *)
(* worker and its jobs.  The invariant ties what the controller has sent   *)
(* to what the device has done with it: on the worker, one byte at most is *)
(* under way, and buffer_address is ahead of the offset by the number of   *)
(* bytes stored.                                                           *)
(***************************************************************************)
EXTENDS TwiBus, NaturalsInduction, WellFoundedInduction, TLAPS

Transferring == call.op \in {"write", "read"}

\* Where the controller can be in which call
CallInv ==
  /\ dev \in {"fram", "worker"} /\ call.op \in {"none", "probe", "write", "read"}
  /\ Transferring => call.offset \in Nat /\ call.offset < SIZE /\ High(call.offset) < NONE
  /\ call.op = "write" => /\ call.bytes \in Seq(Byte) /\ call.bytes # <<>>
                          /\ call.offset + Len(call.bytes) <= SIZE
  /\ pc \in {"idle", "start", "wait", "high", "low", "data", "restart", "address", "read", "stop"}
  /\ pc = "wait" => call.op = "probe"
  /\ pc = "start" => call.op # "none"
  /\ pc \in {"high", "low", "stop"} => Transferring
  /\ pc \in {"restart", "address", "read"} => call.op = "read"
  /\ pc = "data" => call.op = "write" /\ Len(got) < Len(call.bytes)
  /\ pc = "stop" /\ call.op = "write" => Len(got) = Len(call.bytes)
  /\ pc = "data" \/ (pc = "stop" /\ call.op = "write") => got \in Seq(Byte)
  /\ pc \in {"start", "wait", "high", "low", "restart"} => got = <<>>
  /\ link = "pending" => pc = "wait"

\* The worker, when the controller has sent the high byte of the offset, and
\* when it has sent the low byte and m data
HighSent ==
  /\ link = "write" /\ stored = 0 /\ event \in {"SR_DATA_ACK", "none"}
  /\ event = "SR_DATA_ACK" => buffer_address = NONE /\ TWDR = High(call.offset)
  /\ event = "none" => buffer_address = High(call.offset) /\ TWEA = "yes"
DataSent(m) ==
  /\ link = "write" /\ event \in {"SR_DATA_ACK", "none"}
  /\ event = "SR_DATA_ACK" => /\ stored = m /\ buffer_address = High(call.offset) + m
                              /\ buffer_address < NONE /\ TWDR = bytes[m + 1]
  /\ event = "none" => /\ stored = m + 1 /\ buffer_address = High(call.offset) + m + 1
                       /\ TWEA = "yes" => buffer_address < NONE

WorkerInv ==
  dev = "worker" =>
    /\ pc \in {"idle", "start", "wait", "address", "read"} => event # "SR_DATA_ACK"
    /\ pc \in {"start", "wait"} => stored = 0
    /\ pc = "high" => /\ link = "write" /\ stored = 0 /\ event \in {"SR_SLA_ACK", "none"}
                      /\ event = "none" => buffer_address = NONE /\ TWEA = "yes"
    /\ pc = "low" => HighSent
    /\ pc \in {"data", "restart"} \/ (pc = "stop" /\ call.op = "write") => DataSent(Len(got))
    /\ pc \in {"address", "read"} \/ (pc = "stop" /\ call.op = "read") =>
         stored = 1 /\ event # "SR_DATA_ACK"

FramInv ==
  dev = "fram" =>
    /\ event = "none"
    /\ pc \in {"start", "wait", "high", "low", "restart", "address", "read"} => stored = 0
    /\ pc = "data" => stored = Len(got)
    /\ pc = "stop" => stored = IF call.op = "write" THEN Len(got) ELSE 0
    /\ pc = "low" /\ link = "write" => pointer = High(call.offset) * (NONE + 1)
    /\ pc = "data" /\ link = "write" => pointer = call.offset + Len(got)

\* The constants, one by one.
LEMMA Constants == NONE \in Nat /\ 3 <= NONE /\ SIZE \in Nat
  BY BusAssumption

\* An offset is made up of its two bytes.
LEMMA Halves ==
  ASSUME NEW n \in Nat
  PROVE  High(n) \in Nat /\ Low(n) \in Byte /\ High(n) * (NONE + 1) + Low(n) = n
<1>1. NONE + 1 \in Nat /\ NONE + 1 > 0 /\ 0..(NONE + 1) - 1 = 0..NONE
  BY Constants
<1>2. ASSUME NEW d \in Nat, d > 0
      PROVE  n \div d \in Nat /\ n % d \in 0..d - 1 /\ (n \div d) * d + (n % d) = n
  BY <1>2
<1>. QED
  BY <1>1, <1>2, Zenon DEF High, Low, Byte

\* What a device is to store, and how much of it.
LEMMA BytesAre ==
  ASSUME CallInv
  PROVE  /\ dev = "fram" /\ call.op = "write" => bytes = call.bytes
         /\ dev = "fram" /\ call.op = "read" => bytes = <<>>
         /\ call.op = "probe" => bytes = <<>>
         /\ dev = "worker" /\ call.op = "read" => bytes = <<Low(call.offset)>>
         /\ dev = "worker" /\ call.op = "write" =>
              /\ Len(bytes) = Len(call.bytes) + 1 /\ bytes[1] = Low(call.offset)
              /\ \A m \in 0..Len(call.bytes) - 1 : bytes[m + 2] = call.bytes[m + 1]
<1>1. ASSUME NEW s \in Seq(Byte) PROVE <<>> \o s = s
  BY <1>1
<1>2. ASSUME NEW s \in Seq(Byte), NEW x \in Byte
      PROVE  /\ Len(<<x>> \o s) = Len(s) + 1 /\ (<<x>> \o s)[1] = x
             /\ \A m \in 0..Len(s) - 1 : (<<x>> \o s)[m + 2] = s[m + 1]
  BY <1>2
<1>3. Transferring => Low(call.offset) \in Byte
  BY Halves DEF CallInv
<1>4. CASE dev = "fram" \/ call.op \notin {"write", "read"}
  <2>1. bytes = <<>> \o (IF call.op = "write" THEN call.bytes ELSE <<>>)
    BY <1>4, Zenon DEF bytes, CallInv
  <2>2. CASE call.op = "write"
    BY <1>1, <1>4, <2>1, <2>2 DEF CallInv
  <2>3. CASE call.op # "write"
    <3>1. <<>> \in Seq(Byte)
      OBVIOUS
    <3>2. bytes = <<>>
      BY <1>1, <2>1, <2>3, <3>1
    <3>. QED
      BY <1>4, <2>3, <3>2
  <2>. QED
    BY <2>2, <2>3
<1>5. CASE dev = "worker" /\ call.op = "read"
  <2>1. bytes = <<Low(call.offset)>> \o <<>>
    BY <1>5 DEF bytes
  <2>2. <<Low(call.offset)>> \o <<>> = <<Low(call.offset)>>
    OBVIOUS
  <2>. QED
    BY <1>5, <2>1, <2>2
<1>6. CASE dev = "worker" /\ call.op = "write"
  <2>1. bytes = <<Low(call.offset)>> \o call.bytes
    BY <1>6 DEF bytes
  <2>2. call.bytes \in Seq(Byte) /\ Low(call.offset) \in Byte
    BY <1>3, <1>6 DEF CallInv, Transferring
  <2>. QED
    BY <1>2, <1>6, <2>1, <2>2
<1>. QED
  BY <1>4, <1>5, <1>6 DEF CallInv

-----------------------------------------------------------------------------
(* The controller                                                          *)

\* The calls are those of the assumption.
LEMMA BeginCall ==
  ASSUME CallInv, writeReg \/ readReg \/ probe
  PROVE  /\ CallInv' /\ pc = "idle" /\ pc' = "start" /\ stored' = 0
         /\ UNCHANGED <<dev, ret, link, framVars, twi, worker>>
<1>. USE DEF Begin
<1>0. <<>> \in Seq(Byte)
  OBVIOUS
<1>1. CASE writeReg
  <2>1. PICK w \in Writes : Begin([offset |-> w.offset, bytes |-> w.bytes, op |-> "write"], 0)
    BY <1>1 DEF writeReg
  <2>2. /\ w.offset \in Nat /\ w.bytes \in Seq(Byte) /\ w.bytes # <<>>
        /\ w.offset + Len(w.bytes) <= SIZE /\ High(w.offset) < NONE
    BY <2>1, CallAssumption
  <2>3. Len(w.bytes) \in Nat \ {0}
    BY <2>2
  <2>4. w.offset < SIZE
    BY <2>2, <2>3, Constants
  <2>5. /\ call'.op = "write" /\ call'.offset = w.offset /\ call'.bytes = w.bytes
        /\ pc' = "start" /\ got' = <<>> /\ pc = "idle" /\ stored' = 0
        /\ UNCHANGED <<dev, ret, link, framVars, twi, worker>>
    BY <2>1
  <2>. QED
    BY <1>0, <2>2, <2>4, <2>5 DEF CallInv, Transferring
<1>2. CASE readReg
  <2>1. PICK r \in Reads : Begin([offset |-> r.offset, length |-> r.length, op |-> "read"], 0)
    BY <1>2 DEF readReg
  <2>2. /\ r.offset \in Nat /\ r.length \in Nat \ {0}
        /\ r.offset + r.length <= SIZE /\ High(r.offset) + r.length <= NONE
    BY <2>1, CallAssumption
  <2>3. r.offset < SIZE /\ High(r.offset) < NONE
    <3>1. High(r.offset) \in Nat
      BY <2>2, Halves
    <3>. QED
      BY <2>2, <3>1, Constants
  <2>4. /\ call'.op = "read" /\ call'.offset = r.offset
        /\ pc' = "start" /\ got' = <<>> /\ pc = "idle" /\ stored' = 0
        /\ UNCHANGED <<dev, ret, link, framVars, twi, worker>>
    BY <2>1
  <2>. QED
    BY <1>0, <2>2, <2>3, <2>4 DEF CallInv, Transferring
<1>3. CASE probe
  BY <1>0, <1>3, SMTT(30) DEF probe, CallInv, Transferring
<1>. QED
  BY <1>1, <1>2, <1>3

\* Every step of the controller goes on with the call.
LEMMA CallStep == CallInv /\ [Next]_vars => CallInv'
<1>. SUFFICES ASSUME CallInv, [Next]_vars PROVE CallInv'
  OBVIOUS
<1>1. CASE writeReg \/ readReg \/ probe
  BY <1>1, BeginCall
<1>. USE DEF CallInv, Transferring
<1>2. CASE StartWrite \/ StartRead
  BY <1>2 DEF StartWrite, StartRead, i2c_start, Answer
<1>3. CASE StartProbe
  BY <1>3 DEF StartProbe
<1>4. CASE ProbeAnswer
  BY <1>4 DEF ProbeAnswer, Answer
<1>5. CASE Waiting
  BY <1>5 DEF Waiting
<1>6. CASE OffsetHigh \/ OffsetLow
  <2>1. /\ UNCHANGED <<dev, call, got>> /\ link' # "pending"
        /\ \/ pc = "high" /\ pc' = "low"
           \/ pc = "low" /\ pc' = IF call.op = "write" THEN "data" ELSE "restart"
    BY <1>6 DEF OffsetHigh, OffsetLow, Offset, Transfer
  <2>2. call.op = "write" => 0 < Len(call.bytes)
    OBVIOUS
  <2>3. got = <<>> /\ got' = got /\ got \in Seq(Byte) /\ Len(got) = 0
    <3>1. got = <<>> /\ got' = got
      BY <2>1
    <3>2. <<>> \in Seq(Byte) /\ Len(<<>>) = 0
      OBVIOUS
    <3>. QED
      BY <3>1, <3>2, Zenon
  <2>. QED
    BY <2>1, <2>2, <2>3
<1>7. CASE i2c_write
  <2>1. /\ pc = "data" /\ UNCHANGED <<dev, call>> /\ link' # "pending"
        /\ \/ pc' = "idle" /\ UNCHANGED got
           \/ /\ got' = Append(got, call.bytes[Len(got) + 1])
              /\ pc' = IF Len(got') = Len(call.bytes) THEN "stop" ELSE "data"
    BY <1>7 DEF i2c_write, Transfer
  <2>2. CASE pc' = "idle" /\ UNCHANGED got
    BY <2>1, <2>2
  <2>3. CASE /\ got' = Append(got, call.bytes[Len(got) + 1])
             /\ pc' = IF Len(got') = Len(call.bytes) THEN "stop" ELSE "data"
    <3>1. Len(got) \in Nat /\ Len(call.bytes) \in Nat /\ Len(got) < Len(call.bytes)
      BY <2>1
    <3>2. call.bytes[Len(got) + 1] \in Byte
      BY <2>1, <3>1
    <3>3. got' \in Seq(Byte) /\ Len(got') = Len(got) + 1
      <4>1. got \in Seq(Byte)
        BY <2>1
      <4>. QED
        BY <2>3, <3>2, <4>1
    <3>. QED
      BY <2>1, <2>3, <3>1, <3>3
  <2>. QED
    BY <2>1, <2>2, <2>3
<1>8. CASE Restart
  BY <1>8 DEF Restart
<1>9. CASE i2c_read
  BY <1>9 DEF i2c_read
<1>10. CASE i2c_stop
  BY <1>10 DEF i2c_stop
<1>11. CASE Handle \/ Job \/ UNCHANGED vars
  BY <1>11 DEF Handle, Job, controller, vars
<1>. QED
  BY <1>1, <1>2, <1>3, <1>4, <1>5, <1>6, <1>7, <1>8, <1>9, <1>10, <1>11, ZenonT(30)
  DEF Next, Calls, Driver, Worker

-----------------------------------------------------------------------------
(* The device                                                              *)

\* While the call goes on, so does what the device is to store.
LEMMA SameCall ==
  ASSUME UNCHANGED <<dev, call>> PROVE UNCHANGED <<start, bytes>>
  BY DEF start, bytes

\* The FRAM: its pointer follows the bytes that it acknowledged.
LEMMA FramStep == CallInv /\ FramInv /\ [Next]_vars => FramInv'
<1>. SUFFICES ASSUME CallInv, FramInv, [Next]_vars, dev' = "fram" PROVE FramInv'
  BY DEF FramInv
<1>0. dev = "fram" /\ event = "none"
  <2>1. dev' = dev
    BY Zenon DEF Next, Calls, Driver, Worker, writeReg, readReg, probe, Begin, StartWrite, StartRead,
       i2c_start, Answer, StartProbe, ProbeAnswer, Waiting, OffsetHigh, OffsetLow, Offset,
       i2c_write, Restart, i2c_read, i2c_stop, Handle, Job, vars
  <2>. QED
    BY <2>1, SMTT(30) DEF FramInv
<1>1. CASE writeReg \/ readReg \/ probe
  BY <1>0, <1>1, BeginCall DEF FramInv, framVars, twi
<1>2. CASE StartWrite \/ StartRead
  BY <1>0, <1>2 DEF StartWrite, StartRead, i2c_start, Answer, FramInv
<1>3. CASE StartProbe
  BY <1>0, <1>3 DEF StartProbe, FramInv, twi
<1>4. CASE ProbeAnswer
  BY <1>0, <1>4 DEF ProbeAnswer, Answer, FramInv, CallInv
<1>5. CASE Waiting
  BY <1>0, <1>5 DEF Waiting, FramInv, twi
<1>6. CASE OffsetHigh
  BY <1>0, <1>6 DEF OffsetHigh, Offset, Transfer, FramInv, framVars
<1>7. CASE OffsetLow
  <2>0. /\ call.offset \in Nat /\ call.offset < SIZE /\ got = <<>> /\ Len(<<>>) = 0
        /\ SIZE \in Nat
    BY <1>7, Constants DEF OffsetLow, Offset, CallInv
  <2>1. /\ pc' = (IF call.op = "write" THEN "data" ELSE "restart") /\ pc = "low"
        /\ UNCHANGED <<dev, call, got, stored, event>>
        /\ link' = "write" => link = "write" /\ pointer' = (pointer + Low(call.offset)) % SIZE
    BY <1>0, <1>7 DEF OffsetLow, Offset, Transfer, framVars
  <2>2. link' = "write" => pointer + Low(call.offset) = call.offset
    <3>1. High(call.offset) * (NONE + 1) + Low(call.offset) = call.offset
      BY <2>0, Halves, SMTT(30)
    <3>. QED
      BY <1>0, <2>1, <3>1 DEF FramInv
  <2>3. call.offset % SIZE = call.offset
    BY <2>0
  <2>4. link' = "write" => pointer' = call.offset + Len(got)
    BY <2>0, <2>1, <2>2, <2>3
  <2>. QED
    BY <1>0, <2>0, <2>1, <2>4 DEF FramInv
<1>8. CASE i2c_write
  <2>0. /\ call.offset \in Nat /\ SIZE \in Nat /\ call.op = "write" /\ pc = "data"
        /\ got \in Seq(Byte) /\ call.bytes \in Seq(Byte)
        /\ Len(got) < Len(call.bytes) /\ call.offset + Len(call.bytes) <= SIZE
    BY <1>8, Constants DEF i2c_write, CallInv, Transferring
  <2>1. /\ UNCHANGED <<dev, call, event>>
        /\ \/ pc' = "idle"
           \/ /\ got' = Append(got, call.bytes[Len(got) + 1])
              /\ pc' = IF Len(got') = Len(call.bytes) THEN "stop" ELSE "data"
              /\ link = "write" /\ pointer' = (pointer + 1) % SIZE /\ stored' = stored + 1
    BY <1>0, <1>8 DEF i2c_write, Transfer, framVars
  <2>2. CASE pc' = "idle"
    BY <1>0, <2>1, <2>2 DEF FramInv
  <2>3. CASE pc' # "idle"
    <3>1. Len(got) \in Nat /\ Len(call.bytes) \in Nat /\ call.bytes[Len(got) + 1] \in Byte
      BY <2>0
    <3>2. Len(got') = Len(got) + 1
      BY <2>0, <2>1, <2>3, <3>1
    <3>3. pointer = call.offset + Len(got) /\ stored = Len(got)
      BY <1>0, <2>0, <2>1, <2>3 DEF FramInv
    <3>4. pc' = "data" => pointer + 1 < SIZE
      BY <2>0, <2>1, <2>3, <3>1, <3>2, <3>3
    <3>5. pc' = "data" => pointer' = call.offset + Len(got')
      <4>1. pointer + 1 \in Nat /\ pointer + 1 = call.offset + Len(got')
        <5>1. call.offset \in Nat /\ Len(got) \in Nat
          BY <2>0, <3>1
        <5>2. ASSUME NEW o \in Nat, NEW l \in Nat PROVE (o + l) + 1 \in Nat /\ (o + l) + 1 = o + (l + 1)
          BY <5>2
        <5>. QED
          BY <3>2, <3>3, <5>1, <5>2, Zenon
      <4>2. ASSUME NEW x \in Nat, x < SIZE PROVE x % SIZE = x
        BY <2>0, <4>2, SMTT(30)
      <4>. QED
        BY <2>1, <2>3, <3>4, <4>1, <4>2
    <3>. QED
      BY <1>0, <2>0, <2>1, <2>3, <3>2, <3>3, <3>5, SMTT(30) DEF FramInv
  <2>. QED
    BY <2>2, <2>3
<1>9. CASE Restart
  BY <1>0, <1>9 DEF Restart, FramInv
<1>10. CASE i2c_read
  BY <1>0, <1>10 DEF i2c_read, FramInv, CallInv
<1>11. CASE i2c_stop
  BY <1>0, <1>11 DEF i2c_stop, FramInv
<1>12. CASE Handle
  BY <1>0, <1>12 DEF Handle, Receive, Send, OtherEvent
<1>13. CASE Job \/ UNCHANGED vars
  BY <1>0, <1>13 DEF Job, controller, framVars, twi, vars, FramInv
<1>. QED
  BY <1>1, <1>2, <1>3, <1>4, <1>5, <1>6, <1>7, <1>8, <1>9, <1>10, <1>11, <1>12, <1>13
  DEF Next, Calls, Driver, Worker

\* The worker: buffer_address follows the bytes that the handler stored.
LEMMA WorkerStep == CallInv /\ WorkerInv /\ [Next]_vars => WorkerInv'
<1>. SUFFICES ASSUME CallInv, WorkerInv, [Next]_vars, dev' = "worker" PROVE WorkerInv'
  BY SMTT(30) DEF WorkerInv
<1>0. dev = "worker"
  BY Zenon DEF Next, Calls, Driver, Worker, writeReg, readReg, probe, Begin, StartWrite, StartRead,
     i2c_start, Answer, StartProbe, ProbeAnswer, Waiting, OffsetHigh, OffsetLow, Offset,
     i2c_write, Restart, i2c_read, i2c_stop, Handle, Job, vars
<1>1. CASE writeReg \/ readReg \/ probe
  BY <1>0, <1>1, BeginCall DEF WorkerInv, twi
<1>2. CASE StartWrite \/ StartRead
  BY <1>0, <1>2 DEF StartWrite, StartRead, i2c_start, Answer, WorkerInv
<1>3. CASE StartProbe
  BY <1>0, <1>3 DEF StartProbe, WorkerInv, twi
<1>4. CASE ProbeAnswer
  BY <1>0, <1>4 DEF ProbeAnswer, Answer, WorkerInv, CallInv
<1>5. CASE Waiting
  BY <1>0, <1>5 DEF Waiting, WorkerInv, twi
<1>6. CASE OffsetHigh
  BY <1>0, <1>6 DEF OffsetHigh, Offset, Transfer, WorkerInv, HighSent, worker
<1>7. CASE OffsetLow
  <2>0. /\ got = <<>> /\ Len(<<>>) = 0 /\ pc = "low" /\ Transferring /\ High(call.offset) \in Nat
        /\ High(call.offset) < NONE /\ HighSent /\ event = "none"
    <3>1. got = <<>> /\ pc = "low" /\ Transferring /\ HighSent /\ event = "none"
      BY <1>0, <1>7 DEF OffsetLow, Offset, CallInv, WorkerInv
    <3>2. call.offset \in Nat /\ High(call.offset) < NONE
      BY <3>1 DEF CallInv
    <3>. QED
      BY <3>1, <3>2, Halves, SMTT(30)
  <2>1. /\ pc' = (IF call.op = "write" THEN "data" ELSE "restart")
        /\ UNCHANGED <<dev, call, got, stored, buffer_address>>
        /\ link' = "write" /\ event' = "SR_DATA_ACK" /\ TWDR' = Low(call.offset)
    BY <1>0, <1>7, <2>0 DEF OffsetLow, Offset, Transfer, worker, HighSent
  <2>2. bytes' = bytes /\ bytes[1] = Low(call.offset)
    BY <1>0, <2>0, <2>1, SameCall, BytesAre DEF Transferring
  <2>3. DataSent(0)'
    BY <2>0, <2>1, <2>2 DEF DataSent, HighSent
  <2>. QED
    BY <1>0, <2>0, <2>1, <2>3 DEF WorkerInv
<1>8. CASE i2c_write
  <2>0. /\ call.offset \in Nat /\ call.op = "write" /\ pc = "data" /\ event = "none"
        /\ got \in Seq(Byte) /\ call.bytes \in Seq(Byte) /\ Len(got) < Len(call.bytes)
        /\ DataSent(Len(got))
    BY <1>0, <1>8, SMTT(30) DEF i2c_write, CallInv, Transferring, WorkerInv
  <2>1. /\ UNCHANGED <<dev, call, stored, buffer_address>>
        /\ \/ pc' = "idle" /\ event' = "SR_DATA_NACK"
           \/ /\ got' = Append(got, call.bytes[Len(got) + 1])
              /\ pc' = IF Len(got') = Len(call.bytes) THEN "stop" ELSE "data"
              /\ link' = "write" /\ event' = "SR_DATA_ACK" /\ TWEA = "yes"
              /\ TWDR' = call.bytes[Len(got) + 1]
    BY <1>0, <1>8, <2>0, SMTT(30) DEF i2c_write, Transfer, worker, DataSent
  <2>2. CASE pc' = "idle"
    BY <2>1, <2>2, ZenonT(30) DEF WorkerInv
  <2>3. CASE pc' # "idle"
    <3>1. Len(got) \in Nat /\ Len(call.bytes) \in Nat /\ call.bytes[Len(got) + 1] \in Byte
      BY <2>0
    <3>2. Len(got') = Len(got) + 1 /\ Len(got') \in Nat
      BY <2>0, <2>1, <2>3, <3>1
    <3>3. bytes' = bytes /\ bytes[Len(got) + 2] = call.bytes[Len(got) + 1]
      <4>1. Len(got) \in 0..Len(call.bytes) - 1
        BY <2>0, <3>1
      <4>. QED
        BY <1>0, <2>0, <2>1, <4>1, SameCall, BytesAre
    <3>4. Len(got') + 1 = Len(got) + 2
      BY <3>1, <3>2
    <3>5. /\ stored' = Len(got') /\ buffer_address' = High(call.offset) + Len(got')
          /\ buffer_address' < NONE
      <4>1. High(call.offset) \in Nat
        BY <2>0, Halves, ZenonT(30)
      <4>2. /\ stored = Len(got) + 1 /\ buffer_address = High(call.offset) + Len(got) + 1
            /\ buffer_address < NONE
        BY <2>0, <2>1, <2>3 DEF DataSent
      <4>. QED
        BY <2>1, <3>1, <3>2, <4>1, <4>2
    <3>6. DataSent(Len(got))'
      BY <2>1, <2>3, <3>3, <3>4, <3>5, SMTT(30) DEF DataSent
    <3>. QED
      BY <2>0, <2>1, <2>3, <3>6 DEF WorkerInv
  <2>. QED
    BY <2>2, <2>3
<1>9. CASE Restart
  <2>1. DataSent(Len(got)) /\ got = <<>> /\ Len(<<>>) = 0 /\ event = "none"
    BY <1>0, <1>9 DEF Restart, WorkerInv, CallInv
  <2>. QED
    BY <1>0, <1>9, <2>1 DEF Restart, WorkerInv, DataSent
<1>10. CASE i2c_read
  BY <1>0, <1>10, Zenon DEF i2c_read, WorkerInv, CallInv
<1>11. CASE i2c_stop
  BY <1>0, <1>11 DEF i2c_stop, WorkerInv
<1>12. CASE Handle
  <2>1. UNCHANGED <<dev, call, pc, got, link>> /\ event' = "none" /\ (Receive \/ Send \/ OtherEvent)
    BY <1>12 DEF Handle, controller
  <2>2. bytes' = bytes
    BY <2>1, SameCall, SMTT(30)
  <2>3. CASE Send \/ OtherEvent
    BY <1>0, <2>1, <2>3 DEF Send, OtherEvent, WorkerInv, HighSent, DataSent
  <2>4. CASE Receive
    <3>1. pc = "low" \/ pc \in {"data", "restart"} \/ (pc = "stop" /\ call.op = "write")
      BY <1>0, <2>4 DEF Receive, WorkerInv, CallInv, Transferring
    <3>2. CASE pc = "low"
      BY <1>0, <2>1, <2>4, <3>2 DEF Receive, WorkerInv, HighSent
    <3>3. CASE pc \in {"data", "restart"} \/ (pc = "stop" /\ call.op = "write")
      <4>1. DataSent(Len(got)) /\ Transferring /\ call.offset \in Nat /\ Len(got) \in Nat
        <5>1. DataSent(Len(got)) /\ Transferring /\ call.offset \in Nat
          BY <1>0, <3>3 DEF WorkerInv, CallInv, Transferring
        <5>2. got \in Seq(Byte) \/ got = <<>>
          BY <3>3 DEF CallInv
        <5>. QED
          BY <5>1, <5>2
      <4>2. /\ stored = Len(got) /\ buffer_address = High(call.offset) + Len(got)
            /\ buffer_address < NONE /\ High(call.offset) \in Nat
        BY <2>4, <4>1, Halves, SMTT(30) DEF Receive, DataSent
      <4>3. buffer_address # NONE
        BY <4>1, <4>2, Constants
      <4>4. /\ buffer_address' = buffer_address + 1 /\ stored' = stored + 1
            /\ TWEA' = IF buffer_address' < NONE THEN "yes" ELSE "no"
        BY <2>4, <4>3 DEF Receive, Space
      <4>5. DataSent(Len(got))'
        BY <2>1, <4>1, <4>2, <4>4 DEF DataSent
      <4>. QED
        BY <1>0, <2>1, <3>3, <4>5 DEF WorkerInv
    <3>. QED
      BY <3>1, <3>2, <3>3, SMTT(30)
  <2>. QED
    BY <2>1, <2>3, <2>4
<1>13. CASE Job \/ UNCHANGED vars
  <2>1. /\ UNCHANGED <<dev, call, pc, got, link, event, TWDR, TWEA, buffer_address, stored>>
    BY <1>13 DEF Job, controller, twi, vars, worker
  <2>2. bytes' = bytes
    BY <2>1, SameCall
  <2>. QED
    BY <2>1, <2>2 DEF WorkerInv, HighSent, DataSent
<1>. QED
  BY <1>1, <1>2, <1>3, <1>4, <1>5, <1>6, <1>7, <1>8, <1>9, <1>10, <1>11, <1>12, <1>13
  DEF Next, Calls, Driver, Worker

-----------------------------------------------------------------------------
(* The refinement                                                          *)

BusInv == CallInv /\ FramInv /\ WorkerInv

\* A step that touches no memory and does not return is none of the store's.
LEMMA Stutter ==
  ASSUME UNCHANGED <<dev, call, fram, in_buffer, stored, ret>>, pc = "idle" <=> pc' = "idle"
  PROVE  UNCHANGED Store!vars
  BY SameCall DEF Store!vars, cells, busy

\* A step that returns, with 0 only if all is stored, is the store's Return.
LEMMA Returns ==
  ASSUME UNCHANGED <<dev, call, fram, in_buffer, stored>>, pc # "idle", pc' = "idle",
         ret' = 0 => stored = Len(bytes)
  PROVE  Store!Return
  BY SameCall DEF Store!Return, cells, busy

\* Every step is one of the store's, or none.
LEMMA StoreStep == BusInv /\ [Next]_vars => [Store!Next]_Store!vars
<1>. SUFFICES ASSUME CallInv, FramInv, WorkerInv, [Next]_vars PROVE [Store!Next]_Store!vars
  BY SMTT(30) DEF BusInv
<1>. USE DEF Store!Next
<1>0. dev \in {"fram", "worker"} /\ Len(<<>>) = 0
  BY DEF CallInv
<1>1. CASE writeReg \/ readReg \/ probe
  <2>1. /\ pc = "idle" /\ pc' = "start" /\ stored' = 0
        /\ UNCHANGED <<dev, ret, fram, in_buffer>>
    BY <1>1, BeginCall DEF framVars, worker
  <2>2. Store!Begin
    BY <2>1 DEF Store!Begin, cells, busy
  <2>. QED
    BY <2>2
<1>2. CASE StartWrite \/ StartRead
  <2>1. /\ UNCHANGED <<dev, call, fram, in_buffer, stored>> /\ pc # "idle"
        /\ (pc' # "idle" /\ ret' = ret) \/ (pc' = "idle" /\ ret' = 1)
    BY <1>2 DEF StartWrite, StartRead, i2c_start, Answer, framVars, worker
  <2>. QED
    BY <2>1, Stutter, Returns
<1>3. CASE StartProbe
  BY <1>3, Stutter DEF StartProbe, framVars, worker
<1>4. CASE ProbeAnswer
  BY <1>4, Stutter DEF ProbeAnswer, Answer, framVars, worker
<1>5. CASE Waiting
  <2>1. stored = Len(bytes) /\ pc = "wait"
    BY <1>0, <1>5, BytesAre DEF Waiting, CallInv, FramInv, WorkerInv
  <2>2. /\ UNCHANGED <<dev, call, fram, in_buffer, stored>>
        /\ pc' = "idle" \/ (pc' = pc /\ ret' = ret)
    BY <1>5, SMTT(30) DEF Waiting, framVars, worker
  <2>. QED
    BY <2>1, <2>2, Stutter, Returns, SMTT(30)
<1>6. CASE OffsetHigh \/ OffsetLow
  BY <1>6, Stutter DEF OffsetHigh, OffsetLow, Offset, Transfer, framVars, worker
<1>7. CASE i2c_write
  <2>0. /\ call.op = "write" /\ pc = "data" /\ got \in Seq(Byte) /\ call.bytes \in Seq(Byte)
        /\ Len(got) < Len(call.bytes) /\ UNCHANGED <<dev, call, in_buffer>>
    BY <1>7, Zenon DEF i2c_write, CallInv, worker
  <2>1. CASE dev = "fram" /\ pc' # "idle"
    <3>1. /\ fram' = [fram EXCEPT ![pointer] = call.bytes[Len(got) + 1]]
          /\ stored' = stored + 1 /\ ret' = ret /\ link = "write"
      BY <1>7, <2>1, <2>0 DEF i2c_write, Transfer
    <3>2. pointer = start + stored /\ stored = Len(got) /\ bytes = call.bytes
      BY <2>0, <2>1, <3>1, BytesAre DEF FramInv, start
    <3>3. Store!Store
      BY <2>0, <2>1, <3>1, <3>2, SameCall, SMTT(30) DEF Store!Store, cells, busy
    <3>. QED
      BY <3>3, SMTT(30)
  <2>2. CASE dev = "worker" /\ pc' # "idle"
    BY <1>7, <2>0, <2>2, Stutter, Zenon DEF i2c_write, Transfer, framVars
  <2>3. CASE pc' = "idle"
    <3>1. ret' = 1 /\ UNCHANGED <<fram, stored>>
      BY <1>7, <2>3 DEF i2c_write, Transfer, framVars
    <3>. QED
      BY <2>0, <2>3, <3>1, Returns, SMTT(30)
  <2>. QED
    BY <1>0, <2>1, <2>2, <2>3, SMTT(30)
<1>8. CASE Restart
  BY <1>8, Stutter DEF Restart, framVars, worker
<1>9. CASE i2c_read
  BY <1>9, Stutter DEF i2c_read, framVars, worker
<1>10. CASE i2c_stop
  <2>1. /\ pc = "stop" /\ event = "none" /\ pc' = "idle"
        /\ UNCHANGED <<dev, call, fram, in_buffer, stored>>
    BY <1>10 DEF i2c_stop, framVars, worker
  <2>2. call.op \in {"write", "read"}
    BY <2>1 DEF CallInv, Transferring
  <2>3. stored = Len(bytes)
    <3>1. CASE call.op = "write"
      BY <1>0, <2>1, <3>1, BytesAre DEF CallInv, FramInv, WorkerInv, DataSent
    <3>2. CASE call.op = "read"
      <4>1. Len(<<Low(call.offset)>>) = 1
        BY SMTT(30)
      <4>2. CASE dev = "fram"
        BY <1>0, <2>1, <3>2, <4>2, BytesAre, Zenon DEF FramInv
      <4>3. CASE dev = "worker"
        <5>1. stored = 1
          BY <2>1, <3>2, <4>3, ZenonT(30) DEF WorkerInv
        <5>2. bytes = <<Low(call.offset)>>
          BY <3>2, <4>3, BytesAre, ZenonT(30)
        <5>. QED
          BY <4>1, <5>1, <5>2, ZenonT(30)
      <4>. QED
        BY <1>0, <4>2, <4>3
    <3>. QED
      BY <2>2, <3>1, <3>2, SMTT(30)
  <2>. QED
    BY <2>1, <2>3, Returns
<1>11. CASE Handle
  <2>1. /\ UNCHANGED <<dev, call, pc, got, link, fram, ret>> /\ event # "none"
        /\ Receive \/ Send \/ OtherEvent
    BY <1>11, Zenon DEF Handle, controller, framVars, Receive, Send, OtherEvent
  <2>2. CASE UNCHANGED <<in_buffer, stored>>
    BY <2>1, <2>2, Stutter
  <2>3. CASE Receive /\ buffer_address # NONE
    <3>1. dev = "worker" /\ event = "SR_DATA_ACK"
      BY <1>0, <2>1, <2>3, SMTT(30) DEF FramInv, Receive
    <3>2. /\ pc \in {"data", "restart"} \/ (pc = "stop" /\ call.op = "write")
          /\ DataSent(Len(got))
      BY <2>3, <3>1, ZenonT(30) DEF WorkerInv, HighSent, CallInv, Transferring
    <3>3. /\ stored = Len(got) /\ buffer_address = High(call.offset) + stored
          /\ TWDR = bytes[stored + 1]
      BY <3>1, <3>2, SMTT(30) DEF DataSent
    <3>4. call.op \in {"write", "read"} /\ start = High(call.offset)
      BY <3>1, <3>2, Zenon DEF start, CallInv
    <3>5. stored < Len(bytes)
      <4>1. CASE call.op = "read"
        <5>1. bytes = <<Low(call.offset)>>
          BY <3>1, <4>1, <1>0, BytesAre
        <5>2. pc = "restart"
          BY <3>2, <4>1 DEF CallInv
        <5>3. got = <<>>
          BY <5>2 DEF CallInv
        <5>. QED
          BY <3>3, <5>1, <5>3
      <4>2. CASE call.op = "write"
        <5>0. call.bytes \in Seq(Byte)
          BY <4>2 DEF CallInv
        <5>1. Len(bytes) = Len(call.bytes) + 1 /\ Len(call.bytes) \in Nat
          <6>1. Len(bytes) = Len(call.bytes) + 1
            BY <1>0, <3>1, <4>2, BytesAre
          <6>. QED
            BY <5>0, <6>1
        <5>2. Len(got) \in Nat /\ Len(got) <= Len(call.bytes)
          BY <3>2, <4>2 DEF CallInv
        <5>. QED
          BY <3>3, <5>1, <5>2
      <4>. QED
        BY <3>4, <4>1, <4>2
    <3>6. /\ in_buffer' = [in_buffer EXCEPT ![start + stored] = bytes[stored + 1]]
          /\ stored' = stored + 1
      BY <2>3, <3>3, <3>4 DEF Receive
    <3>7. Store!Store
      BY <2>1, <3>1, <3>2, <3>5, <3>6, SameCall DEF Store!Store, cells, busy
    <3>. QED
      BY <3>7
  <2>. QED
    BY <2>1, <2>2, <2>3, Zenon DEF Receive, Send, OtherEvent
<1>12. CASE Job \/ UNCHANGED vars
  BY <1>12, Stutter DEF Job, controller, framVars, vars, worker
<1>. QED
  BY <1>1, <1>2, <1>3, <1>4, <1>5, <1>6, <1>7, <1>8, <1>9, <1>10, <1>11, <1>12
  DEF Next, Calls, Driver, Worker

\* i2c_writeReg and i2c_readReg, the FRAM and the handler of the worker implement
\* the store of ByteStore: bytes in order, at consecutive addresses, all of them if
\* the call returns 0, for calls of any length and any offset.
THEOREM StoresInOrderHolds == Spec => StoresInOrder
<1>1. Init => BusInv
  BY DEF Init, BusInv, CallInv, FramInv, WorkerInv, Transferring
<1>2. BusInv /\ [Next]_vars => BusInv'
  BY CallStep, FramStep, WorkerStep DEF BusInv
<1>3. Init => Store!Init
  BY DEF Init, Store!Init, busy
<1>. QED
  BY <1>1, <1>2, <1>3, StoreStep, PTL DEF Spec, StoresInOrder, Store!Spec

-----------------------------------------------------------------------------
(* What i2c_readReg returns: from the FRAM the bytes at the offset, from a *)
(* worker the bytes of one result.  The invariants above say where the     *)
(* device is when it has its offset; the ones below follow the read.       *)

Finished == call.op = "read" /\ (pc = "stop" \/ (pc = "idle" /\ ret = 0))
IsSequence(s) == \E S : s \in Seq(S)

\* The length of the read, and how far it has come
ReadCall ==
  /\ call.op = "read" => /\ call.length \in Nat \ {0} /\ call.offset + call.length <= SIZE
                         /\ High(call.offset) + call.length <= NONE
  /\ pc = "address" => got = <<>>
  /\ pc = "read" => Len(got) < call.length
  /\ Finished => Len(got) = call.length
  /\ pc = "read" \/ Finished => IsSequence(got)

\* A byte is put behind those that i2c_readReg has read.
LEMMA Appended ==
  ASSUME NEW s, NEW x, IsSequence(s)
  PROVE  /\ IsSequence(Append(s, x)) /\ Len(s) \in Nat /\ Len(Append(s, x)) = Len(s) + 1
         /\ \A k \in 1..Len(s) : Append(s, x)[k] = s[k]
         /\ Append(s, x)[Len(s) + 1] = x
         /\ s = <<>> <=> Len(s) = 0
         /\ Append(s, x) # <<>>
<1>1. PICK S : s \in Seq(S)
  BY DEF IsSequence
<1>. DEFINE T == S \cup {x}
<1>2. s \in Seq(T) /\ x \in T
  BY <1>1
<1>. HIDE DEF T
<1>3. /\ Append(s, x) \in Seq(T) /\ Len(s) \in Nat /\ Len(Append(s, x)) = Len(s) + 1
      /\ \A k \in 1..Len(s) : Append(s, x)[k] = s[k]
      /\ Append(s, x)[Len(s) + 1] = x
  BY <1>2
<1>4. s = <<>> <=> Len(s) = 0
  BY <1>2
<1>5. Append(s, x) # <<>>
  <2>1. Len(Append(s, x)) # 0
    BY <1>3
  <2>2. Len(<<>>) = 0
    OBVIOUS
  <2>. QED
    BY <2>1, <2>2, Zenon
<1>. QED
  BY <1>3, <1>4, <1>5 DEF IsSequence

\* Nothing to read yet
LEMMA NoBytes == IsSequence(<<>>) /\ Len(<<>>) = 0
<1>1. <<>> \in Seq({})
  BY SMTT(30)
<1>. QED
  BY <1>1 DEF IsSequence

\* The device is the same all along (all actions).
LEMMA SameDevice == [Next]_vars => dev' = dev
  BY Zenon DEF Next, Calls, Driver, Worker, writeReg, readReg, probe, Begin, StartWrite, StartRead,
     i2c_start, Answer, StartProbe, ProbeAnswer, Waiting, OffsetHigh, OffsetLow, Offset,
     i2c_write, Restart, i2c_read, i2c_stop, Handle, Job, vars

\* Every step of i2c_readReg reads at most one byte, and the last one ends it.
LEMMA ReadCallStep == CallInv /\ ReadCall /\ [Next]_vars => ReadCall'
<1>. SUFFICES ASSUME CallInv, ReadCall, [Next]_vars PROVE ReadCall'
  OBVIOUS
<1>1. CASE writeReg \/ readReg \/ probe
  <2>1. pc' = "start"
    BY <1>1, BeginCall
  <2>2. CASE call'.op = "read"
    <3>1. CASE readReg
      <4>1. PICK r \in Reads : call' = [offset |-> r.offset, length |-> r.length, op |-> "read"]
        BY <3>1 DEF readReg, Begin
      <4>2. /\ r.length \in Nat \ {0}
            /\ r.offset + r.length <= SIZE /\ High(r.offset) + r.length <= NONE
        BY CallAssumption
      <4>. QED
        BY <2>1, <4>1, <4>2 DEF ReadCall, Finished
    <3>2. CASE writeReg
      <4>1. PICK w \in Writes : call' = [offset |-> w.offset, bytes |-> w.bytes, op |-> "write"]
        BY <3>2 DEF writeReg, Begin
      <4>. QED
        BY <2>2, <4>1
    <3>3. CASE probe
      <4>1. call' = [op |-> "probe"]
        BY <3>3 DEF probe, Begin
      <4>. QED
        BY <2>2, <4>1
    <3>. QED
      BY <1>1, <3>1, <3>2, <3>3
  <2>. QED
    BY <2>1, <2>2 DEF ReadCall, Finished
<1>2. CASE StartWrite \/ StartRead
  <2>1. /\ UNCHANGED <<call, got>> /\ pc' \in {"high", "read", "idle"}
        /\ pc' = "read" => pc = "address" /\ call.op = "read"
        /\ pc' = "idle" => ret' = 1
    BY <1>2 DEF StartWrite, StartRead, i2c_start, Answer, CallInv
  <2>2. pc' = "read" => got = <<>> /\ 0 < call.length
    BY <2>1 DEF ReadCall
  <2>3. pc' = "read" => Len(got) < call.length /\ IsSequence(got)
    BY <2>2, NoBytes
  <2>. QED
    BY <2>1, <2>3 DEF ReadCall, Finished
<1>3. CASE StartProbe \/ ProbeAnswer \/ Waiting
  <2>1. /\ UNCHANGED <<call, got>> /\ call.op = "probe"
        /\ pc' \in {"wait", "idle"}
    BY <1>3 DEF StartProbe, ProbeAnswer, Answer, Waiting, CallInv
  <2>. QED
    BY <2>1 DEF ReadCall, Finished
<1>4. CASE OffsetHigh \/ OffsetLow
  <2>1. UNCHANGED <<call, got>> /\ pc' \in {"low", "data", "restart"}
    BY <1>4 DEF OffsetHigh, OffsetLow, Offset
  <2>. QED
    BY <2>1 DEF ReadCall, Finished
<1>5. CASE i2c_write
  <2>1. UNCHANGED call /\ call.op = "write" /\ pc' \in {"idle", "data", "stop"}
    BY <1>5, Zenon DEF i2c_write, CallInv
  <2>. QED
    BY <2>1 DEF ReadCall, Finished
<1>6. CASE Restart
  BY <1>6, ZenonT(30) DEF Restart, ReadCall, Finished, CallInv
<1>7. CASE i2c_read
  <2>1. PICK x : got' = Append(got, x)
    BY <1>7 DEF i2c_read
  <2>2. /\ UNCHANGED call /\ pc = "read" /\ call.op = "read" /\ IsSequence(got)
        /\ pc' = IF Len(got) + 1 = call.length THEN "stop" ELSE "read"
    BY <1>7 DEF i2c_read, Last, CallInv, ReadCall
  <2>3. Len(got) \in Nat /\ Len(got') = Len(got) + 1 /\ IsSequence(got')
    BY <2>1, <2>2, Appended
  <2>4. Len(got) < call.length /\ call.length \in Nat
    BY <2>2 DEF ReadCall
  <2>5. pc' = "read" => Len(got') < call.length
    BY <2>2, <2>3, <2>4
  <2>6. pc' = "stop" => Len(got') = call.length
    BY <2>2, <2>3, <2>4
  <2>. QED
    BY <2>2, <2>3, <2>5, <2>6 DEF ReadCall, Finished
<1>8. CASE i2c_stop
  BY <1>8 DEF i2c_stop, ReadCall, Finished
<1>9. CASE Handle \/ Job \/ UNCHANGED vars
  <2>1. UNCHANGED <<call, got, pc, ret>>
    BY <1>9 DEF Handle, Job, controller, vars
  <2>. QED
    BY <2>1 DEF ReadCall, Finished
<1>. QED
  BY <1>1, <1>2, <1>3, <1>4, <1>5, <1>6, <1>7, <1>8, <1>9 DEF Next, Calls, Driver, Worker

-----------------------------------------------------------------------------
(* The FRAM                                                                *)

\* As long as the FRAM has missed nothing its pointer is where i2c_readReg is.
FramRead ==
  dev = "fram" /\ ignored = "no" =>
    /\ pc \in {"high", "low"} => link = "write"
    /\ pc \in {"restart", "address"} => pointer = call.offset
    /\ pc = "read" => pointer = call.offset + Len(got)
    /\ pc = "read" \/ Finished => \A k \in 1..Len(got) : got[k] = fram[call.offset + k - 1]

\* The pointer of the FRAM moves on with every byte that is read, and nothing is
\* written meanwhile (i2c_readReg).
LEMMA FramReadStep ==
  CallInv /\ FramInv /\ ReadCall /\ FramRead /\ [Next]_vars => FramRead'
<1>. SUFFICES ASSUME CallInv, FramInv, ReadCall, FramRead, [Next]_vars,
                     dev' = "fram", ignored' = "no"
              PROVE  FramRead'
  BY Zenon DEF FramRead
<1>0. dev = "fram" /\ event = "none"
  BY SameDevice DEF FramInv
<1>1. CASE writeReg \/ readReg \/ probe
  BY <1>1, BeginCall, Zenon DEF FramRead, Finished
<1>2. CASE StartWrite \/ StartRead
  <2>1. /\ UNCHANGED <<call, got, ignored, framVars>> /\ pc' \in {"high", "read", "idle"}
        /\ pc' = "high" => link' = "write"
        /\ pc' = "read" => pc = "address"
        /\ pc' = "idle" => ret' = 1
    BY <1>2, Zenon DEF StartWrite, StartRead, i2c_start, Answer
  <2>2. pc' = "read" => pointer' = call.offset /\ got = <<>> /\ call.offset \in Nat
    BY <1>0, <2>1 DEF FramRead, ReadCall, CallInv, Transferring, framVars
  <2>3. pc' = "read" => pointer' = call.offset + Len(got) /\ 1..Len(got) = {}
    BY <2>2, NoBytes
  <2>. QED
    BY <2>1, <2>3 DEF FramRead, Finished
<1>3. CASE StartProbe \/ ProbeAnswer \/ Waiting
  <2>1. /\ UNCHANGED <<call, got>> /\ call.op = "probe" /\ pc' \in {"wait", "idle"}
    BY <1>3 DEF StartProbe, ProbeAnswer, Answer, Waiting, CallInv
  <2>. QED
    BY <2>1, Zenon DEF FramRead, Finished
<1>4. CASE OffsetHigh
  BY <1>0, <1>4, Zenon DEF OffsetHigh, Offset, Transfer, FramRead, Finished
<1>5. CASE OffsetLow
  <2>1. /\ pc = "low" /\ pc' \in {"data", "restart"} /\ UNCHANGED call
        /\ link = "write" /\ pointer' = (pointer + Low(call.offset)) % SIZE
    BY <1>0, <1>5 DEF OffsetLow, Offset, Transfer
  <2>2. call.offset \in Nat /\ call.offset < SIZE /\ SIZE \in Nat
    BY <2>1, Constants DEF CallInv
  <2>3. pointer + Low(call.offset) = call.offset
    <3>1. High(call.offset) * (NONE + 1) + Low(call.offset) = call.offset
      BY <2>2, Halves
    <3>. QED
      BY <1>0, <2>1, <3>1 DEF FramInv
  <2>4. call.offset % SIZE = call.offset
    BY <2>2
  <2>. QED
    BY <2>1, <2>3, <2>4, Zenon DEF FramRead, Finished
<1>6. CASE i2c_write
  <2>1. UNCHANGED call /\ call.op = "write" /\ pc' \in {"idle", "data", "stop"}
    BY <1>6, Zenon DEF i2c_write, CallInv
  <2>. QED
    BY <2>1 DEF FramRead, Finished
<1>7. CASE Restart
  BY <1>0, <1>7, Zenon DEF Restart, FramRead, Finished, framVars
<1>8. CASE i2c_read
  <2>1. /\ pc = "read" /\ UNCHANGED <<call, fram>> /\ ignored = "no"
        /\ got' = Append(got, fram[pointer]) /\ pointer' = (pointer + 1) % SIZE
        /\ pc' = IF Len(got) + 1 = call.length THEN "stop" ELSE "read"
    BY <1>0, <1>8 DEF i2c_read, Last
  <2>2. /\ call.op = "read" /\ IsSequence(got) /\ pointer = call.offset + Len(got)
        /\ \A k \in 1..Len(got) : got[k] = fram[call.offset + k - 1]
    BY <1>0, <2>1 DEF CallInv, ReadCall, FramRead
  <2>3. /\ call.offset \in Nat /\ SIZE \in Nat /\ call.length \in Nat
        /\ call.offset + call.length <= SIZE /\ Len(got) < call.length
    BY <2>1, <2>2, Constants DEF CallInv, ReadCall, Transferring
  <2>4. /\ Len(got) \in Nat /\ Len(got') = Len(got) + 1
        /\ \A k \in 1..Len(got) : got'[k] = got[k]
        /\ got'[Len(got) + 1] = fram[pointer]
    BY <2>1, <2>2, Appended
  <2>5. \A k \in 1..Len(got') : got'[k] = fram[call.offset + k - 1]
    <3>1. call.offset + (Len(got) + 1) - 1 = pointer
      BY <2>2, <2>3, <2>4
    <3>2. ASSUME NEW k \in 1..Len(got') PROVE k \in 1..Len(got) \/ k = Len(got) + 1
      BY <2>4
    <3>. QED
      BY <2>2, <2>4, <3>1, <3>2, Zenon
  <2>6. pc' = "read" => pointer' = call.offset + Len(got')
    <3>1. SUFFICES ASSUME Len(got) + 1 # call.length PROVE pointer' = call.offset + Len(got')
      BY <2>1
    <3>2. pointer + 1 \in Nat /\ pointer + 1 < SIZE /\ pointer + 1 = call.offset + Len(got')
      BY <2>2, <2>3, <2>4, <3>1, SMTT(30)
    <3>3. ASSUME NEW x \in Nat, x < SIZE PROVE x % SIZE = x
      BY <2>3, <3>3
    <3>. QED
      BY <2>1, <3>2, <3>3
  <2>. QED
    BY <2>1, <2>5, <2>6, Zenon DEF FramRead, Finished
<1>9. CASE i2c_stop
  BY <1>0, <1>9, Zenon DEF i2c_stop, FramRead, Finished, framVars
<1>10. CASE Handle
  BY <1>0, <1>10, Zenon DEF Handle, Receive, Send, OtherEvent
<1>11. CASE Job \/ UNCHANGED vars
  <2>1. UNCHANGED <<call, pc, got, ret, ignored, link, fram, pointer>>
    BY <1>11 DEF Job, controller, framVars, vars
  <2>. QED
    BY <1>0, <2>1, Zenon DEF FramRead, Finished
<1>. QED
  BY <1>1, <1>2, <1>3, <1>4, <1>5, <1>6, <1>7, <1>8, <1>9, <1>10, <1>11, SMTT(30)
  DEF Next, Calls, Driver, Worker

\* The steps of the invariants that TwiBus_proofs rests on, once more.
LEMMA BusStep == BusInv /\ [Next]_vars => BusInv'
  BY CallStep, FramStep, WorkerStep DEF BusInv

\* A board at rest.
LEMMA BusInit == Init => BusInv /\ ReadCall
  BY DEF Init, BusInv, CallInv, FramInv, WorkerInv, Transferring, ReadCall, Finished

\* i2c_readReg of the FRAM returns the bytes at the offset, for any offset and
\* length, unless it overlooked that the FRAM missed a byte.
THEOREM ReadOfFramHolds == Spec => []ReadOfFram
<1>1. Init => BusInv /\ ReadCall /\ FramRead
  BY BusInit DEF Init, FramRead, Finished
<1>2. BusInv /\ ReadCall /\ FramRead /\ [Next]_vars => BusInv' /\ ReadCall' /\ FramRead'
  BY BusStep, ReadCallStep, FramReadStep DEF BusInv
<1>3. ReadCall /\ FramRead => ReadOfFram
  <2>. SUFFICES ASSUME ReadCall, FramRead, pc = "idle", call.op = "read", dev = "fram",
                       ret = 0, ignored = "no"
                PROVE  got = [k \in 1..call.length |-> fram[call.offset + k - 1]]
    BY DEF ReadOfFram
  <2>1. /\ Len(got) = call.length /\ IsSequence(got)
        /\ \A k \in 1..Len(got) : got[k] = fram[call.offset + k - 1]
    BY DEF ReadCall, FramRead, Finished
  <2>2. got = [k \in 1..Len(got) |-> got[k]]
    <3>1. PICK S : got \in Seq(S)
      BY <2>1 DEF IsSequence
    <3>. QED
      BY <3>1
  <2>. QED
    BY <2>1, <2>2, Zenon
<1>. QED
  BY <1>1, <1>2, <1>3, PTL DEF Spec

-----------------------------------------------------------------------------
(* The worker                                                              *)

HasResult ==
  \E result \in Results(in_buffer) : Fits(result) /\ out_buffer = Outcome(in_buffer, result)
Sent ==
  \A k \in 1..Len(got) : got[k] = IF k = 1 THEN SLA_R ELSE out_buffer[High(call.offset) + k - 1]

\* The first byte that is read is in TWDR before the worker is asked for it; only
\* from the second one on does the handler put them there, one place behind.  The
\* handler that answers the address has waited for the job, so that no job runs
\* while the result is sent.
WorkerRead ==
  dev = "worker" =>
    /\ stored # 0 /\ isr = "none" => HasResult
    /\ pc = "address" => event \in {"SR_STOP", "none"} /\ buffer_address = High(call.offset) + 1
    /\ pc = "read" =>
         /\ event \in {"ST_SLA_ACK", "ST_DATA_ACK", "none"}
         /\ event = "ST_SLA_ACK" => got = <<>>
         /\ event # "ST_SLA_ACK" => isr = "none"
         /\ event = "ST_DATA_ACK" => got # <<>> /\ buffer_address = High(call.offset) + Len(got)
         /\ got = <<>> => TWDR = SLA_R /\ buffer_address = High(call.offset) + 1
         /\ got # <<>> /\ event = "none" => /\ TWDR = out_buffer[High(call.offset) + Len(got)]
                                            /\ buffer_address = High(call.offset) + Len(got) + 1
    /\ Finished => isr = "none" /\ HasResult
    /\ pc = "read" \/ Finished => Sent

\* A job that has run belongs to what in_buffer holds (the handler of the worker
\* starts one behind every byte).
LEMMA ResultStep ==
  ASSUME CallInv, WorkerInv, WorkerRead, [Next]_vars, dev = "worker"
  PROVE  stored' # 0 /\ isr' = "none" => HasResult'
<1>1. CASE writeReg \/ readReg \/ probe
  BY <1>1, BeginCall
<1>2. CASE Job
  BY <1>2, Zenon DEF Job, HasResult
<1>3. CASE Handle /\ Receive
  BY <1>3 DEF Receive
<1>4. CASE UNCHANGED <<stored, isr, in_buffer, out_buffer>>
  BY <1>4, SMTT(30) DEF WorkerRead, HasResult
<1>5. \/ writeReg \/ readReg \/ probe \/ Job \/ (Handle /\ Receive)
      \/ UNCHANGED <<stored, isr, in_buffer, out_buffer>>
  BY ZenonT(30) DEF Next, Calls, Driver, Worker, StartWrite, StartRead, i2c_start, Answer, StartProbe,
     ProbeAnswer, Waiting, OffsetHigh, OffsetLow, Offset, Transfer, i2c_write, Restart, i2c_read,
     i2c_stop, Handle, Send, OtherEvent, worker, vars
<1>. QED
  BY <1>1, <1>2, <1>3, <1>4, <1>5

\* While a result is read the handler sends it place by place, and no job runs.
LEMMA WorkerReadStep ==
  CallInv /\ WorkerInv /\ ReadCall /\ WorkerRead /\ [Next]_vars => WorkerRead'
<1>. SUFFICES ASSUME CallInv, WorkerInv, ReadCall, WorkerRead, [Next]_vars, dev' = "worker"
              PROVE  WorkerRead'
  BY DEF WorkerRead
<1>0. dev = "worker"
  BY SameDevice
<1>01. stored' # 0 /\ isr' = "none" => HasResult'
  BY <1>0, ResultStep, SMTT(30)
<1>1. CASE writeReg \/ readReg \/ probe
  BY <1>01, <1>1, BeginCall, ZenonT(30) DEF WorkerRead, Finished
<1>2. CASE StartWrite \/ StartRead
  <2>1. /\ UNCHANGED <<call, got, worker>> /\ pc' \in {"high", "read", "idle"}
        /\ pc' = "read" => pc = "address" /\ event' = "ST_SLA_ACK" /\ TWDR' = SLA_R
        /\ pc' = "idle" => ret' = 1
    BY <1>0, <1>2, Zenon DEF StartWrite, StartRead, i2c_start, Answer
  <2>2. pc' = "read" => got = <<>> /\ buffer_address' = High(call.offset) + 1
    BY <1>0, <2>1, Zenon DEF WorkerRead, ReadCall, worker
  <2>3. got = <<>> => 1..Len(got) = {}
    BY NoBytes
  <2>. QED
    BY <1>01, <2>1, <2>2, <2>3 DEF WorkerRead, Finished, Sent
<1>3. CASE StartProbe \/ ProbeAnswer \/ Waiting
  <2>1. call' = call /\ call.op = "probe" /\ pc' \in {"wait", "idle"}
    BY <1>3, SMTT(30) DEF StartProbe, ProbeAnswer, Answer, Waiting, CallInv
  <2>. QED
    BY <1>01, <2>1, Zenon DEF WorkerRead, Finished
<1>4. CASE OffsetHigh \/ OffsetLow
  <2>1. pc' \in {"low", "data", "restart"}
    BY <1>4, Zenon DEF OffsetHigh, OffsetLow, Offset
  <2>. QED
    BY <1>01, <2>1, ZenonT(30) DEF WorkerRead, Finished
<1>5. CASE i2c_write
  <2>1. UNCHANGED call /\ call.op = "write" /\ pc' \in {"idle", "data", "stop"}
    BY <1>5, Zenon DEF i2c_write, CallInv
  <2>. QED
    BY <1>01, <2>1, Zenon DEF WorkerRead, Finished
<1>6. CASE Restart
  <2>1. /\ pc = "restart" /\ pc' = "address" /\ UNCHANGED <<call, got, buffer_address>>
        /\ event = "none" /\ event' \in {"SR_STOP", "none"}
    BY <1>6, SMTT(30) DEF Restart, worker
  <2>2. got = <<>> /\ call.offset \in Nat /\ DataSent(Len(got))
    BY <1>0, <2>1, Zenon DEF CallInv, Transferring, WorkerInv
  <2>3. buffer_address = High(call.offset) + 1
    BY <2>1, <2>2, NoBytes, Halves, SMTT(30) DEF DataSent
  <2>. QED
    BY <1>01, <2>1, <2>3, ZenonT(30) DEF WorkerRead, Finished
<1>7. CASE i2c_read
  <2>1. /\ pc = "read" /\ event = "none" /\ UNCHANGED <<call, worker, TWDR>>
        /\ got' = Append(got, TWDR)
        /\ \/ pc' = "stop"
           \/ pc' = "read" /\ event' = "ST_DATA_ACK"
    BY <1>0, <1>7, SMTT(30) DEF i2c_read
  <2>2. call.op = "read" /\ IsSequence(got) /\ Sent /\ isr = "none" /\ HasResult /\ stored = 1
    <3>1. call.op = "read" /\ IsSequence(got)
      BY <2>1, Zenon DEF CallInv, ReadCall
    <3>2. stored = 1
      BY <1>0, <2>1, SMTT(30) DEF WorkerInv
    <3>3. Sent /\ isr = "none" /\ HasResult
      BY <1>0, <2>1, <3>2, SMTT(30) DEF WorkerRead
    <3>. QED
      BY <3>1, <3>2, <3>3, Zenon
  <2>3. High(call.offset) \in Nat
    BY <2>2, Halves, Zenon DEF CallInv, Transferring
  <2>4. /\ Len(got) \in Nat /\ Len(got') = Len(got) + 1 /\ got' # <<>>
        /\ \A k \in 1..Len(got) : got'[k] = got[k]
        /\ got'[Len(got) + 1] = TWDR
        /\ got = <<>> <=> Len(got) = 0
    BY <2>1, <2>2, Appended
  <2>5. buffer_address = High(call.offset) + Len(got')
    BY <1>0, <2>1, <2>3, <2>4 DEF WorkerRead
  <2>6. Sent'
    <3>1. UNCHANGED <<call, out_buffer>>
      BY <2>1 DEF worker
    <3>2. SUFFICES ASSUME NEW k \in 1..Len(got')
                   PROVE  got'[k] = IF k = 1 THEN SLA_R ELSE out_buffer[High(call.offset) + k - 1]
      BY <3>1 DEF Sent
    <3>3. CASE k \in 1..Len(got)
      BY <2>2, <2>4, <3>3, Zenon DEF Sent
    <3>4. CASE k = Len(got) + 1
      <4>1. CASE got = <<>>
        BY <1>0, <2>1, <2>4, <3>4, <4>1 DEF WorkerRead
      <4>2. CASE got # <<>>
        <5>1. TWDR = out_buffer[High(call.offset) + Len(got)]
          BY <1>0, <2>1, <4>2, Zenon DEF WorkerRead
        <5>2. High(call.offset) + k - 1 = High(call.offset) + Len(got) /\ k # 1
          BY <2>3, <2>4, <3>4, <4>2, SMTT(30)
        <5>. QED
          BY <2>4, <3>4, <5>1, <5>2, Zenon
      <4>. QED
        BY <4>1, <4>2
    <3>. QED
      BY <2>4, <3>3, <3>4
  <2>. QED
    BY <1>01, <2>1, <2>2, <2>4, <2>5, <2>6 DEF WorkerRead, HasResult, Finished, worker
<1>8. CASE i2c_stop
  <2>1. /\ pc = "stop" /\ pc' = "idle" /\ UNCHANGED <<call, got, worker>>
    BY <1>8 DEF i2c_stop
  <2>2. Finished' => Finished
    BY <2>1 DEF Finished
  <2>. QED
    BY <1>0, <1>01, <2>1, <2>2, Zenon DEF WorkerRead, HasResult, Sent, worker
<1>9. CASE Handle
  <2>1. /\ UNCHANGED <<call, pc, got, ret>> /\ event' = "none" /\ isr = "none"
        /\ Receive \/ Send \/ OtherEvent
    BY <1>9, SMTT(30) DEF Handle, controller
  <2>2. CASE Receive
    BY <1>0, <1>01, <2>1, <2>2, Zenon DEF Receive, WorkerInv, WorkerRead, Finished, CallInv
  <2>3. CASE Send \/ OtherEvent
    <3>1. UNCHANGED <<isr, in_buffer, out_buffer>>
      BY <2>3, Zenon DEF Send, OtherEvent
    <3>2. /\ Finished' => isr' = "none" /\ HasResult'
          /\ pc' = "read" \/ Finished' => Sent'
      BY <1>0, <2>1, <3>1, ZenonT(30) DEF WorkerRead, Finished, HasResult, Sent
    <3>3. CASE pc = "address"
      BY <1>0, <1>01, <2>1, <2>3, <3>2, <3>3, SMTT(30) DEF WorkerRead, Send, OtherEvent
    <3>4. CASE pc = "read" /\ OtherEvent
      BY <1>0, <1>01, <2>1, <3>1, <3>2, <3>4, ZenonT(30) DEF WorkerRead, OtherEvent
    <3>5. CASE pc = "read" /\ Send
      <4>1. /\ event = "ST_DATA_ACK" /\ got # <<>> /\ buffer_address = High(call.offset) + Len(got)
        BY <1>0, <3>5, Zenon DEF WorkerRead, Send
      <4>2. /\ call.op = "read" /\ IsSequence(got) /\ Len(got) < call.length
            /\ call.length \in Nat /\ High(call.offset) + call.length <= NONE
        BY <3>5, Zenon DEF CallInv, ReadCall
      <4>3. High(call.offset) \in Nat /\ Len(got) \in Nat
        BY <4>2, Halves, Appended, ZenonT(30) DEF CallInv, Transferring
      <4>4. buffer_address \in Nat /\ buffer_address < NONE
        BY <4>1, <4>2, <4>3, Constants
      <4>5. (buffer_address + 1) % (NONE + 1) = buffer_address + 1
        <5>1. ASSUME NEW x \in Nat, NEW d \in Nat, x < d PROVE x % d = x
          BY <5>1
        <5>2. buffer_address + 1 \in Nat /\ NONE + 1 \in Nat /\ buffer_address + 1 < NONE + 1
          BY <4>4, Constants
        <5>. QED
          BY <5>1, <5>2
      <4>6. TWDR' = out_buffer[buffer_address] /\ buffer_address' = (buffer_address + 1) % (NONE + 1)
        <5>1. buffer_address # NONE
          BY <4>4, Constants
        <5>. QED
          BY <3>5, <5>1 DEF Send
      <4>7. /\ TWDR' = out_buffer[High(call.offset) + Len(got)]
            /\ buffer_address' = High(call.offset) + Len(got) + 1
        BY <4>1, <4>3, <4>5, <4>6, SMTT(30)
      <4>. QED
        BY <1>01, <2>1, <3>1, <3>2, <3>5, <4>1, <4>7, ZenonT(30) DEF WorkerRead
    <3>6. CASE pc \notin {"address", "read"}
      BY <1>01, <2>1, <3>2, <3>6, SMTT(30) DEF WorkerRead
    <3>. QED
      BY <2>3, <3>3, <3>4, <3>5, <3>6
  <2>. QED
    BY <2>1, <2>2, <2>3
<1>10. CASE Job
  <2>1. UNCHANGED <<call, pc, got, ret, event, TWDR, buffer_address>> /\ isr = "job"
    BY <1>10 DEF Job, controller, twi
  <2>2. ~ Finished /\ ~ Finished'
    BY <1>0, <2>1, ZenonT(30) DEF WorkerRead, Finished
  <2>3. pc = "read" => got = <<>> /\ event = "ST_SLA_ACK"
    BY <1>0, <2>1, SMTT(30) DEF WorkerRead
  <2>4. got = <<>> => 1..Len(got) = {}
    BY NoBytes
  <2>. QED
    BY <1>0, <1>01, <2>1, <2>2, <2>3, <2>4 DEF WorkerRead, Sent
<1>11. CASE UNCHANGED vars
  <2>1. UNCHANGED <<call, pc, got, ret, event, TWDR, isr, buffer_address, in_buffer, out_buffer>>
    BY <1>11, SMTT(30) DEF controller, twi, worker, vars
  <2>. QED
    BY <1>0, <1>01, <2>1 DEF WorkerRead, Finished, HasResult, Sent
<1>. QED
  BY <1>1, <1>2, <1>3, <1>4, <1>5, <1>6, <1>7, <1>8, <1>9, <1>10, <1>11
  DEF Next, Calls, Driver, Worker

\* Where a read begins that a worker has answered to the end, and what it shows.
ReadInv == BusInv /\ ReadCall /\ WorkerRead
AnsweredRead == pc = "idle" /\ call.op = "read" /\ dev = "worker" /\ ret = 0

\* It holds throughout.
LEMMA ReadInvariance == Spec => []ReadInv
<1>1. Init => ReadInv
  BY BusInit DEF Init, WorkerRead, Finished, ReadInv
<1>2. ReadInv /\ [Next]_vars => ReadInv'
  BY BusStep, ReadCallStep, WorkerReadStep DEF BusInv, ReadInv
<1>. QED
  BY <1>1, <1>2, PTL DEF Spec

\* What i2c_readReg has got from the worker at the end.
LEMMA ReadShows ==
  ASSUME ReadInv, AnsweredRead
  PROVE  \E result \in Results(in_buffer) :
           /\ Fits(result)
           /\ \A k \in 1..call.length :
                got[k] = IF k = 1 THEN SLA_R ELSE Outcome(in_buffer, result)[High(call.offset) + k - 1]
<1>1. Len(got) = call.length /\ HasResult /\ Sent
  BY Zenon DEF ReadInv, AnsweredRead, ReadCall, WorkerRead, Finished
<1>2. PICK result \in Results(in_buffer) : Fits(result) /\ out_buffer = Outcome(in_buffer, result)
  BY <1>1, Zenon DEF HasResult
<1>. QED
  BY <1>1, <1>2, Zenon DEF Sent

\* i2c_readReg of a worker returns, behind the first byte, bytes of a single job's
\* result, for any offset and length, whatever jobs the bytes of the offset started
\* (the handler of the worker).
THEOREM ReadsOneResultHolds == Spec => []ReadsOneResult
<1>1. ASSUME ReadInv, AnsweredRead
      PROVE  \E result \in Results(in_buffer), p \in Byte :
               /\ Fits(result)
               /\ \A k \in 2..call.length :
                    got[k] = Outcome(in_buffer, result)[(p + k - 1) % (NONE + 1)]
  <2>1. PICK result \in Results(in_buffer) :
           /\ Fits(result)
           /\ \A k \in 1..call.length :
                got[k] = IF k = 1 THEN SLA_R ELSE Outcome(in_buffer, result)[High(call.offset) + k - 1]
    BY <1>1, ReadShows, Zenon
  <2>2. PICK p \in Nat : p = High(call.offset)
    BY <1>1, Constants DEF ReadInv, BusInv, CallInv, AnsweredRead, Transferring, High
  <2>3. call.length \in Nat /\ p + call.length <= NONE /\ NONE \in Nat
    BY <1>1, <2>2, Constants DEF ReadInv, ReadCall, AnsweredRead
  <2>4. p \in Byte
    BY <2>3 DEF Byte
  <2>5. ASSUME NEW k \in 2..call.length
        PROVE  k \in 1..call.length /\ k # 1 /\ (p + k - 1) % (NONE + 1) = p + k - 1
    BY <2>2, <2>3
  <2>6. ASSUME NEW k \in 2..call.length
        PROVE  got[k] = Outcome(in_buffer, result)[(p + k - 1) % (NONE + 1)]
    <3>1. got[k] = Outcome(in_buffer, result)[High(call.offset) + k - 1]
      BY <2>1, <2>5, Zenon
    <3>. QED
      BY <2>2, <2>5, <3>1, Zenon
  <2>. QED
    BY <2>1, <2>4, <2>6, Zenon
<1>2. ReadInv => ReadsOneResult
  BY <1>1, Zenon DEF ReadsOneResult, AnsweredRead
<1>. QED
  BY <1>2, ReadInvariance, PTL

\* Which bytes they are, against "read length bytes starting at offset_addr"
\* (main/i2c_master.c): the first byte is the address of the worker itself, and the
\* others come from one place behind the high byte of the offset, whatever the low
\* byte is.
THEOREM ReadPlace ==
  Spec => [](AnsweredRead =>
               \E result \in Results(in_buffer) :
                 \A k \in 1..call.length :
                   got[k] = IF k = 1 THEN SLA_R
                            ELSE Outcome(in_buffer, result)[High(call.offset) + k - 1])
<1>1. ReadInv => (AnsweredRead =>
               \E result \in Results(in_buffer) :
                 \A k \in 1..call.length :
                   got[k] = IF k = 1 THEN SLA_R
                            ELSE Outcome(in_buffer, result)[High(call.offset) + k - 1])
  BY ReadShows, Zenon
<1>. QED
  BY <1>1, ReadInvariance, PTL

-----------------------------------------------------------------------------
(* Types                                                                   *)

\* A remainder modulo the width of a byte is a byte.
LEMMA Wrapped == \A x \in Int : x % (NONE + 1) \in Byte
<1>1. \A d \in Nat : d > 0 => \A x \in Int : x % d \in 0..d - 1
  OBVIOUS
<1>2. NONE + 1 \in Nat /\ NONE + 1 > 0 /\ 0..(NONE + 1) - 1 = Byte
  BY Constants DEF Byte
<1>. QED
  BY <1>1, <1>2, Zenon

\* The pointer of the FRAM wraps around at its end.
LEMMA PointerWraps == \A x \in Nat : SIZE > 0 => x % SIZE \in Nat /\ x % SIZE < SIZE
<1>1. \A d \in Nat : d > 0 => \A x \in Nat : x % d \in Nat /\ x % d < d
  OBVIOUS
<1>. QED
  BY <1>1, Constants, Zenon

\* strlen finds an end: the first NUL, or that of the text.
LEMMA StrlenType ==
  ASSUME NEW s \in Seq(Byte)
  PROVE  strlen(s) \in Nat
<1>. DEFINE End(n) == (\A j \in 1..n : s[j] # 0) /\ (n < Len(s) => s[n + 1] = 0)
            Stops == {n \in Nat : n <= Len(s) /\ (n < Len(s) => s[n + 1] = 0)}
            R == {ss \in Nat \X Nat : ss[1] < ss[2]}
<1>1. OpToRel(<, Nat) = R
  BY Zenon DEF OpToRel
<1>2. \A x, y \in Nat : <<y, x>> \notin R => x <= y
  OBVIOUS
<1>3. Len(s) \in Nat /\ Stops \subseteq Nat /\ Len(s) \in Stops
  OBVIOUS
<1>4. PICK n \in Stops : \A m \in Stops : <<m, n>> \notin R
  <2>. HIDE DEF R, Stops
  <2>. QED
    BY <1>1, <1>3, WFMin, NatLessThanWellFounded, Zenon
<1>5. n \in 0..Len(s) /\ End(n)
  <2>1. n \in Nat /\ n <= Len(s) /\ (n < Len(s) => s[n + 1] = 0)
    BY <1>4
  <2>2. ASSUME NEW j \in 1..n PROVE s[j] # 0
    <3>1. j - 1 \in Nat /\ j - 1 < n /\ j - 1 < Len(s) /\ j - 1 + 1 = j
      BY <1>3, <2>1
    <3>2. j - 1 \notin Stops
      <4>1. ASSUME j - 1 \in Stops PROVE n <= j - 1
        BY <1>2, <1>4, <2>1, <3>1, <4>1, Zenon
      <4>. QED
        BY <2>1, <3>1, <4>1
    <3>. QED
      BY <3>1, <3>2
  <2>. QED
    BY <1>3, <2>1, <2>2
<1>6. \E k \in 0..Len(s) : End(k)
  BY <1>5, Zenon
<1>7. strlen(s) \in 0..Len(s)
  <2>1. strlen(s) = CHOOSE k \in 0..Len(s) : End(k)
    BY Zenon DEF strlen
  <2>. HIDE DEF End
  <2>. QED
    BY <1>6, <2>1, Zenon
<1>. QED
  BY <1>3, <1>7

\* The first byte of a result: the number of the block, the job and I2C_READY.
LEMMA StatusByte ==
  ASSUME NEW x \in Byte
  PROVE  /\ (x \div 2) % 2 \in {0, 1}
         /\ 4 * (x \div 4) + 2 * ((x \div 2) % 2) + 1 \in Byte
<1>1. PICK q \in Nat : NONE + 1 = 4 * q
  <2>1. NONE \in Nat /\ (NONE + 1) % 4 = 0
    BY BusAssumption
  <2>. QED
    BY <2>1
<1>2. x \in Nat /\ x < 4 * q
  BY <1>1, Constants DEF Byte
<1>3. PICK a \in Nat : a = x \div 4 /\ a < q
  BY <1>2
<1>4. (x \div 2) % 2 \in {0, 1}
  BY <1>2
<1>5. PICK b \in {0, 1} : b = (x \div 2) % 2
  BY <1>4, Zenon
<1>6. 4 * a + 2 * b + 1 \in Nat /\ 4 * a + 2 * b + 1 < 4 * q
  BY <1>3, <1>5
<1>7. 4 * a + 2 * b + 1 \in Byte
  BY <1>1, <1>6, Constants DEF Byte
<1>. QED
  BY <1>3, <1>4, <1>5, <1>7, Zenon

\* A job leaves bytes in out_buffer, all of it.
LEMMA OutcomeType ==
  ASSUME NEW in \in [Byte -> Byte], NEW result \in Results(in), Fits(result)
  PROVE  Outcome(in, result) \in [Byte -> Byte]
<1>1. 0 \in Byte /\ 1 \in Byte /\ NONE \in Nat
  BY Constants DEF Byte
<1>2. in[0] \in Byte
  BY <1>1
<1>3. job_bit(in) \in {0, 1} /\ 4 * (in[0] \div 4) + 2 * job_bit(in) + 1 \in Byte
  BY <1>2, StatusByte, Zenon DEF job_bit
<1>4. result \in Seq(Byte)
  BY <1>3, HuffmanAssumption, Zenon DEF Results
<1>5. strlen(result) \in Byte
  <2>1. strlen(result) \in Nat /\ strlen(result) < NONE - 1
    BY <1>4, StrlenType DEF Fits
  <2>. QED
    BY <1>1, <2>1 DEF Byte
<1>6. ASSUME NEW k \in Byte
      PROVE  (IF k = 0 THEN 4 * (in[0] \div 4) + 2 * job_bit(in) + 1
              ELSE IF k = 1 THEN strlen(result)
              ELSE IF k - 1 <= Len(result) THEN result[k - 1] ELSE 0) \in Byte
  <2>1. ASSUME k # 0, k # 1, k - 1 <= Len(result) PROVE result[k - 1] \in Byte
    <3>1. k - 1 \in 1..Len(result)
      BY <1>1, <1>4, <2>1 DEF Byte
    <3>. QED
      BY <1>4, <3>1
  <2>. QED
    BY <1>1, <1>3, <1>5, <2>1, Zenon
<1>7. Outcome(in, result) =
        [k \in Byte |-> IF k = 0 THEN 4 * (in[0] \div 4) + 2 * job_bit(in) + 1
                        ELSE IF k = 1 THEN strlen(result)
                        ELSE IF k - 1 <= Len(result) THEN result[k - 1] ELSE 0]
  BY Zenon DEF Outcome, Byte
<1>. QED
  BY <1>6, <1>7, Zenon

TypeInv == TypeOK /\ (SIZE > 0 => pointer < SIZE)

\* A byte that the controller sends (i2c_write), and where a FRAM goes on.
LEMMA TransferType ==
  ASSUME TypeInv, NEW byte \in Byte, NEW ack \in {"yes", "no"}, NEW at \in Nat, SIZE > 0 => at < SIZE,
         NEW mem \in [0..SIZE - 1 -> Byte], Transfer(byte, ack, at, mem)
  PROVE  /\ TWDR' \in Byte /\ fram' \in [0..SIZE - 1 -> Byte] /\ pointer' \in Nat
         /\ SIZE > 0 => pointer' < SIZE
         /\ link' \in {"none", "write", "read", "pending"}
         /\ event' \in {"none", "SR_SLA_ACK", "SR_DATA_ACK", "SR_DATA_NACK", "SR_STOP",
                        "ST_SLA_ACK", "ST_DATA_ACK", "ST_DATA_NACK"}
<1>1. CASE dev = "worker" /\ TWDR' = byte /\ UNCHANGED framVars
  BY <1>1, Zenon DEF Transfer, TypeInv, TypeOK, framVars
<1>2. CASE dev = "fram" /\ pointer' = at /\ fram' = mem /\ UNCHANGED <<link, event, TWDR>>
  BY <1>2, Zenon DEF TypeInv, TypeOK
<1>3. CASE link' = "none" /\ UNCHANGED <<framVars, event, TWDR>>
  BY <1>3, Zenon DEF TypeInv, TypeOK, framVars
<1>. QED
  BY <1>1, <1>2, <1>3, Zenon DEF Transfer

\* Every step of the controller, the wires, the FRAM and the worker keeps the types.
LEMMA TypeStep == CallInv /\ TypeInv /\ [Next]_vars => TypeInv'
<1>. SUFFICES ASSUME CallInv, TypeInv, [Next]_vars PROVE TypeInv'
  OBVIOUS
<1>0. /\ NONE \in Nat /\ 3 <= NONE /\ SIZE \in Nat /\ SLA_R \in Byte /\ SLA_R - 1 \in Byte
      /\ 0 \in Byte /\ NONE \in Byte /\ TIMEOUT \in Byte /\ <<>> \in Seq(Byte)
  BY BusAssumption DEF Byte
<1>c. Transferring => /\ call.offset \in Nat /\ High(call.offset) \in Byte /\ Low(call.offset) \in Byte
                      /\ SIZE > 0
                      /\ High(call.offset) * (NONE + 1) \in Nat /\ High(call.offset) * (NONE + 1) < SIZE
  <2>. SUFFICES ASSUME Transferring
                PROVE  /\ call.offset \in Nat /\ High(call.offset) \in Byte /\ Low(call.offset) \in Byte
                       /\ SIZE > 0
                       /\ High(call.offset) * (NONE + 1) \in Nat
                       /\ High(call.offset) * (NONE + 1) < SIZE
    OBVIOUS
  <2>1. call.offset \in Nat /\ call.offset < SIZE /\ High(call.offset) < NONE
    BY Zenon DEF CallInv
  <2>2. PICK h \in Nat, l \in Byte : /\ h = High(call.offset) /\ l = Low(call.offset)
                                     /\ h * (NONE + 1) + l = call.offset
    BY <2>1, Halves, Zenon
  <2>3. PICK p \in Nat : p = h * (NONE + 1)
    BY <1>0
  <2>4. h \in Byte /\ SIZE > 0 /\ p < SIZE
    BY <1>0, <2>1, <2>2, <2>3 DEF Byte
  <2>. QED
    BY <2>1, <2>2, <2>3, <2>4
<1>1. CASE writeReg \/ readReg \/ probe
  <2>1. /\ pc' = "start" /\ got' = <<>> /\ ignored' = "no" /\ ms_timeout' \in {0, TIMEOUT}
        /\ UNCHANGED <<dev, ret, link, framVars, twi, worker>>
    BY <1>1, ZenonT(30) DEF writeReg, readReg, probe, Begin
  <2>. QED
    BY <1>0, <2>1 DEF TypeInv, TypeOK, framVars, twi, worker
<1>2. CASE StartWrite \/ StartRead \/ ProbeAnswer
  <2>1. /\ pc' \in {"high", "read", "idle", pc} /\ ret' \in {ret, 1}
        /\ link' \in {"write", "read", "none"}
        /\ event' \in {"SR_SLA_ACK", "ST_SLA_ACK", event}
        /\ TWDR' \in {SLA_R - 1, SLA_R, TWDR}
        /\ UNCHANGED <<dev, got, ms_timeout, ignored, framVars, TWEA, worker>>
    BY <1>2, Zenon DEF StartWrite, StartRead, ProbeAnswer, i2c_start, Answer
  <2>. QED
    BY <1>0, <2>1, SMTT(30) DEF TypeInv, TypeOK, framVars, worker
<1>3. CASE StartProbe
  BY <1>3, ZenonT(30) DEF StartProbe, TypeInv, TypeOK, framVars, twi, worker
<1>4. CASE Waiting
  <2>1. ms_timeout' \in Byte
    <3>1. ms_timeout - 1 \in Int
      BY <1>0 DEF TypeInv, TypeOK, Byte
    <3>. QED
      BY <1>4, <3>1, Wrapped, Zenon DEF Waiting
  <2>. QED
    BY <1>4, <2>1 DEF Waiting, TypeInv, TypeOK, framVars, twi, worker
<1>5. CASE OffsetHigh \/ OffsetLow
  <2>0. PICK byte, at :
          /\ \E ack \in {"yes", "no"} : Transfer(byte, ack, at, fram)
          /\ \/ byte = High(call.offset) /\ at = High(call.offset) * (NONE + 1)
             \/ byte = Low(call.offset) /\ at = (pointer + Low(call.offset)) % SIZE
    BY <1>5, Zenon DEF OffsetHigh, OffsetLow, Offset
  <2>1. PICK ack \in {"yes", "no"} : Transfer(byte, ack, at, fram)
    BY <2>0
  <2>2. /\ pc' \in {"low", "data", "restart"} /\ ignored' \in {"yes", ignored} /\ Transferring
        /\ UNCHANGED <<dev, got, ret, ms_timeout, TWEA, worker>>
    BY <1>5 DEF OffsetHigh, OffsetLow, Offset, CallInv
  <2>3. byte \in Byte /\ at \in Nat /\ (SIZE > 0 => at < SIZE)
    <3>1. pointer + Low(call.offset) \in Nat
      <4>1. pointer \in Nat
        BY DEF TypeInv, TypeOK
      <4>2. Low(call.offset) \in Nat
        BY <1>0, <1>c, <2>2 DEF Byte
      <4>. QED
        BY <4>1, <4>2
    <3>. QED
      BY <1>c, <2>0, <2>2, <3>1, PointerWraps, Zenon
  <2>4. fram \in [0..SIZE - 1 -> Byte]
    BY Zenon DEF TypeInv, TypeOK
  <2>5. /\ TWDR' \in Byte /\ fram' \in [0..SIZE - 1 -> Byte] /\ pointer' \in Nat
        /\ SIZE > 0 => pointer' < SIZE
        /\ link' \in {"none", "write", "read", "pending"}
        /\ event' \in {"none", "SR_SLA_ACK", "SR_DATA_ACK", "SR_DATA_NACK", "SR_STOP",
                       "ST_SLA_ACK", "ST_DATA_ACK", "ST_DATA_NACK"}
    BY <2>1, <2>3, <2>4, TransferType, Zenon
  <2>. QED
    BY <2>2, <2>5, Zenon DEF TypeInv, TypeOK, worker
<1>6. CASE i2c_write
  <2>0. PICK byte : byte = call.bytes[Len(got) + 1]
    OBVIOUS
  <2>1. PICK ack \in {"yes", "no"} :
          Transfer(byte, ack, (pointer + 1) % SIZE, [fram EXCEPT ![pointer] = byte])
    BY <1>6, <2>0, Zenon DEF i2c_write
  <2>2. byte \in Byte /\ Transferring
    <3>1. call.bytes \in Seq(Byte) /\ got \in Seq(Byte) /\ Len(got) < Len(call.bytes) /\ call.op = "write"
      BY <1>6 DEF CallInv, i2c_write
    <3>2. Len(got) + 1 \in 1..Len(call.bytes)
      BY <3>1
    <3>. QED
      BY <2>0, <3>1, <3>2 DEF Transferring
  <2>3. (pointer + 1) % SIZE \in Nat /\ (pointer + 1) % SIZE < SIZE
    <3>1. pointer + 1 \in Nat
      BY DEF TypeInv, TypeOK
    <3>. QED
      BY <1>c, <2>2, <3>1, PointerWraps, Zenon
  <2>4. [fram EXCEPT ![pointer] = byte] \in [0..SIZE - 1 -> Byte]
    BY <2>2, Zenon DEF TypeInv, TypeOK
  <2>5. /\ TWDR' \in Byte /\ fram' \in [0..SIZE - 1 -> Byte] /\ pointer' \in Nat
        /\ SIZE > 0 => pointer' < SIZE
        /\ link' \in {"none", "write", "read", "pending"}
        /\ event' \in {"none", "SR_SLA_ACK", "SR_DATA_ACK", "SR_DATA_NACK", "SR_STOP",
                       "ST_SLA_ACK", "ST_DATA_ACK", "ST_DATA_NACK"}
    BY <2>1, <2>2, <2>3, <2>4, TransferType, Zenon
  <2>6. got' \in Seq(Byte)
    <3>1. got \in Seq(Byte) /\ Append(got, byte) \in Seq(Byte)
      BY <2>2 DEF TypeInv, TypeOK
    <3>2. got' \in {got, Append(got, byte)}
      BY <1>6, <2>0 DEF i2c_write
    <3>. QED
      BY <3>1, <3>2, Zenon
  <2>7. /\ pc' \in {"stop", "data", "idle"} /\ ret' \in {ret, 1}
        /\ UNCHANGED <<dev, ms_timeout, ignored, TWEA, worker>>
    BY <1>6, Zenon DEF i2c_write
  <2>. QED
    BY <2>5, <2>6, <2>7, ZenonT(30) DEF TypeInv, TypeOK, worker
<1>7. CASE Restart \/ i2c_stop
  BY <1>7, ZenonT(30) DEF Restart, i2c_stop, TypeInv, TypeOK, framVars, worker
<1>8. CASE i2c_read
  <2>1. /\ pc' \in {"stop", "read"} /\ ignored' \in {ignored, "yes"} /\ link' \in {link, "none"}
        /\ event' \in {event, "ST_DATA_NACK", "ST_DATA_ACK"} /\ fram' = fram
        /\ UNCHANGED <<dev, ret, ms_timeout, TWDR, TWEA, worker>>
    BY <1>8, Zenon DEF i2c_read, framVars
  <2>2. Transferring /\ got \in Seq(Byte) /\ TWDR \in Byte /\ pointer \in 0..SIZE - 1 /\ pointer + 1 \in Nat
    <3>1. Transferring
      BY <1>8, Zenon DEF i2c_read, CallInv, Transferring
    <3>. QED
      BY <1>0, <1>c, <3>1 DEF TypeInv, TypeOK
  <2>3. pointer' \in Nat /\ pointer' < SIZE
    <3>1. pointer' \in {pointer, (pointer + 1) % SIZE}
      BY <1>8 DEF i2c_read, framVars
    <3>2. pointer \in Nat /\ pointer < SIZE
      BY <1>0, <2>2
    <3>. QED
      BY <1>c, <2>2, <3>1, <3>2, PointerWraps, Zenon
  <2>4. got' \in Seq(Byte)
    <3>1. fram[pointer] \in Byte
      BY <2>2, Zenon DEF TypeInv, TypeOK
    <3>2. got' \in {Append(got, TWDR), Append(got, fram[pointer]), Append(got, NONE)}
      BY <1>8, Zenon DEF i2c_read
    <3>3. ASSUME NEW x \in Byte PROVE Append(got, x) \in Seq(Byte)
      BY <2>2
    <3>. QED
      BY <1>0, <2>2, <3>1, <3>2, <3>3, Zenon
  <2>. QED
    BY <2>1, <2>3, <2>4 DEF TypeInv, TypeOK, worker
<1>9. CASE Handle
  <2>1. event' = "none" /\ UNCHANGED <<dev, pc, got, ret, ms_timeout, ignored, link, fram, pointer, out_buffer>>
    BY <1>9, Zenon DEF Handle, Receive, Send, OtherEvent, controller, framVars
  <2>2. /\ buffer_address \in Byte /\ TWDR \in Byte /\ in_buffer \in [Byte -> Byte]
        /\ out_buffer \in [Byte -> Byte]
    BY Zenon DEF TypeInv, TypeOK
  <2>3. CASE Receive
    <3>1. buffer_address' \in Byte
      <4>1. buffer_address' = IF buffer_address = NONE THEN TWDR ELSE buffer_address + 1
        BY <2>3 DEF Receive
      <4>2. buffer_address # NONE => buffer_address + 1 \in Byte
        BY <1>0, <2>2 DEF Byte
      <4>. QED
        BY <2>2, <4>1, <4>2, Zenon
    <3>2. in_buffer' \in [Byte -> Byte]
      BY <2>2, <2>3 DEF Receive
    <3>3. TWDR' = TWDR /\ isr' = "job" /\ TWEA' \in {"yes", "no"}
      BY <2>3 DEF Receive
    <3>. QED
      BY <2>1, <3>1, <3>2, <3>3 DEF TypeInv, TypeOK
  <2>4. CASE Send
    <3>1. PICK here \in Byte : TWDR' = out_buffer[here] /\ buffer_address' = (here + 1) % (NONE + 1)
      BY <2>2, <2>4 DEF Send
    <3>2. TWDR' \in Byte
      BY <2>2, <3>1
    <3>3. buffer_address' \in Byte
      <4>1. here + 1 \in Int
        BY DEF Byte
      <4>. QED
        BY <3>1, <4>1, Wrapped, Zenon
    <3>4. UNCHANGED <<isr, in_buffer>> /\ TWEA' = "yes"
      BY <2>4 DEF Send
    <3>. QED
      BY <2>1, <3>2, <3>3, <3>4 DEF TypeInv, TypeOK
  <2>5. CASE OtherEvent
    <3>1. buffer_address' \in Byte /\ TWEA' = "yes" /\ UNCHANGED <<TWDR, isr, in_buffer>>
      BY <1>0, <2>2, <2>5 DEF OtherEvent
    <3>. QED
      BY <2>1, <3>1 DEF TypeInv, TypeOK
  <2>. QED
    BY <1>9, <2>3, <2>4, <2>5 DEF Handle
<1>10. CASE Job
  <2>1. out_buffer' \in [Byte -> Byte]
    <3>1. in_buffer \in [Byte -> Byte]
      BY DEF TypeInv, TypeOK
    <3>2. CASE out_buffer' = Zeroed
      BY <3>2, Constants DEF Zeroed, Byte
    <3>3. CASE UNCHANGED out_buffer
      BY <3>3 DEF TypeInv, TypeOK
    <3>4. CASE \E result \in Results(in_buffer) :
                 Fits(result) /\ out_buffer' = Outcome(in_buffer, result)
      <4>1. PICK before : before = in_buffer
        OBVIOUS
      <4>2. PICK result \in Results(before) : Fits(result) /\ out_buffer' = Outcome(before, result)
        BY <3>4, <4>1, Zenon
      <4>3. Outcome(before, result) \in [Byte -> Byte]
        BY <3>1, <4>1, <4>2, OutcomeType, Zenon
      <4>. QED
        BY <4>2, <4>3, Zenon
    <3>. QED
      BY <1>10, <3>2, <3>3, <3>4, Zenon DEF Job
  <2>2. isr' \in {"none", "aborted", "undefined"}
    BY <1>10, Zenon DEF Job
  <2>. QED
    BY <1>10, <2>1, <2>2 DEF Job, TypeInv, TypeOK, controller, framVars, twi
<1>11. CASE UNCHANGED vars
  BY <1>11 DEF vars, TypeInv, TypeOK, controller, framVars, twi, worker
<1>. QED
  BY <1>1, <1>2, <1>3, <1>4, <1>5, <1>6, <1>7, <1>8, <1>9, <1>10, <1>11
  DEF Next, Calls, Driver, Worker

\* Every variable of the bus, the FRAM and the worker keeps its type, whatever is
\* called and whatever the jobs return: no index leaves a buffer.
THEOREM TypeCorrect == Spec => []TypeOK
<1>1. Init => CallInv /\ TypeInv
  <2>1. Init => CallInv
    BY BusInit DEF BusInv
  <2>2. Init => TypeInv
    <3>1. NONE \in Nat /\ SIZE \in Nat /\ 0 \in Byte /\ <<>> \in Seq(Byte)
      BY Constants DEF Byte
    <3>2. Zeroed \in [Byte -> Byte]
      BY <3>1 DEF Zeroed, Byte
    <3>. QED
      BY <3>1, <3>2 DEF Init, TypeInv, TypeOK
  <2>. QED
    BY <2>1, <2>2
<1>2. CallInv /\ TypeInv /\ [Next]_vars => CallInv' /\ TypeInv'
  BY CallStep, TypeStep
<1>3. TypeInv => TypeOK
  BY DEF TypeInv
<1>. QED
  BY <1>1, <1>2, <1>3, PTL DEF Spec
-----------------------------------------------------------------------------
(* How long a call takes                                                   *)

\* The steps i2c_writeReg or i2c_readReg has still to take, and with them the
\* events the worker has to handle and the jobs it has to run before it lets the
\* clock go.
Transfers == IF call.op = "write" THEN Len(call.bytes) ELSE call.length + 2
DriverLeft ==
  CASE pc = "start" -> Transfers + 4
    [] pc = "high" -> Transfers + 3
    [] pc = "low" -> Transfers + 2
    [] pc = "restart" -> call.length + 3
    [] pc = "address" -> call.length + 2
    [] pc = "data" -> Len(call.bytes) - Len(got) + 1
    [] pc = "read" -> call.length - Len(got) + 1
    [] pc = "stop" -> 1
    [] OTHER -> 0
CallLeft ==
  3 * DriverLeft + (IF event = "none" THEN 0 ELSE 2) + (IF isr = "job" THEN 1 ELSE 0)

InTransfer == Transferring /\ pc # "idle"

\* What is left of a call is never more than the whole of it.
LEMMA LeftIsNat ==
  ASSUME CallInv, ReadCall, InTransfer
  PROVE  /\ Transfers \in Nat /\ DriverLeft \in Nat /\ 0 < DriverLeft
         /\ DriverLeft <= Transfers + 4
<1>1. CASE call.op = "write"
  <2>1. /\ Len(call.bytes) \in Nat /\ 0 < Len(call.bytes)
        /\ pc \in {"start", "high", "low", "data", "stop"}
        /\ pc = "data" => Len(got) \in Nat /\ Len(got) < Len(call.bytes)
    BY <1>1 DEF CallInv, InTransfer
  <2>2. Transfers = Len(call.bytes)
    BY <1>1 DEF Transfers
  <2>. QED
    BY <2>1, <2>2, SMTT(30) DEF DriverLeft
<1>2. CASE call.op = "read"
  <2>1. /\ call.length \in Nat /\ 0 < call.length
        /\ pc \in {"start", "high", "low", "restart", "address", "read", "stop"}
        /\ pc = "read" => Len(got) < call.length
    BY <1>2 DEF CallInv, ReadCall, InTransfer
  <2>2. pc = "read" => Len(got) \in Nat
    BY Appended DEF ReadCall
  <2>3. Transfers = call.length + 2
    BY <1>2 DEF Transfers
  <2>4. CASE pc = "read"
    <3>1. DriverLeft = call.length - Len(got) + 1
      BY <2>4 DEF DriverLeft
    <3>. QED
      BY <2>1, <2>2, <2>3, <2>4, <3>1
  <2>5. CASE pc # "read"
    <3>1. DriverLeft \in {Transfers + 4, Transfers + 3, Transfers + 2, call.length + 3,
                          call.length + 2, 1}
      BY <2>1, <2>5 DEF DriverLeft
    <3>. QED
      BY <2>1, <2>3, <3>1
  <2>. QED
    BY <2>4, <2>5
<1>. QED
  BY <1>1, <1>2 DEF InTransfer, Transferring

\* Every step of i2c_writeReg and i2c_readReg waits until the worker has let the
\* clock go, and brings the call nearer to its end.
LEMMA DriverAdvances ==
  ASSUME CallInv, ReadCall, InTransfer, Driver
  PROVE  /\ event = "none" /\ isr' = isr
         /\ DriverLeft' \in Nat /\ DriverLeft' < DriverLeft
<1>0. /\ Transfers \in Nat /\ DriverLeft \in Nat /\ 0 < DriverLeft
      /\ DriverLeft <= Transfers + 4
  BY LeftIsNat
<1>o. call.op # "probe" /\ pc # "wait"
  BY ZenonT(30) DEF InTransfer, Transferring, CallInv
<1>i. ~ StartProbe /\ ~ Waiting
  BY <1>o DEF StartProbe, Waiting
<1>e. event = "none" /\ isr' = isr /\ call' = call
  BY <1>i, ZenonT(30) DEF Driver, StartWrite, StartRead, i2c_start, Answer, OffsetHigh, OffsetLow,
     Offset, i2c_write, Restart, i2c_read, i2c_stop, worker
<1>a. CASE pc' = "idle"
  <2>1. DriverLeft' = 0
    BY <1>a DEF DriverLeft
  <2>. QED
    BY <1>0, <1>e, <2>1
<1>1. CASE StartWrite /\ pc' # "idle"
  <2>1. pc = "start" /\ pc' = "high"
    BY <1>1 DEF StartWrite, i2c_start
  <2>. QED
    BY <1>0, <1>e, <2>1 DEF DriverLeft, Transfers
<1>2. CASE OffsetHigh
  <2>1. pc = "high" /\ pc' = "low"
    BY <1>2 DEF OffsetHigh, Offset
  <2>. QED
    BY <1>0, <1>e, <2>1 DEF DriverLeft, Transfers
<1>3. CASE OffsetLow
  <2>1. pc = "low" /\ got' = got /\ pc' = IF call.op = "write" THEN "data" ELSE "restart"
    BY <1>3 DEF OffsetLow, Offset
  <2>2. Len(got) = 0
    BY <2>1, NoBytes, Zenon DEF CallInv
  <2>3. CASE call.op = "write"
    BY <1>0, <1>e, <2>1, <2>2, <2>3 DEF DriverLeft, Transfers
  <2>4. CASE call.op = "read"
    <3>1. call.length \in Nat
      BY <2>4 DEF ReadCall
    <3>. QED
      BY <1>0, <1>e, <2>1, <2>4, <3>1 DEF DriverLeft, Transfers
  <2>. QED
    BY <2>3, <2>4 DEF InTransfer, Transferring
<1>4. CASE i2c_write /\ pc' # "idle"
  <2>1. /\ pc = "data" /\ pc' = IF Len(got') = Len(call.bytes) THEN "stop" ELSE "data"
        /\ got' = Append(got, call.bytes[Len(got) + 1])
    BY <1>4, Zenon DEF i2c_write
  <2>2. /\ call.bytes \in Seq(Byte) /\ Len(got) < Len(call.bytes) /\ got \in Seq(Byte)
    BY <2>1, Zenon DEF CallInv
  <2>3. IsSequence(got)
    BY <2>2 DEF IsSequence
  <2>4. Len(got) \in Nat /\ Len(got') = Len(got) + 1 /\ Len(call.bytes) \in Nat
    BY <2>1, <2>2, <2>3, Appended
  <2>. QED
    BY <1>e, <2>1, <2>2, <2>4, SMTT(30) DEF DriverLeft
<1>5. CASE Restart
  <2>1. pc = "restart" /\ pc' = "address" /\ call.length \in Nat
    BY <1>5, Zenon DEF Restart, CallInv, ReadCall
  <2>. QED
    BY <1>e, <2>1, SMTT(30) DEF DriverLeft
<1>6. CASE StartRead /\ pc' # "idle"
  <2>1. pc = "address" /\ pc' = "read" /\ got' = got
    BY <1>6, SMTT(30) DEF StartRead, i2c_start, Answer
  <2>2. Len(got) = 0 /\ call.length \in Nat
    BY <2>1, NoBytes, Zenon DEF CallInv, ReadCall
  <2>. QED
    BY <1>e, <2>1, <2>2 DEF DriverLeft
<1>7. CASE i2c_read
  <2>1. PICK x : got' = Append(got, x)
    BY <1>7, SMTT(30) DEF i2c_read
  <2>2. /\ pc = "read" /\ call.op = "read" /\ IsSequence(got)
        /\ pc' = IF Len(got) + 1 = call.length THEN "stop" ELSE "read"
    BY <1>7, Zenon DEF i2c_read, Last, CallInv, ReadCall
  <2>3. Len(got) \in Nat /\ Len(got') = Len(got) + 1
    BY <2>1, <2>2, Appended
  <2>4. Len(got) < call.length /\ call.length \in Nat
    BY <2>2 DEF ReadCall
  <2>. QED
    BY <1>e, <2>2, <2>3, <2>4 DEF DriverLeft
<1>8. CASE i2c_stop
  BY <1>8, <1>a DEF i2c_stop
<1>. QED
  BY <1>a, <1>e, <1>i, <1>1, <1>2, <1>3, <1>4, <1>5, <1>6, <1>7, <1>8, Zenon DEF Driver

\* Whatever takes a step, there is less left of a call of i2c_writeReg or
\* i2c_readReg than before.
CallAdvances == InTransfer => CallLeft' \in Nat /\ CallLeft' < CallLeft

\* It holds of every step: a call cannot begin and i2c_start_timeout cannot run
\* while another is under way.
LEMMA AdvanceStep == CallInv /\ ReadCall /\ Next => CallAdvances
<1>. SUFFICES ASSUME CallInv, ReadCall, Next, InTransfer
              PROVE  CallLeft' \in Nat /\ CallLeft' < CallLeft
  BY DEF CallAdvances
<1>0. DriverLeft \in Nat
  BY LeftIsNat
<1>1. CASE Driver
  <2>1. event = "none" /\ isr' = isr /\ DriverLeft' \in Nat /\ DriverLeft' < DriverLeft
    BY <1>1, DriverAdvances
  <2>2. PICK j \in {0, 1}, e \in {0, 2} :
          CallLeft = 3 * DriverLeft + 0 + j /\ CallLeft' = 3 * DriverLeft' + e + j
    BY <2>1, Zenon DEF CallLeft
  <2>3. \A m, n \in Nat : \A jj \in {0, 1}, ee \in {0, 2} :
          n < m => 3 * n + ee + jj \in Nat /\ 3 * n + ee + jj < 3 * m + 0 + jj
    OBVIOUS
  <2>. QED
    BY <1>0, <2>1, <2>2, <2>3, Zenon
<1>2. CASE Handle \/ Job
  <2>1. DriverLeft' = DriverLeft
    BY <1>2 DEF Handle, Job, controller, DriverLeft, Transfers
  <2>2. CASE Handle
    <3>1. event # "none" /\ event' = "none" /\ isr = "none"
      BY <2>2, Zenon DEF Handle, Receive, Send, OtherEvent
    <3>. QED
      BY <1>0, <2>1, <3>1 DEF CallLeft
  <2>3. CASE Job
    <3>1. event' = event /\ isr = "job" /\ isr' # "job"
      BY <2>3, Zenon DEF Job, twi
    <3>. QED
      BY <1>0, <2>1, <3>1 DEF CallLeft
  <2>. QED
    BY <1>2, <2>2, <2>3
<1>3. ~ Calls
  BY Zenon DEF Calls, writeReg, readReg, probe, Begin, InTransfer
<1>4. ~ ProbeAnswer
  BY Zenon DEF ProbeAnswer, CallInv, InTransfer, Transferring
<1>. QED
  BY <1>1, <1>2, <1>3, <1>4 DEF Next, Worker

\* A call of i2c_writeReg or i2c_readReg takes at most three steps for each byte
\* and fifteen (a write) or twenty-one (a read) beside them, those of the worker
\* counted, whatever the devices answer: every step of the controller, of TWI_vect
\* and of a job leaves less to do.
THEOREM CallsAreBounded ==
  Spec => /\ [](InTransfer => CallLeft <= 3 * Transfers + 15)
          /\ [][CallAdvances]_vars
<1>1. Init => CallInv /\ ReadCall
  BY BusInit DEF BusInv
<1>2. CallInv /\ ReadCall /\ [Next]_vars => CallInv' /\ ReadCall'
  BY CallStep, ReadCallStep
<1>3. CallInv /\ ReadCall => (InTransfer => CallLeft <= 3 * Transfers + 15)
  <2>. SUFFICES ASSUME CallInv, ReadCall, InTransfer PROVE CallLeft <= 3 * Transfers + 15
    OBVIOUS
  <2>1. /\ Transfers \in Nat /\ DriverLeft \in Nat /\ DriverLeft <= Transfers + 4
    BY LeftIsNat
  <2>. QED
    BY <2>1 DEF CallLeft
<1>4. CallInv /\ ReadCall /\ [Next]_vars => [CallAdvances]_vars
  BY AdvanceStep
<1>. QED
  BY <1>1, <1>2, <1>3, <1>4, PTL DEF Spec
==============================================================================
