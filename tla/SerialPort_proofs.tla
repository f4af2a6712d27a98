-------------------------- MODULE SerialPort_proofs --------------------------
(***************************************************************************)
(* What the serial port delivers, for any packet and chunk size, any text, *)
(* any pace of the host and an interrupt at any moment: what is printed    *)
(* arrives but for a byte per interrupt, and what input_datastream takes   *)
(* is stored, in order and but for the line that fgets gives up.           *)
(***************************************************************************)
EXTENDS SerialPort, SequenceTheorems, FiniteSetTheorems, TLAPS

\* Where the controller can be, and what its buffers hold
Shape ==
  /\ sent \in Nat /\ got \in Int /\ address \in Nat /\ printed \in Nat /\ noted \in Nat
  /\ dropped \in Nat /\ overrun \in Nat /\ calls \in Nat /\ interrupts \in Nat
  /\ outBank \in Seq(Int) /\ line \in Seq(Int) /\ file \in Seq(Int)
  /\ inBank \in Seq(Int) /\ received \in Seq(Int)
  /\ pc \in {"idle", "part", "full", "flush", "getc", "test", "read", "release", "got",
             "task1", "task2", "store", "put", "clear", "wait", "write", "task"}
  /\ after \in {"idle", "task2", "store", "put"} /\ what \in {"greeting", "file"}
  /\ isr \in {"none", "put", "clear", "wait"} /\ selected \in {"IN", "OUT"}
  /\ packet \in {"yes", "no"} /\ sending \in {"yes", "no"}

\* The constants, one by one.
LEMMA Constants ==
  /\ N \in Nat /\ CHUNK \in Nat /\ 0 < CHUNK /\ EPSIZE \in Nat /\ 0 < EPSIZE
  /\ CALLS \in Nat /\ INTERRUPTS \in Nat /\ Newlines \subseteq -INTERRUPTS..N
  BY SerialAssumption

\* A byte that CDC_Device_putchar is done with is in the bank, given up, or lost to a
\* bank without room.
LEMMA PutStep ==
  ASSUME Shape, Timeout \/ Write_8
  PROVE  /\ address' = address + 1 /\ printed' = printed + 1 /\ what' = what
         /\ pc \in {"wait", "write"} /\ pc' \in {"put", "task"}
         /\ UNCHANGED <<sent, outBank, packet, selected, got, line, file, lost, after, sending,
                        received, isr, noted, interrupts, calls>>
         /\ \/ inBank' = Append(inBank, printed + 1) /\ dropped' = dropped /\ overrun' = overrun
               /\ pc = "write" /\ IsReadWriteAllowed
            \/ inBank' = inBank /\ dropped' = dropped + 1 /\ overrun' = overrun
            \/ inBank' = inBank /\ dropped' = dropped /\ overrun' = overrun + 1
               /\ pc = "write" /\ ~ IsReadWriteAllowed
<1>1. CASE Timeout
  BY <1>1, Zenon DEF Timeout, Advance, port, input, bank, irq
<1>2. CASE Write_8
  BY <1>2, Zenon DEF Write_8, Advance, port, input, irq
<1>. QED
  BY <1>1, <1>2

\* A byte of a callback is in the bank, given up, or still to be printed.
LEMMA NoteStep ==
  ASSUME Shape, Note \/ NoteClear \/ NoteReady \/ NoteTimeout \/ Return
  PROVE  /\ UNCHANGED <<sent, outBank, packet, selected, got, line, file, lost, pc, after, what,
                        address, printed, received, overrun, interrupts, calls>>
         /\ isr # "none" /\ isr' \in {"none", "put", "clear", "wait"}
         /\ sending' \in {sending, "yes"}
         /\ \/ noted' = noted + 1 /\ inBank' = Append(inBank, -(noted + 1)) /\ dropped' = dropped
               /\ isr' = "put" /\ sending' = sending /\ sending = "no"
               /\ (isr = "wait" \/ IsReadWriteAllowed)
            \/ noted' = noted + 1 /\ inBank' = inBank /\ dropped' = dropped + 1 /\ isr' = "put"
            \/ noted' = noted /\ inBank' = inBank /\ dropped' = dropped
               /\ (isr' = "wait" => sending' = "yes")
<1>1. CASE Note
  BY <1>1, Zenon DEF Note, IsReadWriteAllowed, port, input, output, bank
<1>2. CASE NoteClear
  BY <1>2 DEF NoteClear, port, input, output
<1>3. CASE NoteReady
  BY <1>3, Zenon DEF NoteReady, port, input, output
<1>4. CASE NoteTimeout
  BY <1>4 DEF NoteTimeout, port, input, output, bank
<1>5. CASE Return
  BY <1>5 DEF Return, port, input, output, bank
<1>. QED
  BY <1>1, <1>2, <1>3, <1>4, <1>5

\* A task, and a flush, only hand the bank over and move on.
LEMMA TaskStep ==
  ASSUME Shape, ControlLoop \/ InputTask \/ OutputTask \/ Flush \/ FlushWait
  PROVE  /\ UNCHANGED <<sent, outBank, packet, got, line, file, lost, what, address, printed,
                        inBank, received, dropped, overrun, isr, noted, interrupts, calls>>
         /\ sending' \in {sending, "yes"} /\ selected' \in {selected, "IN"}
         /\ pc \in {"idle", "task1", "task2", "task", "part", "full", "flush"}
         /\ pc' \in {"part", "full", "flush", after'}
         /\ \/ pc = "idle" /\ after' = "idle"
            \/ pc = "task1" /\ after' = "task2"
            \/ pc = "task2" /\ after' = "store"
            \/ pc = "task" /\ after' = "put"
            \/ pc \in {"part", "full", "flush"} /\ after' = after
<1>1. CASE ControlLoop \/ InputTask \/ OutputTask
  <2>1. PICK here \in {"idle", "task1", "task2", "task"}, next \in {"idle", "task2", "store", "put"} :
          /\ USBTask(here, next)
          /\ \/ here = "idle" /\ next = "idle"
             \/ here = "task1" /\ next = "task2"
             \/ here = "task2" /\ next = "store"
             \/ here = "task" /\ next = "put"
    BY <1>1, Zenon DEF ControlLoop, InputTask, OutputTask
  <2>2. UNCHANGED <<sent, outBank, packet, got, line, file, lost, what, address, printed, inBank,
                    sending, received, dropped, overrun, isr, noted, interrupts, calls>>
    BY <2>1 DEF USBTask, port, input, output, bank, irq
  <2>3. pc = here /\ after' = next /\ selected' = "IN" /\ pc' \in {"part", "full", next}
    BY <2>1, Zenon DEF USBTask
  <2>. QED
    BY <2>1, <2>2, <2>3, Zenon
<1>2. CASE Flush \/ FlushWait
  BY <1>2 DEF Flush, FlushWait, port, input, output, irq
<1>. QED
  BY <1>1, <1>2

\* The other steps of CDC_Device_SendByte, and the end of a text.
LEMMA WaitStep ==
  ASSUME Shape, putchar \/ ClearIN \/ Ready \/ EndOutput
  PROVE  /\ UNCHANGED <<sent, outBank, packet, got, line, file, lost, after, what, address, printed,
                        inBank, received, dropped, overrun, isr, noted, interrupts, calls>>
         /\ sending' \in {sending, "yes"} /\ selected' \in {selected, "IN"}
         /\ \/ pc = "put" /\ pc' = "write" /\ IsReadWriteAllowed /\ sending' = sending
            \/ pc = "put" /\ pc' = "clear"
            \/ pc = "clear" /\ pc' = "wait" /\ sending' = "yes"
            \/ pc = "wait" /\ pc' = "write" /\ sending = "no" /\ sending' = sending
            \/ pc = "put" /\ pc' = "getc" /\ what = "greeting"
            \/ pc = "put" /\ pc' = "idle" /\ what # "greeting"
<1>1. CASE putchar
  BY <1>1, Zenon DEF putchar, port, input, output, bank, irq
<1>2. CASE ClearIN \/ Ready \/ EndOutput
  BY <1>2 DEF ClearIN, Ready, EndOutput, port, input, output, bank, irq
<1>. QED
  BY <1>1, <1>2

\* Every step leaves the variables what they are.
LEMMA ShapeStep == Shape /\ [Next]_vars => Shape'
<1>. SUFFICES ASSUME Shape, [Next]_vars PROVE Shape'
  OBVIOUS
<1>0. <<>> \in Seq(Int) /\ \A n \in Nat : n + 1 \in Nat /\ n + 1 \in Int /\ -(n + 1) \in Int /\ -n \in Int
  OBVIOUS
<1>1. CASE HostSend
  <2>1. PICK n \in 1..EPSIZE : outBank' = [k \in 1..n |-> sent + k] /\ sent' = sent + n
    BY <1>1 DEF HostSend
  <2>2. outBank' \in Seq(Int) /\ sent' \in Nat
    BY <2>1, Constants DEF Shape
  <2>. QED
    BY <1>1, <2>2 DEF HostSend, Shape, input, output, bank, irq
<1>2. CASE HostTake
  <2>1. received \o inBank \in Seq(Int)
    BY DEF Shape
  <2>. QED
    BY <1>0, <1>2, <2>1 DEF HostTake, Shape, port, input, output, irq
<1>3. CASE ControlLoop \/ InputTask \/ OutputTask \/ Flush \/ FlushWait
  BY <1>3, TaskStep, ZenonT(60) DEF Shape
<1>4. CASE putchar \/ ClearIN \/ Ready \/ EndOutput
  BY <1>4, WaitStep, ZenonT(60) DEF Shape
<1>5. CASE Timeout \/ Write_8
  <2>1. Append(inBank, printed + 1) \in Seq(Int)
    BY DEF Shape
  <2>. QED
    BY <1>0, <1>5, <2>1, PutStep, ZenonT(60) DEF Shape
<1>6. CASE Note \/ NoteClear \/ NoteReady \/ NoteTimeout \/ Return
  <2>1. Append(inBank, -(noted + 1)) \in Seq(Int)
    BY DEF Shape
  <2>. QED
    BY <1>0, <1>6, <2>1, NoteStep, ZenonT(60) DEF Shape
<1>7. CASE StartInput \/ Interrupt
  <2>1. CASE StartInput
    BY <1>0, <2>1, ZenonT(40) DEF StartInput, Shape, port, input, bank, irq
  <2>2. CASE Interrupt
    BY <1>0, <2>2, ZenonT(40) DEF Interrupt, Shape, port, input, output, bank
  <2>. QED
    BY <1>7, <2>1, <2>2
<1>8. CASE SelectOUT \/ IsOUTReceived \/ ClearOUT
  <2>1. NONE \in Int
    BY DEF NONE
  <2>. QED
    BY <1>8, <2>1 DEF SelectOUT, IsOUTReceived, ClearOUT, Shape, port, input, output, bank, irq
<1>9. CASE Read_8
  <2>1. outBank # <<>> => Head(outBank) \in Int /\ Tail(outBank) \in Seq(Int)
    BY DEF Shape
  <2>2. NONE \in Int /\ -interrupts \in Int
    BY DEF NONE, Shape
  <2>. QED
    BY <1>9, <2>1, <2>2, ZenonT(40) DEF Read_8, Shape, input, output, bank, irq
<1>10. CASE getc
  <2>1. Append(line, got) \in Seq(Int)
    BY DEF Shape
  <2>. QED
    BY <1>10, <2>1, ZenonT(40) DEF getc, Shape, port, output, bank, irq
<1>11. CASE WriteChunk
  <2>1. file \o line \in Seq(Int)
    BY DEF Shape
  <2>. QED
    BY <1>0, <1>11, <2>1, ZenonT(40) DEF WriteChunk, Shape, port, output, bank, irq
<1>12. CASE EndOfFile
  BY <1>0, <1>12 DEF EndOfFile, Shape, port, bank, irq
<1>13. CASE UNCHANGED vars
  BY <1>13, SMTT(30) DEF vars, Shape, port, input, output, bank, irq
<1>. QED
  BY <1>1, <1>2, <1>3, <1>4, <1>5, <1>6, <1>7, <1>8, <1>9, <1>10, <1>11, <1>12, <1>13, Zenon
  DEF Next, Controller, Main, Handler

\* Nothing has happened yet.
LEMMA ShapeInit == Init => Shape
<1>1. <<>> \in Seq(Int)
  OBVIOUS
<1>. QED
  BY <1>1 DEF Init, Shape

-----------------------------------------------------------------------------
(* Bytes in order                                                          *)

Elems(s) == {s[k] : k \in 1..Len(s)}

\* y may come behind x.
Behind(x, y) == (x > 0 /\ y > 0 => x < y) /\ (x < 0 /\ y < 0 => x > y)

\* An empty packet changes nothing.
LEMMA ConcatEmpty == \A s \in Seq(Int) : s \o <<>> = s /\ <<>> \o s = s
  OBVIOUS

\* It does not matter in which order packets are put together.
LEMMA Associative ==
  ASSUME NEW r \in Seq(Int), NEW b \in Seq(Int), NEW t \in Seq(Int)
  PROVE  (r \o b) \o t = r \o (b \o t)
<1>. DEFINE left == (r \o b) \o t
            right == r \o (b \o t)
<1>1. r \o b \in Seq(Int) /\ b \o t \in Seq(Int)
  OBVIOUS
<1>2. left \in Seq(Int) /\ right \in Seq(Int)
  BY <1>1
<1>3. Len(left) = Len(right)
  BY <1>1
<1>4. ASSUME NEW i \in 1..Len(left) PROVE left[i] = right[i]
  BY <1>1, <1>4
<1>. HIDE DEF left, right
<1>5. left = right
  <2>1. left = [i \in 1..Len(left) |-> left[i]] /\ right = [i \in 1..Len(right) |-> right[i]]
    BY <1>2
  <2>. QED
    BY <1>3, <1>4, <2>1, Zenon
<1>. QED
  BY <1>5 DEF left, right

\* A byte at the end of a buffer.
LEMMA OneByte ==
  ASSUME NEW s \in Seq(Int), NEW x \in Int
  PROVE  /\ Append(s, x) = s \o <<x>> /\ <<x>> \in Seq(Int) /\ Len(<<x>>) = 1
         /\ Elems(<<x>>) = {x} /\ InOrder(<<x>>)
<1>1. Append(s, x) = s \o <<x>> /\ <<x>> \in Seq(Int) /\ Len(<<x>>) = 1 /\ <<x>>[1] = x
  OBVIOUS
<1>2. 1..1 = {1} /\ \A j, k \in {1} : ~ (j < k)
  OBVIOUS
<1>. QED
  BY <1>1, <1>2, Zenon DEF Elems, InOrder

\* The bytes of two pieces.
LEMMA ElemsOfConcat ==
  ASSUME NEW s \in Seq(Int), NEW t \in Seq(Int)
  PROVE  Elems(s \o t) = Elems(s) \cup Elems(t)
<1>0. Len(s) \in Nat /\ Len(t) \in Nat
  OBVIOUS
<1>1. /\ Len(s \o t) = Len(s) + Len(t)
      /\ \A i \in 1..Len(s) + Len(t) : (s \o t)[i] = IF i <= Len(s) THEN s[i] ELSE t[i - Len(s)]
  BY ConcatProperties
<1>2. ASSUME NEW x \in Elems(s \o t) PROVE x \in Elems(s) \cup Elems(t)
  <2>1. PICK i \in 1..Len(s) + Len(t) : x = (s \o t)[i]
    BY <1>1, <1>2 DEF Elems
  <2>2. i \in 1..Len(s) \/ (~ (i <= Len(s)) /\ i - Len(s) \in 1..Len(t))
    BY <1>0
  <2>. QED
    BY <1>1, <2>1, <2>2 DEF Elems
<1>3. ASSUME NEW x \in Elems(s) PROVE x \in Elems(s \o t)
  <2>1. PICK i \in 1..Len(s) : x = s[i]
    BY <1>3 DEF Elems
  <2>2. i \in 1..Len(s) + Len(t) /\ i <= Len(s)
    BY <1>0
  <2>. QED
    BY <1>1, <2>1, <2>2 DEF Elems
<1>4. ASSUME NEW x \in Elems(t) PROVE x \in Elems(s \o t)
  <2>1. PICK i \in 1..Len(t) : x = t[i]
    BY <1>4, Zenon DEF Elems
  <2>2. /\ Len(s) + i \in 1..Len(s) + Len(t) /\ ~ (Len(s) + i <= Len(s))
        /\ (Len(s) + i) - Len(s) = i
    BY <1>0
  <2>3. (s \o t)[Len(s) + i] = t[i]
    BY <1>1, <2>2
  <2>. QED
    BY <1>1, <2>1, <2>2, <2>3, Zenon DEF Elems
<1>. QED
  BY <1>2, <1>3, <1>4

\* Two pieces are in order when each is and one may come behind the other.
LEMMA JoinOrder ==
  ASSUME NEW s \in Seq(Int), NEW t \in Seq(Int), InOrder(s), InOrder(t),
         \A x \in Elems(s), y \in Elems(t) : Behind(x, y)
  PROVE  InOrder(s \o t)
<1>0. Len(s) \in Nat /\ Len(t) \in Nat
  OBVIOUS
<1>1. /\ Len(s \o t) = Len(s) + Len(t)
      /\ \A i \in 1..Len(s) + Len(t) : (s \o t)[i] = IF i <= Len(s) THEN s[i] ELSE t[i - Len(s)]
  BY ConcatProperties
<1>2. SUFFICES ASSUME NEW j \in 1..Len(s) + Len(t), NEW k \in 1..Len(s) + Len(t), j < k
               PROVE  Behind((s \o t)[j], (s \o t)[k])
  BY <1>1, Zenon DEF InOrder, Behind
<1>3. CASE k <= Len(s)
  <2>1. j \in 1..Len(s) /\ k \in 1..Len(s) /\ j <= Len(s)
    BY <1>0, <1>2, <1>3
  <2>2. Behind(s[j], s[k])
    BY <1>2, <2>1, Zenon DEF InOrder, Behind
  <2>. QED
    BY <1>1, <1>3, <2>1, <2>2, Zenon
<1>4. CASE ~ (k <= Len(s)) /\ j <= Len(s)
  <2>1. j \in 1..Len(s) /\ k - Len(s) \in 1..Len(t)
    BY <1>0, <1>2, <1>4
  <2>2. s[j] \in Elems(s) /\ t[k - Len(s)] \in Elems(t)
    BY <2>1 DEF Elems
  <2>. QED
    BY <1>1, <1>4, <2>2, Zenon
<1>5. CASE ~ (k <= Len(s)) /\ ~ (j <= Len(s))
  <2>1. j - Len(s) \in 1..Len(t) /\ k - Len(s) \in 1..Len(t) /\ j - Len(s) < k - Len(s)
    BY <1>0, <1>2, <1>5
  <2>2. Behind(t[j - Len(s)], t[k - Len(s)])
    BY <2>1, Zenon DEF InOrder, Behind
  <2>. QED
    BY <1>1, <1>5, <2>2, Zenon
<1>. QED
  BY <1>3, <1>4, <1>5

\* Of two pieces that are in order each is, and one may come behind the other.
LEMMA SplitOrder ==
  ASSUME NEW s \in Seq(Int), NEW t \in Seq(Int), InOrder(s \o t)
  PROVE  InOrder(s) /\ InOrder(t) /\ \A x \in Elems(s), y \in Elems(t) : Behind(x, y)
<1>0. Len(s) \in Nat /\ Len(t) \in Nat
  OBVIOUS
<1>1. /\ Len(s \o t) = Len(s) + Len(t)
      /\ \A i \in 1..Len(s) + Len(t) : (s \o t)[i] = IF i <= Len(s) THEN s[i] ELSE t[i - Len(s)]
  BY ConcatProperties
<1>2. \A j, k \in 1..Len(s) + Len(t) : j < k => Behind((s \o t)[j], (s \o t)[k])
  BY <1>1, Zenon DEF InOrder, Behind
<1>3. /\ \A i \in 1..Len(s) : i \in 1..Len(s) + Len(t) /\ (s \o t)[i] = s[i]
      /\ \A i \in 1..Len(t) : Len(s) + i \in 1..Len(s) + Len(t) /\ (s \o t)[Len(s) + i] = t[i]
  <2>1. ASSUME NEW i \in 1..Len(s) PROVE i \in 1..Len(s) + Len(t) /\ (s \o t)[i] = s[i]
    BY <1>0, <1>1
  <2>2. ASSUME NEW i \in 1..Len(t)
        PROVE  Len(s) + i \in 1..Len(s) + Len(t) /\ (s \o t)[Len(s) + i] = t[i]
    <3>1. /\ Len(s) + i \in 1..Len(s) + Len(t) /\ ~ (Len(s) + i <= Len(s))
          /\ (Len(s) + i) - Len(s) = i
      BY <1>0
    <3>. QED
      BY <1>1, <3>1
  <2>. QED
    BY <2>1, <2>2, Zenon
<1>4. InOrder(s)
  BY <1>2, <1>3, Zenon DEF InOrder, Behind
<1>5. InOrder(t)
  <2>1. \A j, k \in 1..Len(t) : j < k => Len(s) + j < Len(s) + k
    BY <1>0
  <2>2. \A j, k \in 1..Len(t) : j < k => Behind(t[j], t[k])
    BY <1>2, <1>3, <2>1, Zenon
  <2>. QED
    BY <2>2, Zenon DEF InOrder, Behind
<1>6. \A x \in Elems(s), y \in Elems(t) : Behind(x, y)
  <2>1. \A j \in 1..Len(s), k \in 1..Len(t) : j < Len(s) + k
    BY <1>0
  <2>2. \A j \in 1..Len(s), k \in 1..Len(t) : Behind(s[j], t[k])
    BY <1>2, <1>3, <2>1, Zenon
  <2>. QED
    BY <2>2, Zenon DEF Elems
<1>. QED
  BY <1>4, <1>5, <1>6

-----------------------------------------------------------------------------
(* What is printed                                                         *)

arrived == received \o inBank

\* Every byte that was printed has arrived, is in the bank, or is counted as given up;
\* and the room that CDC_Device_SendByte found is still there unless an interrupt
\* came in, to which no byte was lost yet.
PrintInv ==
  /\ \A x \in Elems(arrived) : x \in 1..printed \/ -x \in 1..noted
  /\ InOrder(arrived)
  /\ Len(arrived) + dropped + overrun = printed + noted
  /\ overrun <= interrupts
  /\ pc = "wait" => \/ overrun < interrupts
                    \/ isr = "none" /\ (sending = "yes" \/ inBank = <<>>)
  /\ pc = "write" => \/ overrun < interrupts
                     \/ isr = "none" /\ IsReadWriteAllowed

\* A byte is written to the bank.
LEMMA Arrives ==
  ASSUME Shape, PrintInv, NEW x \in Int, inBank' = Append(inBank, x), received' = received,
         \/ x = printed + 1 /\ printed' = printed + 1 /\ noted' = noted
         \/ x = -(noted + 1) /\ noted' = noted + 1 /\ printed' = printed,
         dropped' = dropped, overrun' = overrun
  PROVE  /\ \A y \in Elems(arrived') : y \in 1..printed' \/ -y \in 1..noted'
         /\ InOrder(arrived')
         /\ Len(arrived') + dropped' + overrun' = printed' + noted'
<1>1. /\ received \in Seq(Int) /\ inBank \in Seq(Int) /\ arrived \in Seq(Int)
      /\ printed \in Nat /\ noted \in Nat /\ dropped \in Nat /\ overrun \in Nat
  BY DEF Shape, arrived
<1>2. <<x>> \in Seq(Int) /\ Len(<<x>>) = 1 /\ Elems(<<x>>) = {x} /\ InOrder(<<x>>)
      /\ Append(inBank, x) = inBank \o <<x>>
  BY <1>1, OneByte, Zenon
<1>3. arrived' = arrived \o <<x>>
  <2>1. received \o (inBank \o <<x>>) = (received \o inBank) \o <<x>>
    BY <1>1, <1>2, Associative, Zenon
  <2>. QED
    BY <1>2, <2>1, Zenon DEF arrived
<1>4. Elems(arrived \o <<x>>) = Elems(arrived) \cup {x}
  BY <1>1, <1>2, ElemsOfConcat, ZenonT(40)
<1>5. \A y \in Elems(arrived) : y \in 1..printed \/ -y \in 1..noted
  BY DEF PrintInv
<1>6. \A y \in Elems(arrived) : y \in Int
  BY <1>1 DEF Elems
<1>7. \A y \in Elems(arrived) \cup {x} : y \in 1..printed' \/ -y \in 1..noted'
  BY <1>1, <1>5, <1>6
<1>8. \A y \in Elems(arrived) : Behind(y, x)
  <2>. SUFFICES ASSUME NEW y \in Elems(arrived) PROVE Behind(y, x)
    OBVIOUS
  <2>1. y \in Int /\ (y \in 1..printed \/ -y \in 1..noted) /\ (x = printed + 1 \/ x = -(noted + 1))
    BY <1>5, <1>6, Zenon
  <2>2. y > 0 => y < printed + 1
    BY <1>1, <2>1
  <2>3. y < 0 => y > -(noted + 1)
    BY <1>1, <2>1
  <2>4. printed + 1 > 0 /\ ~ (printed + 1 < 0) /\ -(noted + 1) < 0 /\ ~ (-(noted + 1) > 0)
    BY <1>1
  <2>. QED
    BY <2>1, <2>2, <2>3, <2>4, Zenon DEF Behind
<1>9. InOrder(arrived \o <<x>>)
  <2>1. \A y \in Elems(arrived), z \in Elems(<<x>>) : Behind(y, z)
    BY <1>2, <1>8, Zenon
  <2>. QED
    BY <1>1, <1>2, <2>1, JoinOrder, Zenon DEF PrintInv
<1>10. Len(arrived \o <<x>>) + dropped + overrun = printed' + noted'
  <2>1. Len(arrived \o <<x>>) = Len(arrived) + 1 /\ Len(arrived) \in Nat
    BY <1>1, <1>2
  <2>2. Len(arrived) + dropped + overrun = printed + noted
    BY DEF PrintInv
  <2>. QED
    BY <1>1, <2>1, <2>2
<1>. QED
  BY <1>3, <1>4, <1>7, <1>9, <1>10, Zenon

\* Every step of the host, of the main program and of the interrupt keeps what is
\* printed in order, and only CDC_Device_putchar loses a byte.
LEMMA PrintStep == Shape /\ PrintInv /\ [Next]_vars => PrintInv'
<1>. SUFFICES ASSUME Shape, PrintInv, [Next]_vars PROVE PrintInv'
  OBVIOUS
<1>0. /\ received \in Seq(Int) /\ inBank \in Seq(Int) /\ arrived \in Seq(Int) /\ Len(arrived) \in Nat
      /\ printed \in Nat /\ noted \in Nat /\ dropped \in Nat /\ overrun \in Nat /\ interrupts \in Nat
  BY DEF Shape, arrived
<1>a. /\ \A y \in Elems(arrived) : y \in 1..printed \/ -y \in 1..noted
      /\ InOrder(arrived) /\ Len(arrived) + dropped + overrun = printed + noted
      /\ overrun <= interrupts
  BY DEF PrintInv
<1>b. ASSUME UNCHANGED <<arrived, printed, noted, dropped, overrun>>,
             interrupts' \in {interrupts, interrupts + 1},
             pc' = "wait" => \/ overrun < interrupts'
                             \/ isr' = "none" /\ (sending' = "yes" \/ inBank' = <<>>),
             pc' = "write" => \/ overrun < interrupts'
                              \/ isr' = "none" /\ IsReadWriteAllowed'
      PROVE  PrintInv'
  <2>1. overrun <= interrupts'
    BY <1>0, <1>a, <1>b
  <2>2. /\ \A y \in Elems(arrived') : y \in 1..printed' \/ -y \in 1..noted'
        /\ InOrder(arrived') /\ Len(arrived') + dropped' + overrun' = printed' + noted'
    BY <1>a, <1>b, Zenon
  <2>3. Elems(arrived)' = Elems(arrived') /\ InOrder(arrived)' = InOrder(arrived')
    BY Zenon DEF Elems, InOrder
  <2>. QED
    BY <1>b, <2>1, <2>2, <2>3, Zenon DEF PrintInv
<1>1. CASE HostTake
  <2>1. /\ inBank' = <<>> /\ received' = received \o inBank /\ sending' = "no"
        /\ UNCHANGED <<pc, printed, noted, dropped, overrun, isr, interrupts>>
    BY <1>1 DEF HostTake, output, irq
  <2>2. arrived' = arrived
    BY <1>0, <2>1, ConcatEmpty, Zenon DEF arrived
  <2>3. IsReadWriteAllowed'
    <3>1. Len(<<>>) < EPSIZE
      BY Constants
    <3>. QED
      BY <2>1, <3>1, Zenon DEF IsReadWriteAllowed
  <2>. QED
    BY <1>b, <2>1, <2>2, <2>3, Zenon DEF PrintInv
<1>2. CASE Timeout \/ Write_8
  <2>1. pc' \in {"put", "task"} /\ UNCHANGED <<received, isr, noted, interrupts>> /\ printed' = printed + 1
    BY <1>2, PutStep, Zenon
  <2>2. /\ \A y \in Elems(arrived') : y \in 1..printed' \/ -y \in 1..noted'
        /\ InOrder(arrived') /\ Len(arrived') + dropped' + overrun' = printed' + noted'
        /\ overrun' <= interrupts'
    <3>1. CASE inBank' = Append(inBank, printed + 1) /\ dropped' = dropped /\ overrun' = overrun
      <4>1. printed + 1 \in Int
        BY <1>0
      <4>2. /\ \A y \in Elems(arrived') : y \in 1..printed' \/ -y \in 1..noted'
            /\ InOrder(arrived') /\ Len(arrived') + dropped' + overrun' = printed' + noted'
        BY <2>1, <3>1, <4>1, Arrives, Zenon
      <4>. QED
        BY <1>a, <2>1, <3>1, <4>2, Zenon
    <3>2. ASSUME inBank' = inBank, \/ dropped' = dropped + 1 /\ overrun' = overrun
                                   \/ dropped' = dropped /\ overrun' = overrun + 1 /\ overrun < interrupts
          PROVE  /\ \A y \in Elems(arrived') : y \in 1..printed' \/ -y \in 1..noted'
                 /\ InOrder(arrived') /\ Len(arrived') + dropped' + overrun' = printed' + noted'
                 /\ overrun' <= interrupts'
      <4>1. arrived' = arrived
        BY <2>1, <3>2, Zenon DEF arrived
      <4>2. \A y \in Elems(arrived) : y \in 1..printed + 1 \/ -y \in 1..noted
        <5>1. 1..printed \subseteq 1..printed + 1
          BY <1>0
        <5>. QED
          BY <1>a, <5>1, Zenon
      <4>3. Len(arrived) + dropped' + overrun' = (printed + 1) + noted /\ overrun' <= interrupts
        BY <1>0, <1>a, <3>2
      <4>. QED
        BY <1>a, <2>1, <4>1, <4>2, <4>3, Zenon
    <3>3. pc = "write" /\ ~ IsReadWriteAllowed => overrun < interrupts
      BY Zenon DEF PrintInv
    <3>. QED
      BY <1>2, <3>1, <3>2, <3>3, PutStep, ZenonT(30)
  <2>3. Elems(arrived)' = Elems(arrived') /\ InOrder(arrived)' = InOrder(arrived')
    BY Zenon DEF Elems, InOrder
  <2>. QED
    BY <2>1, <2>2, <2>3, Zenon DEF PrintInv
<1>3. CASE Note \/ NoteClear \/ NoteReady \/ NoteTimeout \/ Return
  <2>1. UNCHANGED <<pc, printed, received, overrun, interrupts>> /\ isr # "none"
    BY <1>3, NoteStep, Zenon
  <2>2. /\ \A y \in Elems(arrived') : y \in 1..printed' \/ -y \in 1..noted'
        /\ InOrder(arrived') /\ Len(arrived') + dropped' + overrun' = printed' + noted'
    <3>1. CASE noted' = noted + 1 /\ inBank' = Append(inBank, -(noted + 1)) /\ dropped' = dropped
      <4>1. -(noted + 1) \in Int
        BY <1>0
      <4>. QED
        BY <2>1, <3>1, <4>1, Arrives, Zenon
    <3>2. ASSUME inBank' = inBank, \/ noted' = noted + 1 /\ dropped' = dropped + 1
                                   \/ noted' = noted /\ dropped' = dropped
          PROVE  /\ \A y \in Elems(arrived') : y \in 1..printed' \/ -y \in 1..noted'
                 /\ InOrder(arrived') /\ Len(arrived') + dropped' + overrun' = printed' + noted'
      <4>1. arrived' = arrived
        BY <2>1, <3>2, Zenon DEF arrived
      <4>2. \A y \in Elems(arrived) : y \in 1..printed \/ -y \in 1..noted'
        <5>1. 1..noted \subseteq 1..noted'
          BY <1>0, <3>2
        <5>. QED
          BY <1>a, <5>1, Zenon
      <4>3. Len(arrived) + dropped' + overrun = printed + noted'
        BY <1>0, <1>a, <3>2
      <4>. QED
        BY <1>a, <2>1, <4>1, <4>2, <4>3, Zenon
    <3>. QED
      BY <1>3, <3>1, <3>2, NoteStep, ZenonT(30)
  <2>3. Elems(arrived)' = Elems(arrived') /\ InOrder(arrived)' = InOrder(arrived')
    BY Zenon DEF Elems, InOrder
  <2>. QED
    BY <1>a, <2>1, <2>2, <2>3, Zenon DEF PrintInv
<1>4. CASE isr = "none" /\ (putchar \/ ClearIN \/ Ready \/ EndOutput)
  <2>1. /\ UNCHANGED <<received, inBank, printed, noted, dropped, overrun, interrupts, isr>>
        /\ pc' = "wait" => sending' = "yes"
        /\ pc' = "write" => sending' = sending /\ (IsReadWriteAllowed \/ (pc = "wait" /\ sending = "no"))
    BY <1>4, WaitStep, ZenonT(30)
  <2>2. arrived' = arrived
    BY <2>1, Zenon DEF arrived
  <2>3. pc' = "write" => overrun < interrupts \/ IsReadWriteAllowed'
    <3>1. inBank = <<>> => Len(inBank) < EPSIZE
      BY Constants
    <3>2. pc' = "write" => overrun < interrupts \/ IsReadWriteAllowed
      BY <1>4, <2>1, <3>1, Zenon DEF PrintInv, IsReadWriteAllowed
    <3>. QED
      BY <2>1, <3>2, Zenon DEF IsReadWriteAllowed
  <2>. QED
    BY <1>b, <1>4, <2>1, <2>2, <2>3, Zenon
<1>5. CASE Interrupt
  <2>1. /\ UNCHANGED <<received, inBank, printed, noted, dropped, overrun>>
        /\ interrupts' = interrupts + 1
    BY <1>5 DEF Interrupt, output, bank
  <2>2. arrived' = arrived
    BY <2>1, Zenon DEF arrived
  <2>3. overrun < interrupts'
    BY <1>0, <1>a, <2>1
  <2>. QED
    BY <1>b, <2>1, <2>2, <2>3, Zenon
<1>6. CASE HostSend \/ UNCHANGED vars
  <2>1. UNCHANGED <<received, inBank, sending, printed, noted, dropped, overrun, interrupts, isr, pc>>
    BY <1>6 DEF HostSend, vars, output, bank, irq
  <2>2. arrived' = arrived /\ IsReadWriteAllowed' = IsReadWriteAllowed
    BY <2>1, Zenon DEF arrived, IsReadWriteAllowed
  <2>. QED
    BY <1>b, <2>1, <2>2, Zenon DEF PrintInv
<1>7. CASE \/ ControlLoop \/ InputTask \/ OutputTask \/ Flush \/ FlushWait \/ StartInput
           \/ SelectOUT \/ IsOUTReceived \/ Read_8 \/ ClearOUT \/ getc \/ WriteChunk \/ EndOfFile
  <2>1. /\ UNCHANGED <<received, inBank, printed, noted, dropped, overrun, interrupts>>
        /\ pc' # "wait" /\ pc' # "write"
    <3>1. CASE ControlLoop \/ InputTask \/ OutputTask \/ Flush \/ FlushWait
      <4>1. after' \in {"idle", "task2", "store", "put"}
        BY <3>1, TaskStep, Zenon DEF Shape
      <4>. QED
        BY <3>1, <4>1, TaskStep, Zenon
    <3>2. CASE StartInput \/ SelectOUT \/ WriteChunk \/ EndOfFile
      BY <3>2 DEF StartInput, SelectOUT, WriteChunk, EndOfFile, output, bank, irq
    <3>3. CASE IsOUTReceived \/ Read_8 \/ ClearOUT
      BY <3>3 DEF IsOUTReceived, Read_8, ClearOUT, output, bank, irq
    <3>4. CASE getc
      BY <3>4, Zenon DEF getc, output, bank, irq
    <3>. QED
      BY <1>7, <3>1, <3>2, <3>3, <3>4
  <2>2. arrived' = arrived
    BY <2>1, Zenon DEF arrived
  <2>. QED
    BY <1>b, <2>1, <2>2, Zenon
<1>. QED
  BY <1>1, <1>2, <1>3, <1>4, <1>5, <1>6, <1>7, Zenon DEF Next, Controller, Main, Handler

\* Nothing has been printed yet.
LEMMA PrintInit == Init => PrintInv
<1>. SUFFICES ASSUME Init PROVE PrintInv
  OBVIOUS
<1>1. arrived = <<>> /\ Len(arrived) = 0 /\ Elems(arrived) = {}
  BY DEF Init, arrived, Elems
<1>2. InOrder(arrived)
  BY <1>1 DEF InOrder
<1>. QED
  BY <1>1, <1>2 DEF Init, PrintInv

\* What is printed arrives at the host, the bytes of input_datastream and
\* output_datastream and those of the callbacks each in their order and none twice, but
\* for those that CDC_Device_putchar gave up and at most one for every interrupt, for
\* every size of packet, message and file.
THEOREM PrintedArrivesHolds == Spec => []PrintedArrives
<1>1. Init => Shape /\ PrintInv
  BY ShapeInit, PrintInit
<1>2. Shape /\ PrintInv /\ [Next]_vars => Shape' /\ PrintInv'
  BY ShapeStep, PrintStep
<1>3. PrintInv => PrintedArrives
  BY Zenon DEF PrintInv, PrintedArrives, arrived, Elems
<1>. QED
  BY <1>1, <1>2, <1>3, PTL DEF Spec

-----------------------------------------------------------------------------
(* What is stored                                                          *)

\* Where the controller is, or goes on to after a flush
at == IF pc \in {"part", "full", "flush"} THEN after ELSE pc
Taking == {"getc", "test", "read", "release", "got"}   \* inside fgets

byte == IF pc \in {"release", "got"} /\ got # NONE THEN <<got>> ELSE <<>>
all == ((file \o line) \o byte) \o outBank
past == IF what = "greeting" THEN calls - 1 ELSE calls   \* calls that have come to an end

\* What holds where the controller is: fgets has room in its buffer and no newline in it.
Place ==
  /\ at \in Taking \cup {"task1", "task2", "store"} => what = "greeting"
  /\ at \in {"idle", "put", "clear", "wait", "write", "task"} => line = <<>>
  /\ at = "idle" => what = "file"
  /\ at \in Taking => Len(line) < CHUNK /\ Elems(line) \cap Newlines = {}
  /\ pc = "read" => got = NONE
  /\ packet = "no" => outBank = <<>>
  /\ what = "greeting" => calls > 0

\* A task and a flush lead from one place to the next.
LEMMA PlaceTask ==
  ASSUME Shape, ControlLoop \/ InputTask \/ OutputTask \/ Flush \/ FlushWait
  PROVE  /\ at' = after' /\ pc' \notin Taking /\ pc \notin {"release", "got"}
         /\ \/ at = "idle" /\ at' = "idle"
            \/ at = "task1" /\ at' = "task2"
            \/ at = "task2" /\ at' = "store"
            \/ at = "task" /\ at' = "put"
            \/ at' = at
<1>1. after' \in {"idle", "task2", "store", "put"}
  BY TaskStep, Zenon DEF Shape
<1>2. at' = after' /\ pc' \notin Taking
  BY <1>1, TaskStep, Zenon DEF at, Taking
<1>3. pc \in {"part", "full", "flush"} => at = after
  BY Zenon DEF at
<1>4. pc \notin {"part", "full", "flush"} => at = pc
  BY Zenon DEF at
<1>. QED
  BY <1>2, <1>3, <1>4, TaskStep, ZenonT(30)

\* fgets takes a byte when it has room for it, and goes on if that was not the last one.
LEMMA PlaceStep == Shape /\ Place /\ [Next]_vars => Place'
<1>. SUFFICES ASSUME Shape, Place, [Next]_vars PROVE Place'
  OBVIOUS
<1>0. Shape' /\ Elems(<<>>) = {} /\ Len(<<>>) = 0 /\ 0 < CHUNK /\ calls + 1 > 0
  BY ShapeStep, Constants DEF Elems, Shape
<1>a. Elems(line)' = Elems(line')
  BY Zenon DEF Elems
<1>1. CASE HostSend
  <2>1. UNCHANGED <<pc, after, what, line, got, calls>> /\ packet' = "yes"
    BY <1>1 DEF HostSend, input, output
  <2>. QED
    BY <2>1, <1>a, Zenon DEF Place, at
<1>2. CASE HostTake \/ Interrupt \/ UNCHANGED vars
  <2>1. UNCHANGED <<pc, after, what, line, got, calls, packet, outBank>>
    BY <1>2 DEF HostTake, Interrupt, vars, port, input, output
  <2>. QED
    BY <2>1, <1>a, Zenon DEF Place, at
<1>3. CASE Note \/ NoteClear \/ NoteReady \/ NoteTimeout \/ Return
  <2>1. UNCHANGED <<pc, after, what, line, got, calls, packet, outBank>>
    BY <1>3, NoteStep, Zenon
  <2>. QED
    BY <2>1, <1>a, Zenon DEF Place, at
<1>4. CASE ControlLoop \/ InputTask \/ OutputTask \/ Flush \/ FlushWait
  <2>1. UNCHANGED <<what, line, got, calls, packet, outBank>>
    BY <1>4, TaskStep, Zenon
  <2>2. pc' # "read"
    BY <1>4, PlaceTask, Zenon DEF Taking
  <2>3. at' \in {"idle", "task2", "store", "put", at}
    BY <1>4, PlaceTask, Zenon
  <2>4. /\ at' \in Taking \cup {"task1", "task2", "store"} => what = "greeting"
        /\ at' \in {"idle", "put", "clear", "wait", "write", "task"} => line = <<>>
        /\ at' = "idle" => what = "file"
        /\ at' \in Taking => Len(line) < CHUNK /\ Elems(line) \cap Newlines = {}
    <3>1. CASE at' = at
      BY <3>1, Zenon DEF Place
    <3>2. CASE at = "task1" /\ at' = "task2"
      BY <3>2, Zenon DEF Place, Taking
    <3>3. CASE at = "task2" /\ at' = "store"
      BY <3>3, Zenon DEF Place, Taking
    <3>4. CASE at = "task" /\ at' = "put"
      BY <3>4, Zenon DEF Place, Taking
    <3>. QED
      BY <1>4, <3>1, <3>2, <3>3, <3>4, PlaceTask, Zenon
  <2>. QED
    BY <2>1, <2>2, <2>4, <1>a, Zenon DEF Place
<1>5. CASE putchar \/ ClearIN \/ Ready \/ EndOutput
  <2>1. UNCHANGED <<what, line, got, calls, packet, outBank>>
    BY <1>5, WaitStep, Zenon
  <2>2. /\ at \in {"put", "clear", "wait"} /\ at' = pc' /\ pc' \in {"write", "clear", "wait", "getc", "idle"}
        /\ pc' = "getc" => what = "greeting"
        /\ pc' = "idle" => what = "file"
    BY <1>5, WaitStep, ZenonT(30) DEF at, Shape
  <2>3. line = <<>>
    BY <2>2, Zenon DEF Place
  <2>4. Len(line) < CHUNK /\ Elems(line) \cap Newlines = {}
    BY <1>0, <2>3, Zenon
  <2>. QED
    BY <2>1, <2>2, <2>3, <2>4, <1>a, Zenon DEF Place, Taking
<1>6. CASE Timeout \/ Write_8
  <2>1. UNCHANGED <<what, line, got, calls, packet, outBank>>
    BY <1>6, PutStep, Zenon
  <2>2. at \in {"wait", "write"} /\ at' = pc' /\ pc' \in {"put", "task"}
    BY <1>6, PutStep, ZenonT(30) DEF at
  <2>3. line = <<>>
    BY <2>2, Zenon DEF Place
  <2>. QED
    BY <2>1, <2>2, <2>3, <1>a, Zenon DEF Place, Taking
<1>7. CASE StartInput
  <2>1. /\ pc = "idle" /\ pc' = "put" /\ what' = "greeting" /\ calls' = calls + 1
        /\ UNCHANGED <<line, got, packet, outBank>>
    BY <1>7 DEF StartInput, port, input
  <2>2. at = "idle" /\ at' = "put"
    BY <2>1, Zenon DEF at
  <2>3. line = <<>>
    BY <2>2, Zenon DEF Place
  <2>. QED
    BY <1>0, <2>1, <2>2, <2>3, Zenon DEF Place, Taking
<1>8. CASE SelectOUT \/ IsOUTReceived
  <2>1. /\ pc \in {"getc", "test"} /\ pc' \in {"test", "read", "got"} /\ (pc' = "read" => got' = NONE)
        /\ UNCHANGED <<what, line, calls, packet, outBank>>
    BY <1>8 DEF SelectOUT, IsOUTReceived, port, input, output
  <2>2. at \in Taking /\ at' = pc' /\ pc' \in Taking
    BY <2>1, ZenonT(30) DEF at, Taking
  <2>. QED
    BY <2>1, <2>2, <1>a, Zenon DEF Place, Taking
<1>9. CASE Read_8 \/ ClearOUT
  <2>1. /\ pc \in {"read", "release"} /\ pc' \in {"release", "got"} /\ UNCHANGED <<what, line, calls>>
        /\ packet' = "no" => outBank' = <<>>
    <3>1. CASE Read_8
      BY <3>1 DEF Read_8, Place, input, output
    <3>2. CASE ClearOUT
      BY <3>2 DEF ClearOUT, Place, input, output
    <3>. QED
      BY <1>9, <3>1, <3>2
  <2>2. at \in Taking /\ at' = pc' /\ pc' \in Taking
    BY <2>1, ZenonT(30) DEF at, Taking
  <2>. QED
    BY <2>1, <2>2, <1>a, Zenon DEF Place, Taking
<1>10. CASE getc
  <2>1. /\ pc = "got" /\ line' = Append(line, got) /\ pc' = (IF Complete(line') THEN "task1" ELSE "getc")
        /\ UNCHANGED <<what, got, calls, packet, outBank>> /\ line \in Seq(Int) /\ got \in Int
    BY <1>10 DEF getc, Shape, port, output
  <2>2. at \in Taking /\ at' = pc' /\ pc' \in {"task1", "getc"}
    BY <2>1, ZenonT(30) DEF at, Taking
  <2>3. Len(line) < CHUNK /\ Elems(line) \cap Newlines = {} /\ what = "greeting"
    BY <2>2, Zenon DEF Place
  <2>4. /\ Len(line) \in Nat /\ Len(line') = Len(line) + 1
        /\ \A k \in 1..Len(line) : line'[k] = line[k]
    BY <2>1, AppendProperties
  <2>5. ASSUME ~ Complete(line') PROVE Len(line') < CHUNK /\ Elems(line') \cap Newlines = {}
    <3>1. Len(line') # CHUNK /\ line'[Len(line')] \notin Newlines
      BY <2>5 DEF Complete
    <3>2. ASSUME NEW k \in 1..Len(line') PROVE line'[k] \notin Newlines
      <4>1. k \in 1..Len(line) \/ k = Len(line')
        BY <2>4
      <4>. QED
        BY <2>3, <2>4, <3>1, <4>1 DEF Elems
    <3>3. Len(line') < CHUNK
      BY <2>3, <2>4, <3>1, Constants
    <3>. QED
      BY <3>2, <3>3 DEF Elems
  <2>6. at' \in Taking => ~ Complete(line')
    BY <2>1, <2>2, Zenon DEF Taking
  <2>. QED
    BY <2>1, <2>2, <2>3, <2>5, <2>6, <1>a, Zenon DEF Place, Taking
<1>11. CASE WriteChunk
  <2>1. pc = "store" /\ pc' = "getc" /\ line' = <<>> /\ UNCHANGED <<what, got, calls, packet, outBank>>
    BY <1>11 DEF WriteChunk, port, output
  <2>2. at = "store" /\ at' = "getc"
    BY <2>1, Zenon DEF at
  <2>3. what = "greeting"
    BY <2>2, Zenon DEF Place
  <2>4. Len(line') < CHUNK /\ Elems(line') \cap Newlines = {}
    BY <1>0, <2>1, Zenon
  <2>. QED
    BY <2>1, <2>2, <2>3, <2>4, <1>a, Zenon DEF Place, Taking
<1>12. CASE EndOfFile
  <2>1. pc' = "put" /\ line' = <<>> /\ what' = "file" /\ UNCHANGED <<got, calls, packet, outBank>>
    BY <1>12 DEF EndOfFile, port
  <2>2. at' = "put"
    BY <2>1, Zenon DEF at
  <2>. QED
    BY <2>1, <2>2, Zenon DEF Place, Taking
<1>. QED
  BY <1>1, <1>2, <1>3, <1>4, <1>5, <1>6, <1>7, <1>8, <1>9, <1>10, <1>11, <1>12, Zenon
  DEF Next, Controller, Main, Handler

\* The bytes on their way are in order, none twice and none lost; those that a call left
\* behind are fewer than a chunk; and inside CDC_Device_ReceiveByte no foreign byte of
\* the interrupt that came in last has been taken yet.
Stored ==
  /\ InOrder(all)
  /\ \A b \in Elems(all) \cup lost : b \in Int /\ b # 0 /\ (b > 0 => b \in 1..sent) /\ -b <= interrupts
  /\ 1..sent \subseteq Elems(all) \cup lost /\ Elems(all) \cap lost = {}
  /\ Elems(outBank) \subseteq 1..sent
  /\ lost \cap Newlines = {} /\ Cardinality(lost) <= past * (CHUNK - 1)
  /\ pc \in {"test", "read"} /\ selected = "IN" =>
       \A b \in Elems(all) \cup lost : -b < interrupts

\* A buffer holds no more different bytes than bytes.
LEMMA ElemsBound ==
  ASSUME NEW s \in Seq(Int)
  PROVE  IsFiniteSet(Elems(s)) /\ Cardinality(Elems(s)) <= Len(s)
<1>1. Len(s) \in Nat /\ IsFiniteSet(1..Len(s)) /\ Cardinality(1..Len(s)) = Len(s)
  <2>1. ASSUME NEW n \in Nat PROVE IsFiniteSet(1..n) /\ Cardinality(1..n) = n
    <3>1. 1 \in Int /\ n \in Int /\ (IF 1 > n THEN 0 ELSE n - 1 + 1) = n
      BY <2>1
    <3>. QED
      BY <3>1, FS_Interval, Zenon
  <2>2. Len(s) \in Nat
    OBVIOUS
  <2>. QED
    BY <2>1, <2>2
<1>2. s \in Surjection(1..Len(s), Elems(s))
  <2>1. s = [k \in 1..Len(s) |-> s[k]]
    OBVIOUS
  <2>2. \A k \in 1..Len(s) : s[k] \in Elems(s)
    BY DEF Elems
  <2>3. s \in [1..Len(s) -> Elems(s)]
    <3>1. [k \in 1..Len(s) |-> s[k]] \in [1..Len(s) -> Elems(s)]
      BY <2>2
    <3>. QED
      BY <2>1, <3>1, Zenon
  <2>4. \A x \in Elems(s) : \E k \in 1..Len(s) : s[k] = x
    BY DEF Elems
  <2>. QED
    BY <2>3, <2>4, Zenon DEF Surjection
<1>. QED
  BY <1>1, <1>2, FS_Surjection

\* A line that fgets gave up adds less than a chunk to what the calls left behind.
LEMMA OneCallMore ==
  ASSUME NEW c \in Nat, NEW d \in Nat, NEW l \in Nat, NEW x \in Int, c > 0, l <= (c - 1) * d, x <= d
  PROVE  l + x <= c * d
<1>1. c * d = (c - 1) * d + d
  OBVIOUS
<1>2. (c - 1) * d \in Int /\ c * d \in Int
  OBVIOUS
<1>. QED
  BY <1>1, <1>2

\* The pieces that the bytes on their way consist of.
LEMMA Pieces ==
  ASSUME Shape
  PROVE  /\ file \in Seq(Int) /\ line \in Seq(Int) /\ byte \in Seq(Int) /\ outBank \in Seq(Int)
         /\ file \o line \in Seq(Int) /\ (file \o line) \o byte \in Seq(Int) /\ all \in Seq(Int)
         /\ Elems(all) = ((Elems(file) \cup Elems(line)) \cup Elems(byte)) \cup Elems(outBank)
<1>1. file \in Seq(Int) /\ line \in Seq(Int) /\ outBank \in Seq(Int) /\ got \in Int
  BY DEF Shape
<1>2. byte \in Seq(Int)
  BY <1>1 DEF byte
<1>3. file \o line \in Seq(Int)
  BY <1>1
<1>4. (file \o line) \o byte \in Seq(Int)
  BY <1>2, <1>3
<1>5. all \in Seq(Int)
  BY <1>1, <1>4 DEF all
<1>6. Elems(file \o line) = Elems(file) \cup Elems(line)
  BY <1>1, ElemsOfConcat, Zenon
<1>7. Elems((file \o line) \o byte) = Elems(file \o line) \cup Elems(byte)
  BY <1>2, <1>3, ElemsOfConcat, Zenon
<1>8. Elems(all) = Elems((file \o line) \o byte) \cup Elems(outBank)
  BY <1>1, <1>4, ElemsOfConcat, Zenon DEF all
<1>. QED
  BY <1>1, <1>2, <1>3, <1>4, <1>5, <1>6, <1>7, <1>8, Zenon

\* What was lost is finitely much.
LEMMA LostIsFinite ==
  ASSUME Shape, Stored
  PROVE  IsFiniteSet(lost) /\ Cardinality(lost) \in Nat /\ lost \subseteq -interrupts..sent
<1>1. sent \in Nat /\ interrupts \in Nat
  BY DEF Shape
<1>2. ASSUME NEW b \in lost PROVE b \in -interrupts..sent
  <2>1. b \in Int /\ b # 0 /\ (b > 0 => b \in 1..sent) /\ -b <= interrupts
    BY <1>2, Zenon DEF Stored
  <2>. QED
    BY <1>1, <2>1
<1>3. IsFiniteSet(-interrupts..sent)
  BY <1>1, FS_Interval
<1>4. lost \subseteq -interrupts..sent
  BY <1>2, Zenon
<1>5. IsFiniteSet(lost)
  BY <1>3, <1>4, FS_Subset, Zenon
<1>. QED
  BY <1>4, <1>5, FS_CardinalityType

\* Every step moves bytes on in their order; only the end of a call leaves some behind,
\* and only an interrupt puts a foreign one among them (input_datastream, fgets,
\* CDC_Device_ReceiveByte).
LEMMA StoredStep == Shape /\ Place /\ Stored /\ [Next]_vars => Stored'
<1>. SUFFICES ASSUME Shape, Place, Stored, [Next]_vars PROVE Stored'
  OBVIOUS
<1>0. /\ Shape' /\ <<>> \in Seq(Int) /\ Elems(<<>>) = {} /\ Len(<<>>) = 0
      /\ interrupts \in Nat /\ sent \in Nat /\ calls \in Nat
  BY ShapeStep DEF Elems, Shape
<1>a. /\ Elems(all)' = Elems(all') /\ InOrder(all)' = InOrder(all')
      /\ Elems(outBank)' = Elems(outBank') /\ Elems(line)' = Elems(line')
  BY Zenon DEF Elems, InOrder
<1>b. ASSUME UNCHANGED <<all, lost, sent, past>>, Elems(outBank') \subseteq 1..sent,
             interrupts' \in {interrupts, interrupts + 1},
             pc' \in {"test", "read"} /\ selected' = "IN" =>
               \/ interrupts' = interrupts + 1
               \/ \A b \in Elems(all) \cup lost : -b < interrupts
      PROVE  Stored'
  <2>1. ASSUME NEW b \in Elems(all) \cup lost
        PROVE  /\ b \in Int /\ b # 0 /\ (b > 0 => b \in 1..sent) /\ -b <= interrupts'
               /\ interrupts' = interrupts + 1 => -b < interrupts'
               /\ -b < interrupts => -b < interrupts'
    <3>1. b \in Int /\ b # 0 /\ (b > 0 => b \in 1..sent) /\ -b <= interrupts
      BY <2>1, Zenon DEF Stored
    <3>2. \A x \in Int : -x <= interrupts =>
            /\ -x <= interrupts' /\ (interrupts' = interrupts + 1 => -x < interrupts')
            /\ (-x < interrupts => -x < interrupts')
      BY <1>0, <1>b
    <3>. QED
      BY <3>1, <3>2, Zenon
  <2>2. /\ InOrder(all) /\ 1..sent \subseteq Elems(all) \cup lost /\ Elems(all) \cap lost = {}
        /\ lost \cap Newlines = {} /\ Cardinality(lost) <= past * (CHUNK - 1)
    BY Zenon DEF Stored
  <2>3. /\ InOrder(all') /\ 1..sent' \subseteq Elems(all') \cup lost' /\ Elems(all') \cap lost' = {}
        /\ lost' \cap Newlines = {} /\ Cardinality(lost') <= past' * (CHUNK - 1)
        /\ Elems(outBank') \subseteq 1..sent'
    BY <1>b, <2>2, Zenon
  <2>4. \A b \in Elems(all') \cup lost' :
          b \in Int /\ b # 0 /\ (b > 0 => b \in 1..sent') /\ -b <= interrupts'
    BY <1>b, <2>1, Zenon
  <2>5. pc' \in {"test", "read"} /\ selected' = "IN" =>
          \A b \in Elems(all') \cup lost' : -b < interrupts'
    BY <1>b, <2>1, Zenon
  <2>. QED
    BY <1>a, <2>3, <2>4, <2>5, Zenon DEF Stored
<1>1. CASE HostSend
  <2>1. PICK n \in 1..EPSIZE : outBank' = [k \in 1..n |-> sent + k] /\ sent' = sent + n
    BY <1>1 DEF HostSend
  <2>2. packet = "no" /\ UNCHANGED <<file, line, got, lost, pc, what, selected, interrupts, calls>>
    BY <1>1 DEF HostSend, input, output, irq
  <2>. DEFINE s == (file \o line) \o byte
  <2>3. s \in Seq(Int) /\ outBank' \in Seq(Int) /\ n \in Nat
    BY <1>0, Pieces, Constants DEF Shape
  <2>4. all = s
    <3>1. outBank = <<>>
      BY <2>2, Zenon DEF Place
    <3>2. all = s \o <<>>
      BY <3>1, Zenon DEF all
    <3>. QED
      BY <2>3, <3>2, ConcatEmpty, Zenon
  <2>5. all' = s \o outBank'
    BY <2>2, Zenon DEF all, byte
  <2>. HIDE DEF s
  <2>6. Len(outBank') = n /\ \A k \in 1..n : outBank'[k] = sent + k
    BY <1>0, <2>1, <2>3
  <2>7. InOrder(outBank') /\ Elems(outBank') = sent + 1..sent + n
    <3>1. InOrder(outBank')
      BY <1>0, <2>3, <2>6 DEF InOrder
    <3>2. ASSUME NEW x \in sent + 1..sent + n PROVE x \in Elems(outBank')
      <4>1. x - sent \in 1..n /\ sent + (x - sent) = x
        BY <1>0, <2>3
      <4>2. outBank'[x - sent] = x
        BY <2>6, <4>1
      <4>. QED
        BY <2>6, <4>1, <4>2 DEF Elems
    <3>3. ASSUME NEW x \in Elems(outBank') PROVE x \in sent + 1..sent + n
      <4>1. PICK k \in 1..n : x = sent + k
        BY <2>6, <3>3 DEF Elems
      <4>. QED
        BY <1>0, <2>3, <4>1
    <3>. QED
      BY <3>1, <3>2, <3>3, ZenonT(30)
  <2>8. /\ InOrder(s) /\ 1..sent \subseteq Elems(s) \cup lost /\ Elems(s) \cap lost = {}
        /\ \A b \in Elems(s) \cup lost : b \in Int /\ b # 0 /\ (b > 0 => b \in 1..sent) /\ -b <= interrupts
        /\ lost \cap Newlines = {} /\ Cardinality(lost) <= past * (CHUNK - 1)
        /\ pc \in {"test", "read"} /\ selected = "IN" => \A b \in Elems(s) \cup lost : -b < interrupts
    BY <2>4, Zenon DEF Stored
  <2>9. ASSUME NEW y \in sent + 1..sent + n
        PROVE  /\ y \in Int /\ y # 0 /\ y \in 1..sent + n /\ -y <= interrupts /\ -y < interrupts
               /\ \A x \in Int : x > 0 /\ x \in 1..sent => x < y
               /\ ~ (y < 0) /\ y \notin 1..sent /\ y > 0
    BY <1>0, <2>3
  <2>10. InOrder(s \o outBank')
    <3>1. \A x \in Elems(s), y \in Elems(outBank') : Behind(x, y)
      BY <2>7, <2>8, <2>9, Zenon DEF Behind
    <3>. QED
      BY <2>3, <2>7, <2>8, <3>1, JoinOrder, Zenon
  <2>11. Elems(s \o outBank') = Elems(s) \cup (sent + 1..sent + n)
    BY <2>3, <2>7, ElemsOfConcat, Zenon
  <2>12. 1..sent + n = (1..sent) \cup (sent + 1..sent + n) /\ 1..sent \subseteq 1..sent + n
    BY <1>0, <2>3
  <2>13. /\ 1..sent' \subseteq Elems(all') \cup lost' /\ Elems(all') \cap lost' = {}
         /\ Elems(outBank') \subseteq 1..sent' /\ InOrder(all')
         /\ lost' \cap Newlines = {} /\ Cardinality(lost') <= past' * (CHUNK - 1)
    <3>1. 1..sent + n \subseteq (Elems(s) \cup (sent + 1..sent + n)) \cup lost
      BY <2>8, <2>12, Zenon
    <3>2. (Elems(s) \cup (sent + 1..sent + n)) \cap lost = {}
      BY <2>8, <2>9, Zenon
    <3>3. sent + 1..sent + n \subseteq 1..sent + n
      BY <2>12, Zenon
    <3>4. past' = past
      BY <2>2, Zenon DEF past
    <3>. QED
      BY <2>1, <2>2, <2>5, <2>7, <2>8, <2>10, <2>11, <3>1, <3>2, <3>3, <3>4, Zenon
  <2>14. \A b \in Elems(all') \cup lost' :
           /\ b \in Int /\ b # 0 /\ (b > 0 => b \in 1..sent') /\ -b <= interrupts'
           /\ pc' \in {"test", "read"} /\ selected' = "IN" => -b < interrupts'
    BY <2>1, <2>2, <2>5, <2>8, <2>9, <2>11, <2>12, Zenon
  <2>. QED
    BY <1>a, <2>13, <2>14, Zenon DEF Stored
<1>2. CASE Read_8
  <2>1. pc = "read" /\ pc' = "release" /\ UNCHANGED <<sent, selected, line, file, lost, interrupts, what, calls>>
    BY <1>2 DEF Read_8, input, output, irq
  <2>2. got = NONE /\ byte = <<>> /\ past' = past
    BY <2>1, Zenon DEF Place, byte, past
  <2>. DEFINE s == file \o line
  <2>3. s \in Seq(Int) /\ outBank \in Seq(Int) /\ all = s \o outBank
    <3>1. s \in Seq(Int) /\ outBank \in Seq(Int)
      BY Pieces, Zenon
    <3>. QED
      BY <2>2, <3>1, ConcatEmpty, Zenon DEF all
  <2>4. all' = (s \o byte') \o outBank' /\ byte' = (IF got' # NONE THEN <<got'>> ELSE <<>>)
    BY <2>1, Zenon DEF all, byte
  <2>. HIDE DEF s
  <2>5. Elems(outBank) \subseteq 1..sent
    BY Zenon DEF Stored
  <2>6. CASE outBank # <<>> /\ got' = Head(outBank) /\ outBank' = Tail(outBank)
    <3>1. /\ Head(outBank) \in Int /\ Tail(outBank) \in Seq(Int) /\ outBank = <<Head(outBank)>> \o Tail(outBank)
          /\ Head(outBank) = outBank[1] /\ 1 \in 1..Len(outBank)
      BY <2>3, <2>6
    <3>2. Head(outBank) \in Elems(outBank)
      BY <3>1, Zenon DEF Elems
    <3>3. Head(outBank) # NONE
      <4>1. Elems(outBank) \subseteq Elems(all) \cup lost
        BY Pieces, Zenon
      <4>. QED
        BY <3>2, <4>1, Zenon DEF Stored, NONE
    <3>4. <<Head(outBank)>> \in Seq(Int)
      BY <3>1
    <3>5. (s \o <<Head(outBank)>>) \o Tail(outBank) = s \o outBank
      <4>1. (s \o <<Head(outBank)>>) \o Tail(outBank) = s \o (<<Head(outBank)>> \o Tail(outBank))
        <5>1. s \in Seq(Int) /\ <<Head(outBank)>> \in Seq(Int) /\ Tail(outBank) \in Seq(Int)
          BY <2>3, <3>1, <3>4, Zenon
        <5>. QED
          BY <5>1, Associative, Zenon
      <4>. QED
        BY <3>1, <4>1, Zenon
    <3>6. all' = all
      BY <2>3, <2>4, <2>6, <3>3, <3>5, Zenon
    <3>7. Elems(outBank') \subseteq 1..sent
      <4>1. Elems(outBank) = Elems(<<Head(outBank)>>) \cup Elems(Tail(outBank))
        BY <3>1, <3>4, ElemsOfConcat, Zenon
      <4>. QED
        BY <2>5, <2>6, <4>1, Zenon
    <3>. QED
      BY <1>b, <2>1, <2>2, <3>6, <3>7, Zenon
  <2>7. CASE got' = NONE /\ outBank' = outBank
    <3>1. all' = all
      BY <2>3, <2>4, <2>7, ConcatEmpty, Zenon
    <3>. QED
      BY <1>b, <2>1, <2>2, <2>5, <2>7, <3>1, Zenon
  <2>8. CASE selected = "IN" /\ got' = -interrupts /\ outBank' = outBank /\ got' # NONE
    <3>. DEFINE f == -interrupts
    <3>1. f \in Int /\ f # 0 /\ f < 0 /\ ~ (f > 0) /\ -f <= interrupts /\ -f = interrupts
      BY <1>0, <2>8 DEF NONE
    <3>2. <<f>> \in Seq(Int) /\ Elems(<<f>>) = {f} /\ InOrder(<<f>>)
      BY <2>3, <3>1, OneByte, Zenon
    <3>3. \A b \in Elems(all) \cup lost : -b < interrupts /\ b \in Int
      BY <2>1, <2>8, Zenon DEF Stored
    <3>4. \A b \in Elems(all) \cup lost : b # f /\ b > f
      <4>1. \A b \in Int : -b < interrupts => b # f /\ b > f
        BY <1>0
      <4>. QED
        BY <3>3, <4>1, Zenon
    <3>. HIDE DEF f
    <3>5. all' = (s \o <<f>>) \o outBank
      BY <2>4, <2>8, Zenon DEF f
    <3>s. s \o <<f>> \in Seq(Int) /\ Elems(s \o <<f>>) = Elems(s) \cup {f}
      <4>1. s \o <<f>> \in Seq(Int)
        BY <2>3, <3>2
      <4>2. Elems(s \o <<f>>) = Elems(s) \cup Elems(<<f>>)
        BY <2>3, <3>2, ElemsOfConcat, Zenon
      <4>. QED
        BY <3>2, <4>1, <4>2, Zenon
    <3>6. Elems(all) = Elems(s) \cup Elems(outBank) /\ Elems(all') = (Elems(s) \cup {f}) \cup Elems(outBank)
      <4>1. Elems(all) = Elems(s) \cup Elems(outBank)
        BY <2>3, ElemsOfConcat, Zenon
      <4>2. Elems((s \o <<f>>) \o outBank) = Elems(s \o <<f>>) \cup Elems(outBank)
        BY <2>3, <3>s, ElemsOfConcat, Zenon
      <4>. QED
        BY <3>5, <3>s, <4>1, <4>2, Zenon
    <3>7. InOrder(all')
      <4>1. InOrder(s) /\ InOrder(outBank) /\ \A x \in Elems(s), y \in Elems(outBank) : Behind(x, y)
        BY <2>3, SplitOrder, Zenon DEF Stored
      <4>2. \A x \in Elems(s) : Behind(x, f)
        BY <3>1, <3>4, <3>6, Zenon DEF Behind
      <4>3. InOrder(s \o <<f>>)
        BY <2>3, <3>2, <4>1, <4>2, JoinOrder, Zenon
      <4>4. \A y \in Elems(outBank) : Behind(f, y)
        <5>1. \A y \in 1..sent : ~ (y < 0)
          BY <1>0
        <5>. QED
          BY <2>5, <3>1, <5>1, Zenon DEF Behind
      <4>5. \A x \in Elems(s \o <<f>>), y \in Elems(outBank) : Behind(x, y)
        BY <3>s, <4>1, <4>4, Zenon
      <4>. QED
        BY <2>3, <3>5, <3>s, <4>1, <4>3, <4>5, JoinOrder, Zenon
    <3>8. \A b \in Elems(all') \cup lost' : b \in Int /\ b # 0 /\ (b > 0 => b \in 1..sent') /\ -b <= interrupts'
      BY <2>1, <3>1, <3>6, Zenon DEF Stored
    <3>9. Elems(all') \cap lost' = {} /\ 1..sent' \subseteq Elems(all') \cup lost'
      BY <2>1, <3>4, <3>6, Zenon DEF Stored
    <3>. QED
      BY <1>a, <2>1, <2>2, <2>8, <3>7, <3>8, <3>9, Zenon DEF Stored
  <2>. QED
    BY <1>2, <2>2, <2>6, <2>7, <2>8, Zenon DEF Read_8
<1>3. CASE getc
  <2>1. /\ pc = "got" /\ got # NONE /\ line' = Append(line, got) /\ pc' \in {"task1", "getc"}
        /\ UNCHANGED <<sent, outBank, file, lost, interrupts, what, calls>>
    BY <1>3 DEF getc, port, output, irq
  <2>2. file \in Seq(Int) /\ line \in Seq(Int) /\ got \in Int /\ file \o line \in Seq(Int)
    BY Pieces DEF Shape
  <2>3. byte = <<got>> /\ byte' = <<>> /\ past' = past
    BY <2>1, Zenon DEF byte, past
  <2>4. <<got>> \in Seq(Int) /\ Append(line, got) = line \o <<got>>
    BY <2>2, OneByte, Zenon
  <2>5. file \o (line \o <<got>>) = (file \o line) \o <<got>>
    BY <2>2, <2>4, Associative, Zenon
  <2>6. (file \o line) \o <<got>> \in Seq(Int)
    BY <2>2, <2>4
  <2>7. all' = all
    BY <2>1, <2>3, <2>4, <2>5, <2>6, ConcatEmpty, Zenon DEF all
  <2>8. Elems(outBank') \subseteq 1..sent /\ pc' \notin {"test", "read"}
    BY <2>1, Zenon DEF Stored
  <2>. QED
    BY <1>b, <2>1, <2>3, <2>7, <2>8, Zenon
<1>4. CASE WriteChunk
  <2>1. /\ pc = "store" /\ pc' = "getc" /\ file' = file \o line /\ line' = <<>>
        /\ UNCHANGED <<sent, outBank, lost, interrupts, what, calls>>
    BY <1>4 DEF WriteChunk, port, output, irq
  <2>2. byte = <<>> /\ byte' = <<>> /\ past' = past
    BY <2>1, Zenon DEF byte, past
  <2>3. file \o line \in Seq(Int)
    BY Pieces, Zenon
  <2>4. all' = all
    BY <2>1, <2>2, <2>3, ConcatEmpty, Zenon DEF all
  <2>5. Elems(outBank') \subseteq 1..sent /\ pc' \notin {"test", "read"}
    BY <2>1, Zenon DEF Stored
  <2>. QED
    BY <1>b, <2>1, <2>2, <2>4, <2>5, Zenon
<1>5. CASE EndOfFile
  <2>1. /\ pc = "got" /\ got = NONE /\ pc' = "put" /\ what' = "file" /\ line' = <<>>
        /\ lost' = lost \cup Elems(line) /\ UNCHANGED <<sent, outBank, file, interrupts, calls>>
    BY <1>5 DEF EndOfFile, Elems, port, irq
  <2>2. file \in Seq(Int) /\ line \in Seq(Int) /\ file \o line \in Seq(Int) /\ outBank \in Seq(Int)
    BY Pieces, Zenon
  <2>3. byte = <<>> /\ byte' = <<>>
    BY <2>1, Zenon DEF byte
  <2>4. all = (file \o line) \o outBank /\ all' = file \o outBank
    BY <2>1, <2>2, <2>3, ConcatEmpty, Zenon DEF all
  <2>5. Elems(all) = (Elems(file) \cup Elems(line)) \cup Elems(outBank) /\ Elems(all') = Elems(file) \cup Elems(outBank)
    BY <2>2, <2>4, ElemsOfConcat, Zenon
  <2>6. /\ InOrder(file) /\ InOrder(outBank)
        /\ \A x \in Elems(file), y \in Elems(line) \cup Elems(outBank) : Behind(x, y)
        /\ \A x \in Elems(line), y \in Elems(outBank) : Behind(x, y)
    <3>1. /\ InOrder(file \o line) /\ InOrder(outBank)
          /\ \A x \in Elems(file \o line), y \in Elems(outBank) : Behind(x, y)
      BY <2>2, <2>4, SplitOrder, Zenon DEF Stored
    <3>2. InOrder(file) /\ \A x \in Elems(file), y \in Elems(line) : Behind(x, y)
      BY <2>2, <3>1, SplitOrder, Zenon
    <3>3. Elems(file \o line) = Elems(file) \cup Elems(line)
      BY <2>2, ElemsOfConcat, Zenon
    <3>. QED
      BY <3>1, <3>2, <3>3, Zenon
  <2>7. InOrder(all')
    BY <2>2, <2>4, <2>6, JoinOrder, Zenon
  <2>8. \A b \in Elems(all) \cup lost : ~ Behind(b, b)
    <3>1. \A b \in Int : b # 0 => ~ Behind(b, b)
      BY DEF Behind
    <3>. QED
      BY <3>1, Zenon DEF Stored
  <2>9. Elems(all') \cap lost' = {}
    <3>1. (Elems(file) \cup Elems(outBank)) \cap Elems(line) = {}
      BY <2>5, <2>6, <2>8, Zenon
    <3>. QED
      BY <2>1, <2>5, <3>1, Zenon DEF Stored
  <2>10. Elems(all') \cup lost' = Elems(all) \cup lost
    BY <2>1, <2>5, Zenon
  <2>11. what = "greeting" /\ calls > 0 /\ Len(line) < CHUNK /\ Elems(line) \cap Newlines = {}
    <3>1. at \in Taking
      BY <2>1, Zenon DEF at, Taking
    <3>. QED
      BY <3>1, Zenon DEF Place
  <2>12. Cardinality(lost') <= calls * (CHUNK - 1)
    <3>1. IsFiniteSet(lost) /\ Cardinality(lost) \in Nat
      BY LostIsFinite, Zenon
    <3>2. IsFiniteSet(Elems(line)) /\ Cardinality(Elems(line)) <= Len(line) /\ Len(line) \in Nat
      BY <2>2, ElemsBound
    <3>3. Cardinality(Elems(line)) \in Nat /\ Cardinality(lost \cap Elems(line)) \in Nat
      <4>1. IsFiniteSet(lost \cap Elems(line))
        BY <3>1, FS_Subset
      <4>. QED
        BY <3>2, <4>1, FS_CardinalityType
    <3>4. Cardinality(lost \cup Elems(line))
            = Cardinality(lost) + Cardinality(Elems(line)) - Cardinality(lost \cap Elems(line))
      BY <3>1, <3>2, FS_Union
    <3>5. Cardinality(lost) <= (calls - 1) * (CHUNK - 1)
      BY <2>11, Zenon DEF Stored, past
    <3>6. CHUNK - 1 \in Nat /\ Cardinality(Elems(line)) <= CHUNK - 1
      BY <2>11, <3>2, <3>3, Constants
    <3>7. Cardinality(lost) + Cardinality(Elems(line)) <= calls * (CHUNK - 1)
      BY <1>0, <2>11, <3>1, <3>3, <3>5, <3>6, OneCallMore
    <3>8. ASSUME NEW a \in Nat, NEW b \in Nat, NEW c \in Nat, NEW m \in Int, a + b <= m
          PROVE  a + b - c <= m
      BY <3>8
    <3>9. calls * (CHUNK - 1) \in Int
      BY <1>0, <3>6
    <3>. QED
      BY <2>1, <3>1, <3>3, <3>4, <3>7, <3>8, <3>9, Zenon
  <2>13. /\ \A b \in Elems(all') \cup lost' :
              b \in Int /\ b # 0 /\ (b > 0 => b \in 1..sent') /\ -b <= interrupts'
         /\ 1..sent' \subseteq Elems(all') \cup lost' /\ Elems(outBank') \subseteq 1..sent'
         /\ lost' \cap Newlines = {}
    BY <2>1, <2>10, <2>11, Zenon DEF Stored
  <2>14. past' = calls /\ pc' \notin {"test", "read"}
    BY <2>1, Zenon DEF past
  <2>. QED
    BY <1>a, <2>7, <2>9, <2>12, <2>13, <2>14, Zenon DEF Stored
<1>6. CASE StartInput
  <2>1. /\ pc = "idle" /\ pc' = "put" /\ calls' = calls + 1 /\ what' = "greeting"
        /\ UNCHANGED <<sent, outBank, file, line, lost, interrupts>>
    BY <1>6 DEF StartInput, port, input, irq
  <2>2. what = "file"
    <3>1. at = "idle"
      BY <2>1, Zenon DEF at
    <3>. QED
      BY <3>1, Zenon DEF Place
  <2>3. past' = past
    <3>1. (calls + 1) - 1 = calls
      BY <1>0
    <3>. QED
      BY <2>1, <2>2, <3>1, Zenon DEF past
  <2>4. all' = all
    BY <2>1, Zenon DEF all, byte
  <2>5. Elems(outBank') \subseteq 1..sent /\ pc' \notin {"test", "read"}
    BY <2>1, Zenon DEF Stored
  <2>. QED
    BY <1>b, <2>1, <2>3, <2>4, <2>5, Zenon
<1>7. CASE \/ HostTake \/ Interrupt \/ UNCHANGED vars \/ SelectOUT \/ IsOUTReceived \/ ClearOUT
           \/ Note \/ NoteClear \/ NoteReady \/ NoteTimeout \/ Return
           \/ ControlLoop \/ InputTask \/ OutputTask \/ Flush \/ FlushWait
           \/ putchar \/ ClearIN \/ Ready \/ EndOutput \/ Timeout \/ Write_8
  <2>1. /\ UNCHANGED <<sent, outBank, file, line, lost, what, calls, byte>>
        /\ interrupts' \in {interrupts, interrupts + 1}
        /\ pc' \in {"test", "read"} /\ selected' = "IN" =>
             interrupts' = interrupts + 1 \/ (pc \in {"test", "read"} /\ selected = "IN")
    <3>1. CASE HostTake \/ Interrupt \/ UNCHANGED vars
      <4>1. UNCHANGED <<sent, outBank, file, line, lost, what, calls, pc, got>>
        BY <3>1 DEF HostTake, Interrupt, vars, port, input, output
      <4>2. (UNCHANGED <<interrupts, selected>>) \/ interrupts' = interrupts + 1
        BY <3>1 DEF HostTake, Interrupt, vars, irq
      <4>. QED
        BY <4>1, <4>2, Zenon DEF byte
    <3>2. CASE Note \/ NoteClear \/ NoteReady \/ NoteTimeout \/ Return
      BY <3>2, NoteStep, Zenon DEF byte
    <3>3. CASE ControlLoop \/ InputTask \/ OutputTask \/ Flush \/ FlushWait
      <4>1. pc' \notin Taking /\ pc \notin {"release", "got"}
        BY <3>3, PlaceTask, Zenon
      <4>. QED
        BY <3>3, <4>1, TaskStep, Zenon DEF byte, Taking
    <3>4. CASE putchar \/ ClearIN \/ Ready \/ EndOutput
      <4>1. pc \in {"put", "clear", "wait"} /\ pc' \in {"write", "clear", "wait", "getc", "idle"}
        BY <3>4, WaitStep, Zenon
      <4>. QED
        BY <3>4, <4>1, WaitStep, Zenon DEF byte
    <3>5. CASE Timeout \/ Write_8
      BY <3>5, PutStep, Zenon DEF byte
    <3>6. CASE SelectOUT
      BY <3>6 DEF SelectOUT, port, input, output, irq, byte
    <3>7. CASE IsOUTReceived
      BY <3>7 DEF IsOUTReceived, port, input, output, irq, byte
    <3>8. CASE ClearOUT
      BY <3>8 DEF ClearOUT, input, output, irq, byte
    <3>. QED
      BY <1>7, <3>1, <3>2, <3>3, <3>4, <3>5, <3>6, <3>7, <3>8, Zenon
  <2>2. all' = all /\ past' = past
    BY <2>1, Zenon DEF all, past
  <2>3. Elems(outBank') \subseteq 1..sent
    BY <2>1, Zenon DEF Stored
  <2>4. pc \in {"test", "read"} /\ selected = "IN" => \A b \in Elems(all) \cup lost : -b < interrupts
    BY Zenon DEF Stored
  <2>. QED
    BY <1>b, <2>1, <2>2, <2>3, <2>4, Zenon
<1>. QED
  BY <1>1, <1>2, <1>3, <1>4, <1>5, <1>6, <1>7, Zenon DEF Next, Controller, Main, Handler

\* Nothing has been sent, taken or stored yet.
LEMMA StoredInit == Init => Place /\ Stored
<1>. SUFFICES ASSUME Init PROVE Place /\ Stored
  OBVIOUS
<1>1. all = <<>> /\ Len(<<>>) = 0 /\ Elems(<<>>) = {} /\ at = "idle"
  BY DEF Init, all, byte, at, Elems
<1>2. InOrder(all)
  BY <1>1 DEF InOrder
<1>3. Place
  BY <1>1, Zenon DEF Init, Place, Taking
<1>4. Cardinality(lost) <= past * (CHUNK - 1)
  <2>1. CHUNK - 1 \in Int /\ Cardinality({}) = 0
    BY Constants, FS_EmptySet
  <2>. QED
    BY <2>1 DEF Init, past
<1>5. 1..0 = {}
  OBVIOUS
<1>6. lost = {} /\ sent = 0 /\ outBank = <<>> /\ pc = "idle"
  BY DEF Init
<1>. QED
  BY <1>1, <1>2, <1>3, <1>4, <1>5, <1>6, Zenon DEF Stored

\* The bytes of the host are stored in order and none twice; fgets gives up less than a
\* chunk for every call of input_datastream, and never a newline; and an interrupt in
\* CDC_Device_ReceiveByte puts at most one foreign byte among them: for every text, size
\* of packet and chunk, and pace of the host.
THEOREM StoredInOrderHolds == Spec => []StoredInOrder
<1>1. Init => Shape /\ Place /\ Stored
  BY ShapeInit, StoredInit
<1>2. Shape /\ Place /\ Stored /\ [Next]_vars => Shape' /\ Place' /\ Stored'
  BY ShapeStep, PlaceStep, StoredStep
<1>3. Shape /\ Place /\ Stored => StoredInOrder
  <2>. SUFFICES ASSUME Shape, Place, Stored PROVE StoredInOrder
    OBVIOUS
  <2>1. Cardinality(lost) <= calls * (CHUNK - 1)
    <3>1. /\ calls \in Nat /\ CHUNK - 1 \in Nat /\ (what = "greeting" => calls > 0)
          /\ Cardinality(lost) <= past * (CHUNK - 1) /\ Cardinality(lost) \in Nat
      BY Constants, LostIsFinite DEF Shape, Place, Stored
    <3>2. CASE what = "greeting"
      <4>1. Cardinality(lost) <= (calls - 1) * (CHUNK - 1)
        BY <3>1, <3>2 DEF past
      <4>2. 0 \in Int /\ 0 <= CHUNK - 1
        BY <3>1
      <4>3. Cardinality(lost) + 0 <= calls * (CHUNK - 1)
        BY <3>1, <3>2, <4>1, <4>2, OneCallMore
      <4>. QED
        BY <3>1, <4>3
    <3>3. CASE what # "greeting"
      BY <3>1, <3>3 DEF past
    <3>. QED
      BY <3>2, <3>3
  <2>2. {b \in Elems(all) \cup lost : b > 0} = 1..sent
    <3>1. \A b \in 1..sent : b > 0
      BY DEF Shape
    <3>. QED
      BY <3>1, Zenon DEF Stored
  <2>. QED
    BY <2>1, <2>2, Zenon DEF StoredInOrder, Stored, all, byte, Elems
<1>. QED
  BY <1>1, <1>2, <1>3, PTL DEF Spec

-----------------------------------------------------------------------------
(* Types and bounds                                                        *)

\* The bounds that no step exceeds, and why: a byte is written to a bank with room only,
\* or, by a callback, to one that it has waited for.
Bounds ==
  /\ sent <= N /\ calls <= CALLS /\ interrupts <= INTERRUPTS /\ got \in -INTERRUPTS..N
  /\ Len(outBank) <= EPSIZE /\ Len(inBank) <= EPSIZE /\ Len(line) <= CHUNK
  /\ isr = "wait" => sending = "yes" \/ inBank = <<>>

\* Every step of the host, the main program and the interrupt keeps to the bounds.
LEMMA BoundsStep == Shape /\ Place /\ Stored /\ Bounds /\ [Next]_vars => Bounds'
<1>. SUFFICES ASSUME Shape, Place, Stored, Bounds, [Next]_vars PROVE Bounds'
  OBVIOUS
<1>0. /\ Len(<<>>) = 0 /\ 0 <= EPSIZE /\ 0 <= CHUNK /\ NONE \in -INTERRUPTS..N
      /\ N \in Nat /\ EPSIZE \in Nat /\ CHUNK \in Nat /\ CALLS \in Nat /\ INTERRUPTS \in Nat
  BY Constants DEF NONE
<1>s. /\ sent \in Nat /\ calls \in Nat /\ interrupts \in Nat /\ sending \in {"yes", "no"}
      /\ outBank \in Seq(Int) /\ inBank \in Seq(Int) /\ line \in Seq(Int) /\ got \in Int
      /\ Len(outBank) \in Nat /\ Len(inBank) \in Nat /\ Len(line) \in Nat
  BY DEF Shape
<1>1. CASE HostSend
  <2>1. PICK n \in 1..EPSIZE : sent + n <= N /\ outBank' = [k \in 1..n |-> sent + k] /\ sent' = sent + n
    BY <1>1 DEF HostSend
  <2>2. Len(outBank') <= EPSIZE /\ sent' <= N
    BY <1>0, <2>1
  <2>3. UNCHANGED <<calls, interrupts, got, inBank, line, isr, sending>>
    BY <1>1 DEF HostSend, input, bank, irq
  <2>. QED
    BY <2>2, <2>3, Zenon DEF Bounds
<1>2. CASE HostTake
  <2>1. inBank' = <<>> /\ UNCHANGED <<sent, calls, interrupts, got, outBank, line>>
    BY <1>2 DEF HostTake, port, input, irq
  <2>. QED
    BY <1>0, <2>1, Zenon DEF Bounds
<1>3. CASE isr = "none" /\ (Timeout \/ Write_8)
  <2>1. Len(Append(inBank, printed + 1)) = Len(inBank) + 1
    BY <1>s
  <2>2. IsReadWriteAllowed => Len(inBank) + 1 <= EPSIZE
    BY <1>0, <1>s DEF IsReadWriteAllowed
  <2>3. UNCHANGED <<sent, calls, interrupts, got, outBank, line, isr>>
    BY <1>3, PutStep, Zenon
  <2>4. Len(inBank') <= EPSIZE
    BY <1>3, <2>1, <2>2, PutStep, Zenon DEF Bounds
  <2>. QED
    BY <1>3, <2>3, <2>4, Zenon DEF Bounds
<1>4. CASE Note \/ NoteClear \/ NoteReady \/ NoteTimeout \/ Return
  <2>1. Len(Append(inBank, -(noted + 1))) = Len(inBank) + 1
    BY <1>s
  <2>2. IsReadWriteAllowed \/ inBank = <<>> => Len(inBank) + 1 <= EPSIZE
    BY <1>0, <1>s, Constants DEF IsReadWriteAllowed
  <2>3. UNCHANGED <<sent, calls, interrupts, got, outBank, line>>
    BY <1>4, NoteStep, Zenon
  <2>4. CASE inBank' = Append(inBank, -(noted + 1)) /\ isr' = "put" /\ sending = "no"
             /\ (isr = "wait" \/ IsReadWriteAllowed)
    <3>1. Len(inBank') <= EPSIZE
      BY <2>1, <2>2, <2>4, Zenon DEF Bounds
    <3>. QED
      BY <2>3, <2>4, <3>1, Zenon DEF Bounds
  <2>5. CASE inBank' = inBank /\ (isr' = "wait" => sending' = "yes")
    BY <2>3, <2>5, Zenon DEF Bounds
  <2>. QED
    BY <1>4, <2>4, <2>5, NoteStep, ZenonT(30)
<1>5. CASE isr = "none" /\ (ControlLoop \/ InputTask \/ OutputTask \/ Flush \/ FlushWait)
  BY <1>5, TaskStep, Zenon DEF Bounds
<1>6. CASE isr = "none" /\ (putchar \/ ClearIN \/ Ready \/ EndOutput)
  BY <1>6, WaitStep, Zenon DEF Bounds
<1>7. CASE isr = "none" /\ StartInput
  <2>1. calls' <= CALLS /\ UNCHANGED <<sent, interrupts, got, outBank, inBank, line, isr>>
    BY <1>0, <1>7, <1>s DEF StartInput, port, input, bank, irq
  <2>. QED
    BY <1>7, <2>1, Zenon DEF Bounds
<1>8. CASE Interrupt
  <2>1. interrupts' <= INTERRUPTS /\ isr' = "put" /\ UNCHANGED <<sent, calls, got, outBank, inBank, line>>
    BY <1>0, <1>8, <1>s DEF Interrupt, port, input, bank
  <2>. QED
    BY <2>1, Zenon DEF Bounds
<1>9. CASE isr = "none" /\ (SelectOUT \/ IsOUTReceived \/ ClearOUT)
  <2>1. got' \in {got, NONE} /\ UNCHANGED <<sent, calls, interrupts, outBank, inBank, line, isr>>
    BY <1>9 DEF SelectOUT, IsOUTReceived, ClearOUT, port, input, bank, irq
  <2>. QED
    BY <1>0, <1>9, <2>1, Zenon DEF Bounds
<1>10. CASE isr = "none" /\ Read_8
  <2>1. UNCHANGED <<sent, calls, interrupts, inBank, line, isr>>
    BY <1>10 DEF Read_8, input, bank, irq
  <2>2. -interrupts \in -INTERRUPTS..N
    BY <1>0, <1>s DEF Bounds
  <2>3. outBank # <<>> => Head(outBank) \in -INTERRUPTS..N /\ Len(Tail(outBank)) <= EPSIZE
    <3>. SUFFICES ASSUME outBank # <<>> PROVE Head(outBank) \in -INTERRUPTS..N /\ Len(Tail(outBank)) <= EPSIZE
      OBVIOUS
    <3>1. Head(outBank) = outBank[1] /\ 1 \in 1..Len(outBank) /\ Len(Tail(outBank)) = Len(outBank) - 1
      BY <1>s
    <3>2. Head(outBank) \in 1..sent
      BY <3>1, Zenon DEF Stored, Elems
    <3>. QED
      BY <1>0, <1>s, <3>1, <3>2 DEF Bounds
  <2>4. got' \in -INTERRUPTS..N /\ Len(outBank') <= EPSIZE
    BY <1>0, <1>10, <2>2, <2>3, Zenon DEF Read_8, Bounds
  <2>. QED
    BY <1>10, <2>1, <2>4, Zenon DEF Bounds
<1>11. CASE isr = "none" /\ getc
  <2>1. line' = Append(line, got) /\ UNCHANGED <<sent, calls, interrupts, got, outBank, inBank, isr>>
    BY <1>11 DEF getc, port, bank, irq
  <2>2. Len(line) < CHUNK
    <3>1. at \in Taking
      BY <1>11, Zenon DEF getc, at, Taking
    <3>. QED
      BY <3>1, Zenon DEF Place
  <2>3. Len(line') <= CHUNK
    BY <1>0, <1>s, <2>1, <2>2
  <2>. QED
    BY <1>11, <2>1, <2>3, Zenon DEF Bounds
<1>12. CASE isr = "none" /\ (WriteChunk \/ EndOfFile)
  <2>1. line' = <<>> /\ UNCHANGED <<sent, calls, interrupts, got, outBank, inBank, isr>>
    BY <1>12 DEF WriteChunk, EndOfFile, port, bank, irq
  <2>. QED
    BY <1>0, <1>12, <2>1, Zenon DEF Bounds
<1>13. CASE UNCHANGED vars
  <2>1. UNCHANGED <<sent, calls, interrupts, got, outBank, inBank, line, isr, sending>>
    BY <1>13 DEF vars, port, input, bank, irq
  <2>. QED
    BY <2>1, Zenon DEF Bounds
<1>. QED
  BY <1>1, <1>2, <1>3, <1>4, <1>5, <1>6, <1>7, <1>8, <1>9, <1>10, <1>11, <1>12, <1>13, Zenon
  DEF Next, Controller, Main, Handler

\* A sequence whose bytes all belong to S is one over S.
LEMMA SeqOver ==
  ASSUME NEW s \in Seq(Int), NEW S, Elems(s) \subseteq S
  PROVE  s \in Seq(S)
<1>1. \A k \in 1..Len(s) : s[k] \in S
  BY DEF Elems
<1>. QED
  BY <1>1

\* Every variable has its type, and no bank holds more than a packet and no buffer more
\* than a chunk, whatever the host sends, however late it reads and whenever an
\* interrupt comes in.
THEOREM TypeCorrect == Spec => []TypeOK
<1>1. Init => Shape /\ Place /\ Stored /\ Bounds
  <2>1. Init => Bounds
    <3>1. Len(<<>>) = 0 /\ 0 <= EPSIZE /\ 0 <= CHUNK /\ 0 \in -INTERRUPTS..N /\ 0 <= N /\ 0 <= CALLS /\ 0 <= INTERRUPTS
      BY Constants
    <3>. QED
      BY <3>1, Zenon DEF Init, Bounds
  <2>. QED
    BY <2>1, ShapeInit, StoredInit
<1>2. Shape /\ Place /\ Stored /\ Bounds /\ [Next]_vars => Shape' /\ Place' /\ Stored' /\ Bounds'
  BY ShapeStep, PlaceStep, StoredStep, BoundsStep
<1>3. Shape /\ Place /\ Stored /\ Bounds => TypeOK
  <2>. SUFFICES ASSUME Shape, Place, Stored, Bounds PROVE TypeOK
    OBVIOUS
  <2>1. sent \in 0..N /\ calls \in 0..CALLS /\ interrupts \in 0..INTERRUPTS
    BY Constants DEF Shape, Bounds
  <2>2. \A b \in Elems(all) \cup lost : b \in -INTERRUPTS..N
    <3>1. ASSUME NEW b \in Elems(all) \cup lost PROVE b \in -INTERRUPTS..N
      <4>1. b \in Int /\ (b > 0 => b \in 1..sent) /\ -b <= interrupts
        BY Zenon DEF Stored
      <4>. QED
        BY <2>1, <4>1, Constants
    <3>. QED
      BY <3>1, Zenon
  <2>3. Elems(outBank) \subseteq 1..N
    <3>1. 1..sent \subseteq 1..N
      BY <2>1, Constants
    <3>. QED
      BY <3>1, Zenon DEF Stored
  <2>4. Elems(file) \subseteq -INTERRUPTS..N /\ Elems(line) \subseteq -INTERRUPTS..N /\ lost \subseteq -INTERRUPTS..N
    BY <2>2, Pieces, Zenon
  <2>5. outBank \in Seq(1..N) /\ file \in Seq(-INTERRUPTS..N) /\ line \in Seq(-INTERRUPTS..N)
    BY <2>3, <2>4, SeqOver, Zenon DEF Shape
  <2>. QED
    BY <2>1, <2>4, <2>5, ZenonT(30) DEF TypeOK, Shape, Bounds
<1>. QED
  BY <1>1, <1>2, <1>3, PTL DEF Spec
==============================================================================
