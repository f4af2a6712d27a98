----------------------------- MODULE SerialPort -----------------------------
(***************************************************************************)
(* The USB serial port between the host and the controller: the class      *)
(* driver (CDCClassDevice.c, Endpoint_AVR8.c), USB_Mainloop_Handler        *)
(* (VirtualSerial.c), input_datastream and output_datastream (main/main.c),*)
(* which read stdin and print to stdout through it, and the callbacks of   *)
(* the buttons, which print to the same bank from the pin interrupt.  The  *)
(* device is configured and the port open throughout; each direction has   *)
(* one bank of EPSIZE bytes.  A step ends where the interrupt can come in. *)
(***************************************************************************)
EXTENDS Integers, Sequences, FiniteSets

CONSTANTS N,          \* the host sends the bytes 1, 2, ..., N
          Newlines,   \* those of them, and of the foreign bytes, that are newlines
          CHUNK,      \* bytes that fgets returns at most, or that are printed at a time
          EPSIZE,     \* CDC_TXRX_EPSIZE
          GREETING,   \* bytes that input_datastream prints first
          HEADER,     \* bytes of the message before a file that is printed
          MESSAGE,    \* bytes that a callback prints
          CALLS,      \* bound of the model: calls of input_datastream
          INTERRUPTS  \* bound of the model: callbacks

ASSUME SerialAssumption ==
  /\ {N, GREETING, HEADER, MESSAGE, CALLS, INTERRUPTS} \subseteq Nat
  /\ {CHUNK, EPSIZE} \subseteq Nat \ {0}
  /\ Newlines \subseteq -INTERRUPTS..N

VARIABLES sent,        \* how much the host has sent
          outBank,     \* what the controller has not yet taken of the last packet,
          packet,      \* "yes" until it releases it
          selected,    \* the endpoint UENUM selects, "IN" or "OUT"
          got,         \* what CDC_Device_ReceiveByte returns: a byte or NONE
          line,        \* the buffer of fgets
          file,        \* the input file
          lost,        \* bytes that were taken and are not in the file
          pc, after,   \* where the controller is, and where it goes on after a flush
          what,        \* what is printed: the "greeting" or the "file",
          address,     \* and how much of it
          inBank,      \* the packet for the host,
          sending,     \* "yes" once it is handed over
          received,    \* what the host has received
          printed,     \* how many bytes were printed outside of the interrupt,
          noted,       \* and how many inside
          dropped,     \* how many of them putchar gave up,
          overrun,     \* and how many were written to a bank without room
          isr,         \* where the interrupt is
          calls, interrupts

port == <<sent, outBank, packet>>
input == <<line, file, lost>>
output == <<what, address, printed>>
bank == <<inBank, sending, received>>
irq == <<isr, noted, interrupts>>
vars == <<port, selected, got, input, pc, after, output, bank, dropped, overrun, irq, calls>>

Init ==
  /\ sent = 0 /\ outBank = <<>> /\ packet = "no" /\ selected = "IN" /\ got = 0
  /\ line = <<>> /\ file = <<>> /\ lost = {}
  /\ pc = "idle" /\ after = "idle"
  /\ what = "file" /\ address = 0 /\ printed = 0
  /\ inBank = <<>> /\ sending = "no" /\ received = <<>>
  /\ dropped = 0 /\ overrun = 0
  /\ isr = "none" /\ noted = 0 /\ interrupts = 0 /\ calls = 0

-----------------------------------------------------------------------------
(* The host                                                                *)

HostSend ==
  /\ packet = "no" /\ packet' = "yes"
  /\ \E n \in 1..EPSIZE :
       /\ sent + n <= N
       /\ outBank' = [k \in 1..n |-> sent + k]
       /\ sent' = sent + n
  /\ UNCHANGED <<selected, got, input, pc, after, output, bank, dropped, overrun, irq, calls>>

HostTake ==
  /\ sending = "yes"
  /\ received' = received \o inBank
  /\ inBank' = <<>> /\ sending' = "no"
  /\ UNCHANGED <<port, selected, got, input, pc, after, output, dropped, overrun, irq, calls>>

-----------------------------------------------------------------------------
(* CDC_Device_USBTask and CDC_Device_Flush, which USB_Mainloop_Handler     *)
(* calls: from the control loop, twice for a chunk that was read, and once *)
(* for a chunk that was printed.                                           *)

\* RWAL: the bank is the controller's and not full.
IsReadWriteAllowed == sending = "no" /\ Len(inBank) < EPSIZE

USBTask(here, next) ==
  /\ pc = here
  /\ selected' = "IN" /\ after' = next
  /\ pc' = IF sending = "yes" \/ inBank = <<>> THEN next
           ELSE IF IsReadWriteAllowed THEN "part" ELSE "full"
  /\ UNCHANGED <<port, got, input, output, bank, dropped, overrun, irq, calls>>

Flush ==
  /\ pc \in {"part", "full"}
  /\ sending' = "yes"
  /\ pc' = IF pc = "full" THEN "flush" ELSE after
  /\ UNCHANGED <<port, selected, got, input, after, output, inBank, received, dropped, overrun,
                 irq, calls>>

\* Behind a full packet an empty one follows, unless Endpoint_WaitUntilReady
\* times out.
FlushWait ==
  /\ pc = "flush"
  /\ sending' = "yes"
  /\ pc' = after
  /\ UNCHANGED <<port, selected, got, input, after, output, inBank, received, dropped, overrun,
                 irq, calls>>

\* Mutation: the control loop only polls the buttons.
ControlLoop_idle == pc = "idle" /\ UNCHANGED vars

ControlLoop == USBTask("idle", "idle")
InputTask == USBTask("task1", "task2") \/ USBTask("task2", "store")
OutputTask == USBTask("task", "put")

-----------------------------------------------------------------------------
(* input_datastream                                                        *)

StartInput ==
  /\ pc = "idle"
  /\ calls < CALLS /\ calls' = calls + 1
  /\ pc' = "put" /\ what' = "greeting" /\ address' = 0
  /\ UNCHANGED <<port, selected, got, input, after, printed, bank, dropped, overrun, irq>>

\* CDC_Device_ReceiveByte.  When the interrupt comes in between, its putchar leaves
\* the other endpoint selected.
NONE == 0

SelectOUT ==
  /\ pc = "getc"
  /\ selected' = "OUT" /\ pc' = "test"
  /\ UNCHANGED <<port, got, input, after, output, bank, dropped, overrun, irq, calls>>

\* The flag of a packet is never set on the IN endpoint.
IsOUTReceived ==
  /\ pc = "test"
  /\ got' = NONE
  /\ pc' = IF selected = "OUT" /\ packet = "yes" THEN "read" ELSE "got"
  /\ UNCHANGED <<port, selected, input, after, output, bank, dropped, overrun, irq, calls>>

\* On the IN endpoint there is no byte to read, or one that the host did not send:
\* the foreign byte of the i-th interrupt is -i.
Read_8 ==
  /\ pc = "read"
  /\ \/ selected = "OUT" /\ outBank # <<>> /\ got' = Head(outBank) /\ outBank' = Tail(outBank)
     \/ selected = "OUT" /\ outBank = <<>> /\ UNCHANGED <<got, outBank>>
     \/ selected = "IN" /\ got' \in {NONE, -interrupts} /\ UNCHANGED outBank
  /\ pc' = "release"
  /\ UNCHANGED <<sent, packet, selected, input, after, output, bank, dropped, overrun, irq, calls>>

\* Endpoint_ClearOUT releases an empty packet; on the IN endpoint it hands over the
\* bank, if the bytes counted there, or before the interrupt, were none.
ClearOUT ==
  /\ pc = "release"
  /\ \/ selected = "OUT" /\ outBank # <<>> /\ UNCHANGED <<packet, sending>>
     \/ selected = "OUT" /\ outBank = <<>> /\ packet' = "no" /\ UNCHANGED sending
     \/ selected = "IN" /\ sending' \in {sending, "yes"} /\ UNCHANGED packet
  /\ pc' = "got"
  /\ UNCHANGED <<sent, outBank, selected, got, input, after, output, inBank, received, dropped,
                 overrun, irq, calls>>

\* Mutation: fgets ends at a full buffer only.
Complete_full(text) == Len(text) = CHUNK

\* Mutation: fgets ends at a newline only.
Complete_newline(text) == text[Len(text)] \in Newlines

Complete(text) == Len(text) = CHUNK \/ text[Len(text)] \in Newlines

\* CDC_Device_getchar within fgets, when there is a byte
getc ==
  /\ pc = "got" /\ got # NONE
  /\ line' = Append(line, got)
  /\ pc' = IF Complete(line') THEN "task1" ELSE "getc"
  /\ UNCHANGED <<port, selected, got, file, lost, after, output, bank, dropped, overrun, irq, calls>>

WriteChunk ==
  /\ pc = "store"
  /\ file' = file \o line /\ line' = <<>>
  /\ pc' = "getc"
  /\ UNCHANGED <<port, selected, got, lost, after, output, bank, dropped, overrun, irq, calls>>

\* CDC_Device_getchar returns _FDEV_EOF when there is none; fgets then returns NULL
\* whatever it has in its buffer, and pollButtonA goes on to print the file.
EndOfFile ==
  /\ pc = "got" /\ got = NONE
  /\ lost' = lost \cup {line[k] : k \in 1..Len(line)} /\ line' = <<>>
  /\ pc' = "put" /\ what' = "file" /\ address' = 0
  /\ UNCHANGED <<port, selected, got, file, after, printed, bank, dropped, overrun, irq, calls>>

-----------------------------------------------------------------------------
(* The greeting of input_datastream, and output_datastream:                *)
(* CDC_Device_putchar byte for byte.  The i-th byte that is printed is i.  *)

size == IF what = "greeting" THEN GREETING ELSE HEADER + Len(file)

\* A byte is done with; a task is called for the chunks of a file only.
Advance ==
  /\ address' = address + 1 /\ printed' = printed + 1
  /\ pc' = IF /\ what = "file" /\ address' > HEADER
              /\ (address' - HEADER) % CHUNK = 0 \/ address' = size
           THEN "task" ELSE "put"
  /\ UNCHANGED what

putchar ==
  /\ pc = "put" /\ address < size
  /\ selected' = "IN"
  /\ pc' = IF IsReadWriteAllowed THEN "write" ELSE "clear"
  /\ UNCHANGED <<port, got, input, after, output, bank, dropped, overrun, irq, calls>>

\* Mutation: SendByte writes without waiting for the bank.
ClearIN_unready ==
  /\ pc = "clear"
  /\ sending' = "yes" /\ pc' = "write"
  /\ UNCHANGED <<port, selected, got, input, after, output, inBank, received, dropped, overrun,
                 irq, calls>>

\* The bank was full or under way.
ClearIN ==
  /\ pc = "clear"
  /\ sending' = "yes" /\ pc' = "wait"
  /\ UNCHANGED <<port, selected, got, input, after, output, inBank, received, dropped, overrun,
                 irq, calls>>

Ready ==
  /\ pc = "wait" /\ sending = "no"
  /\ pc' = "write"
  /\ UNCHANGED <<port, selected, got, input, after, output, bank, dropped, overrun, irq, calls>>

\* Mutation: the timeout starts anew.
Timeout_never ==
  /\ pc = "wait" /\ sending = "yes"
  /\ UNCHANGED vars

\* Endpoint_WaitUntilReady gives up and the byte is not printed.
Timeout ==
  /\ pc = "wait" /\ sending = "yes"
  /\ dropped' = dropped + 1
  /\ Advance
  /\ UNCHANGED <<port, selected, got, input, after, bank, overrun, irq, calls>>

\* Endpoint_Write_8: a bank without room takes nothing.
Write_8 ==
  /\ pc = "write"
  /\ \/ IsReadWriteAllowed /\ inBank' = Append(inBank, printed + 1) /\ UNCHANGED overrun
     \/ ~ IsReadWriteAllowed /\ overrun' = overrun + 1 /\ UNCHANGED inBank
  /\ Advance
  /\ UNCHANGED <<port, selected, got, input, after, sending, received, dropped, irq, calls>>

EndOutput ==
  /\ pc = "put" /\ address = size
  /\ pc' = IF what = "greeting" THEN "getc" ELSE "idle"
  /\ UNCHANGED <<port, selected, got, input, after, output, bank, dropped, overrun, irq, calls>>

-----------------------------------------------------------------------------
(* The pin interrupt: a callback prints its message.  Its i-th byte is -i. *)

Interrupt ==
  /\ isr = "none"
  /\ interrupts < INTERRUPTS /\ interrupts' = interrupts + 1
  /\ isr' = "put" /\ selected' = "IN"
  /\ UNCHANGED <<port, got, input, pc, after, output, bank, dropped, overrun, noted, calls>>

Note ==
  /\ isr = "put" /\ noted < MESSAGE * interrupts
  /\ \/ /\ IsReadWriteAllowed
        /\ noted' = noted + 1 /\ inBank' = Append(inBank, -noted')
        /\ UNCHANGED isr
     \/ ~ IsReadWriteAllowed /\ isr' = "clear" /\ UNCHANGED <<noted, inBank>>
  /\ UNCHANGED <<port, selected, got, input, pc, after, output, sending, received, dropped,
                 overrun, interrupts, calls>>

NoteClear ==
  /\ isr = "clear"
  /\ sending' = "yes" /\ isr' = "wait"
  /\ UNCHANGED <<port, selected, got, input, pc, after, output, inBank, received, dropped,
                 overrun, noted, interrupts, calls>>

NoteReady ==
  /\ isr = "wait" /\ sending = "no"
  /\ noted' = noted + 1 /\ inBank' = Append(inBank, -noted')
  /\ isr' = "put"
  /\ UNCHANGED <<port, selected, got, input, pc, after, output, sending, received, dropped,
                 overrun, interrupts, calls>>

NoteTimeout ==
  /\ isr = "wait" /\ sending = "yes"
  /\ noted' = noted + 1 /\ dropped' = dropped + 1
  /\ isr' = "put"
  /\ UNCHANGED <<port, selected, got, input, pc, after, output, bank, overrun, interrupts, calls>>

Return ==
  /\ isr = "put" /\ noted = MESSAGE * interrupts
  /\ isr' = "none"
  /\ UNCHANGED <<port, selected, got, input, pc, after, output, bank, dropped, overrun, noted,
                 interrupts, calls>>

-----------------------------------------------------------------------------

Main ==
  \/ ControlLoop \/ InputTask \/ OutputTask \/ Flush \/ FlushWait
  \/ SelectOUT \/ IsOUTReceived \/ Read_8 \/ ClearOUT \/ getc \/ WriteChunk \/ EndOfFile
  \/ putchar \/ ClearIN \/ Ready \/ Timeout \/ Write_8 \/ EndOutput

Handler == Note \/ NoteClear \/ NoteReady \/ NoteTimeout \/ Return

\* One processor: nothing goes on while the interrupt is served.
Controller == (isr = "none" /\ Main) \/ Handler

Next == HostSend \/ HostTake \/ (isr = "none" /\ StartInput) \/ Interrupt \/ Controller

\* The controller goes on; the host need not send or read, and nobody need press
\* a button.
Spec == Init /\ [][Next]_vars /\ WF_vars(Controller)

-----------------------------------------------------------------------------

\* Every variable has its type, and no bank and no buffer holds more than it can.
TypeOK ==
  /\ sent \in 0..N /\ got \in -INTERRUPTS..N /\ lost \subseteq -INTERRUPTS..N
  /\ outBank \in Seq(1..N) /\ {line, file} \subseteq Seq(-INTERRUPTS..N)
  /\ {inBank, received} \subseteq Seq(Int)
  /\ Len(outBank) <= EPSIZE /\ Len(inBank) <= EPSIZE /\ Len(line) <= CHUNK
  /\ {packet, sending} \subseteq {"yes", "no"} /\ selected \in {"IN", "OUT"}
  /\ pc \in {"idle", "part", "full", "flush", "getc", "test", "read", "release", "got",
             "task1", "task2", "store", "put", "clear", "wait", "write", "task"}
  /\ after \in {"idle", "task2", "store", "put"} /\ what \in {"greeting", "file"}
  /\ isr \in {"none", "put", "clear", "wait"}
  /\ {address, printed, noted, dropped, overrun} \subseteq Nat
  /\ calls \in 0..CALLS /\ interrupts \in 0..INTERRUPTS

InOrder(s) ==
  \A j, k \in 1..Len(s) :
    j < k => /\ s[j] > 0 /\ s[k] > 0 => s[j] < s[k]
             /\ s[j] < 0 /\ s[k] < 0 => s[j] > s[k]

\* The bytes of the host are stored in the order they were sent and none twice; the
\* rest are those that fgets had taken when it found no packet, less than a chunk for
\* every call and no newline among them.  An interrupt in CDC_Device_ReceiveByte, which
\* leaves the other endpoint selected, puts at most one foreign byte among them.
StoredInOrder ==
  LET byte == IF pc \in {"release", "got"} /\ got # NONE THEN <<got>> ELSE <<>>
      all == file \o line \o byte \o outBank
      kept == {all[k] : k \in 1..Len(all)}
  IN  /\ InOrder(all)
      /\ {b \in kept \cup lost : b > 0} = 1..sent
      /\ \A b \in kept \cup lost : -b <= interrupts
      /\ kept \cap lost = {} /\ lost \cap Newlines = {}
      /\ Cardinality(lost) <= calls * (CHUNK - 1)

\* What is printed arrives at the host, the bytes of the main program and those of the
\* callbacks each in their order and none twice, but for those that putchar gave up and
\* at most one for every interrupt: the byte of the main program that was to be written
\* when the interrupt came in and used up the room that was found for it.
PrintedArrives ==
  LET all == received \o inBank
  IN  /\ \A k \in 1..Len(all) : all[k] \in 1..printed \/ -all[k] \in 1..noted
      /\ InOrder(all)
      /\ Len(all) + dropped + overrun = printed + noted
      /\ overrun <= interrupts

\* A call of input_datastream, and the print behind it, ends: also if the host
\* never reads, and once it has sent all it has.
CallEnds == pc # "idle" ~> pc = "idle"

\* A host that reads gets the last packet too: no printed byte stays in the bank
\* until more are printed.
BankIsFlushed == (sending = "yes" ~> sending = "no") => (inBank # <<>> ~> inBank = <<>>)

\* "simply redirecting a bytestream at the device node in /dev will result in the
\* bytes being written into the "input file"" (readme.md): whatever input_datastream
\* takes from the port.
BytesAreWritten == lost = {}
==============================================================================
