-------------------------- MODULE WorkerAddressing --------------------------
(***************************************************************************)
(* How the worker boards get their bus addresses and how the controller    *)
(* finds them.  Releasing button A on a worker runs auto_address           *)
(* (slave/main.c): as a bus master the board probes address after address  *)
(* from its workerID on until one is not acknowledged, and becomes a slave *)
(* at that address.  scan_i2c (main/main.c) probes from BASE on and lists  *)
(* the addresses that are acknowledged, up to the first that is not.       *)
(*                                                                         *)
(* One call of i2c_start_timeout is one step.  It returns 0 if a slave     *)
(* acknowledges the address, and 1 if none does or if the START or the     *)
(* arbitration is lost to another master.                                  *)
(***************************************************************************)
EXTENDS Integers, Sequences

CONSTANTS Workers,       \* the worker boards
          BASE,          \* I2C_SLAVE_BASE_ID, 0x20
          FRAM           \* the address of the FRAM, 0x50

ASSUME AddressAssumption == BASE \in Nat /\ FRAM \in Nat

VARIABLES mode,       \* what each worker is doing
          workerID,   \* the address that each worker has or tries
          scan,       \* is the controller inside scan_i2c: "idle" or "scanning"
          workers,    \* the addresses that scan_i2c has recorded
          faults      \* what has happened: "overlap", two workers inside auto_address;
                      \* "lost", a START lost to another master; "outage"

vars == <<mode, workerID, scan, workers, faults>>

Slave(w) == mode[w] = "slave"

\* Inside auto_address, which runs in the interrupt of the button.
Addressing(w) == mode[w] \in {"probing", "claiming"}

Acknowledged(a) == a = FRAM \/ \E w \in Workers : Slave(w) /\ workerID[w] = a

Init ==
  /\ mode = [w \in Workers |-> "off"]
  /\ workerID = [w \in Workers |-> BASE]
  /\ scan = "idle"
  /\ workers = <<>>
  /\ faults = {}

-----------------------------------------------------------------------------
(* A worker.                                                               *)

\* Mutation: workerID has no initializer.
PowerUp_uninitialized(w) ==
  /\ mode[w] = "off"
  /\ mode' = [mode EXCEPT ![w] = "on"]
  /\ workerID' = [workerID EXCEPT ![w] = 0]
  /\ UNCHANGED <<scan, workers, faults>>

PowerUp(w) ==
  /\ mode[w] = "off"
  /\ mode' = [mode EXCEPT ![w] = "on"]
  /\ workerID' = [workerID EXCEPT ![w] = BASE]
  /\ UNCHANGED <<scan, workers, faults>>

PowerDown(w) ==
  /\ mode[w] # "off"
  /\ mode' = [mode EXCEPT ![w] = "off"]
  /\ faults' = faults \cup {"outage"}
  /\ UNCHANGED <<workerID, scan, workers>>

\* Up to the first probe; i2c_slave_stop takes the board off the bus.
A_release(w) ==
  /\ mode[w] \in {"on", "slave"}
  /\ mode' = [mode EXCEPT ![w] = "probing"]
  /\ faults' = IF \E v \in Workers : Addressing(v) THEN faults \cup {"overlap"} ELSE faults
  /\ UNCHANGED <<workerID, scan, workers>>

\* Mutation: the address is incremented twice.
ProbeTaken_by_two(w) ==
  /\ mode[w] = "probing"
  /\ Acknowledged(workerID[w])
  /\ workerID' = [workerID EXCEPT ![w] = @ + 2]
  /\ UNCHANGED <<mode, scan, workers, faults>>

\* Mutation: the address is not incremented.
ProbeTaken_in_place(w) ==
  /\ mode[w] = "probing"
  /\ Acknowledged(workerID[w])
  /\ UNCHANGED vars

ProbeTaken(w) ==
  /\ mode[w] = "probing"
  /\ Acknowledged(workerID[w])
  /\ workerID' = [workerID EXCEPT ![w] = @ + 1]
  /\ UNCHANGED <<mode, scan, workers, faults>>

\* Mutation: the answer of i2c_start_timeout is not looked at.
ProbeFree_unchecked(w) ==
  /\ mode[w] = "probing"
  /\ mode' = [mode EXCEPT ![w] = "claiming"]
  /\ UNCHANGED <<workerID, scan, workers, faults>>

ProbeFree(w) ==
  /\ mode[w] = "probing"
  /\ ~ Acknowledged(workerID[w])
  /\ mode' = [mode EXCEPT ![w] = "claiming"]
  /\ UNCHANGED <<workerID, scan, workers, faults>>

\* Another master holds the bus: i2c_start_timeout returns 1 all the same.
ProbeLost(w) ==
  /\ mode[w] = "probing"
  /\ scan = "scanning" \/ \E v \in Workers \ {w} : mode[v] = "probing"
  /\ mode' = [mode EXCEPT ![w] = "claiming"]
  /\ faults' = faults \cup {"lost"}
  /\ UNCHANGED <<workerID, scan, workers>>

\* i2c_stop and i2c_slave_init.
Claim(w) ==
  /\ mode[w] = "claiming"
  /\ mode' = [mode EXCEPT ![w] = "slave"]
  /\ UNCHANGED <<workerID, scan, workers, faults>>

-----------------------------------------------------------------------------
(* The controller.                                                         *)

StartScan ==
  /\ scan = "idle"
  /\ scan' = "scanning"
  /\ workers' = <<>>
  /\ UNCHANGED <<mode, workerID, faults>>

\* Mutation: a found address is not stepped over.
ScanTaken_again ==
  /\ scan = "scanning"
  /\ Acknowledged(BASE + Len(workers))
  /\ UNCHANGED vars

ScanTaken ==
  /\ scan = "scanning"
  /\ Acknowledged(BASE + Len(workers))
  /\ workers' = Append(workers, BASE + Len(workers))
  /\ UNCHANGED <<mode, workerID, scan, faults>>

\* Mutation: the scan gives up after the second address.
ScanFree_early ==
  /\ scan = "scanning"
  /\ Acknowledged(BASE + Len(workers)) => Len(workers) > 1
  /\ scan' = "idle"
  /\ UNCHANGED <<mode, workerID, workers, faults>>

ScanFree ==
  /\ scan = "scanning"
  /\ ~ Acknowledged(BASE + Len(workers))
  /\ scan' = "idle"
  /\ UNCHANGED <<mode, workerID, workers, faults>>

ScanLost ==
  /\ scan = "scanning"
  /\ \E w \in Workers : mode[w] = "probing"
  /\ scan' = "idle"
  /\ faults' = faults \cup {"lost"}
  /\ UNCHANGED <<mode, workerID, workers>>

AddressingStep(w) == ProbeTaken(w) \/ ProbeFree(w) \/ ProbeLost(w) \/ Claim(w)
ScanStep == ScanTaken \/ ScanFree \/ ScanLost

Next ==
  \/ \E w \in Workers : PowerUp(w) \/ PowerDown(w) \/ A_release(w) \/ AddressingStep(w)
  \/ StartScan \/ ScanStep

\* auto_address and scan_i2c are loops that run on their own once entered; a
\* user need not press a button.
Spec ==
  /\ Init
  /\ [][Next]_vars
  /\ \A w \in Workers : WF_vars(AddressingStep(w))
  /\ WF_vars(ScanStep)

-----------------------------------------------------------------------------

\* Every variable has its type, and no worker ever tries an address below BASE.
TypeOK ==
  /\ mode \in [Workers -> {"off", "on", "probing", "claiming", "slave"}]
  /\ workerID \in [Workers -> Nat]
  /\ \A w \in Workers : workerID[w] >= BASE
  /\ scan \in {"idle", "scanning"}
  /\ workers \in Seq(Nat)
  /\ faults \subseteq {"overlap", "lost", "outage"}

\* "self addressing, provided that they are connected and initialized
\* one-by-one" (readme.md): no two slaves answer to the same address, and none
\* to that of the FRAM, through any number of power cycles and repeated
\* releases of A (auto_address), unless a START was lost.
UniqueAddresses ==
  "overlap" \notin faults /\ "lost" \notin faults =>
    \A v, w \in Workers :
      Slave(v) /\ Slave(w) => workerID[v] # FRAM /\ (workerID[v] = workerID[w] => v = w)

\* Addresses "starting at 0x20, incrementing without any gaps" (scan_i2c): below
\* the address of a worker every address is held, also while a worker that
\* released A once more is off the bus, whatever overlaps or is lost.  Only a
\* worker that loses power leaves a gap.
Held(a) ==
  a = FRAM \/ \E v \in Workers : (Slave(v) \/ Addressing(v)) /\ workerID[v] = a
NoGaps ==
  "outage" \notin faults =>
    \A w \in Workers : Slave(w) \/ Addressing(w) =>
      \A a \in BASE..workerID[w] - 1 : Held(a)

\* A scan that ends while no worker is inside auto_address has recorded exactly
\* the addresses of the workers on the bus, whatever they did during the scan
\* (the FRAM, should the scan reach it, aside), unless one lost power.
ScanIsComplete ==
  [][/\ scan = "scanning" /\ scan' = "idle"
     /\ "outage" \notin faults /\ \A w \in Workers : ~ Addressing(w)
     => {workers[k] : k \in 1..Len(workers)} \ {FRAM}
          = {workerID[w] : w \in {v \in Workers : Slave(v)}} \ {FRAM}]_vars

\* auto_address finds a free address in the end, unless the power fails.
AddressingEnds ==
  \A w \in Workers : Addressing(w) ~> ~ Addressing(w)

\* The scan of the controller ends although workers come and go meanwhile.
ScanEnds == scan = "scanning" ~> scan = "idle"
==============================================================================
