----------------------- MODULE WorkerAddressing_proofs -----------------------
(***************************************************************************)
(* Proofs for any number of workers.  UniqueInv carries the uniqueness of  *)
(* the addresses through the window between the probe and the claim of     *)
(* auto_address; GapInv carries the absence of gaps, on which the scan of  *)
(* the controller relies.  Each speaks of the behaviours in which what     *)
(* could break it has not happened so far.                                 *)
(***************************************************************************)
EXTENDS WorkerAddressing, TLAPS

USE AddressAssumption

\* Every step of the workers and of the controller keeps the types.
LEMMA TypeStep == TypeOK /\ [Next]_vars => TypeOK'
<1>. SUFFICES ASSUME TypeOK, [Next]_vars PROVE TypeOK'
  OBVIOUS
<1>. USE DEF TypeOK
<1>0. ASSUME NEW w \in Workers, PowerUp(w) PROVE TypeOK'
  BY <1>0 DEF PowerUp
<1>1. ASSUME NEW w \in Workers,
             PowerDown(w) \/ A_release(w) \/ ProbeFree(w) \/ ProbeLost(w) \/ Claim(w)
      PROVE  TypeOK'
  BY <1>1, Zenon DEF PowerDown, A_release, ProbeFree, ProbeLost, Claim
<1>2. ASSUME NEW w \in Workers, ProbeTaken(w) PROVE TypeOK'
  BY <1>2 DEF ProbeTaken
<1>3. CASE StartScan
  BY <1>3 DEF StartScan
<1>4. CASE ScanStep
  <2>1. CASE ScanTaken
    <3>1. BASE + Len(workers) \in Nat
      OBVIOUS
    <3>. QED
      BY <2>1, <3>1 DEF ScanTaken
  <2>2. CASE ScanFree \/ ScanLost
    BY <2>2, Zenon DEF ScanFree, ScanLost
  <2>. QED
    BY <1>4, <2>1, <2>2 DEF ScanStep
<1>5. CASE UNCHANGED vars
  BY <1>5 DEF vars
<1>. QED
  BY <1>0, <1>1, <1>2, <1>3, <1>4, <1>5 DEF Next, AddressingStep

\* The types of WorkerAddressing hold at every step of auto_address and
\* scan_i2c, whatever fails.
THEOREM TypeCorrect == Spec => []TypeOK
<1>1. Init => TypeOK
  BY DEF Init, TypeOK
<1>. QED
  BY <1>1, TypeStep, PTL DEF Spec

\* What has happened is not forgotten.
LEMMA FaultsStay == [Next]_vars => faults \subseteq faults'
  BY DEF Next, AddressingStep, ScanStep, PowerUp, PowerDown, A_release, ProbeTaken, ProbeFree,
     ProbeLost, Claim, StartScan, ScanTaken, ScanFree, ScanLost, vars

-----------------------------------------------------------------------------

OneByOne == "overlap" \notin faults /\ "lost" \notin faults

AtMostOneAddressing ==
  \A v, w \in Workers : Addressing(v) /\ Addressing(w) => v = w

ClaimedIsFree ==
  \A w \in Workers : mode[w] = "claiming" => ~ Acknowledged(workerID[w])

UniqueInv ==
  TypeOK /\ UniqueAddresses /\ (OneByOne => AtMostOneAddressing /\ ClaimedIsFree)

\* If workers are addressed one by one and no START is lost, each step keeps
\* the addresses unique: the address that a worker is about to claim was free
\* when it was probed, and nobody else can have claimed it since.
LEMMA UniqueStep == UniqueInv /\ [Next]_vars => UniqueInv'
<1>. SUFFICES ASSUME UniqueInv, [Next]_vars PROVE UniqueInv'
  OBVIOUS
<1>t. TypeOK'
  BY TypeStep DEF UniqueInv
<1>0. CASE ~ OneByOne'
  BY <1>0, <1>t DEF UniqueInv, UniqueAddresses, OneByOne
<1>. SUFFICES ASSUME OneByOne' PROVE UniqueInv'
  BY <1>0
<1>o. OneByOne
  BY FaultsStay DEF OneByOne
<1>. USE DEF UniqueInv, TypeOK, UniqueAddresses, AtMostOneAddressing, OneByOne,
             ClaimedIsFree, Slave, Addressing, Acknowledged
<1>1. ASSUME NEW w \in Workers, PowerUp(w) PROVE UniqueInv'
  BY <1>1, <1>t, <1>o DEF PowerUp
<1>2. ASSUME NEW w \in Workers, PowerDown(w) PROVE UniqueInv'
  BY <1>2, <1>t, <1>o DEF PowerDown
<1>3. ASSUME NEW w \in Workers, A_release(w) PROVE UniqueInv'
  BY <1>3, <1>t, <1>o DEF A_release
<1>4. ASSUME NEW w \in Workers, ProbeTaken(w) PROVE UniqueInv'
  BY <1>4, <1>t, <1>o, SMTT(30) DEF ProbeTaken
<1>5. ASSUME NEW w \in Workers, ProbeFree(w) PROVE UniqueInv'
  BY <1>5, <1>t, <1>o DEF ProbeFree
<1>6. ASSUME NEW w \in Workers, Claim(w) PROVE UniqueInv'
  BY <1>6, <1>t, <1>o DEF Claim
<1>7. CASE StartScan \/ ScanStep \/ UNCHANGED vars
  BY <1>7, <1>t, <1>o DEF StartScan, ScanStep, ScanTaken, ScanFree, ScanLost, vars
<1>. QED
  BY <1>1, <1>2, <1>3, <1>4, <1>5, <1>6, <1>7, SMTT(30) DEF Next, AddressingStep, ProbeLost

\* Workers that are addressed one by one, on a bus where no START is lost, never
\* share an address, however often they are powered off or addressed again.
THEOREM UniqueCorrect == Spec => []UniqueAddresses
<1>1. Init => UniqueInv
  BY DEF Init, UniqueInv, TypeOK, UniqueAddresses, AtMostOneAddressing,
         ClaimedIsFree, Slave, Addressing, Acknowledged
<1>2. UniqueInv => UniqueAddresses
  BY DEF UniqueInv
<1>. QED
  BY <1>1, <1>2, UniqueStep, PTL DEF Spec

-----------------------------------------------------------------------------

\* Everything that scan_i2c has recorded, in the order of the addresses.
Recorded ==
  /\ \A k \in 1..Len(workers) : workers[k] = BASE + k - 1
  /\ \A a \in Nat : BASE <= a /\ a < BASE + Len(workers) => Held(a)

FreshIsBase == \A w \in Workers : mode[w] = "on" => workerID[w] = BASE

GapInv == TypeOK /\ FreshIsBase /\ NoGaps /\ ("outage" \notin faults => Recorded)

\* Without power failures an address that is held stays held: a worker leaves
\* the one it tries only if a slave or the FRAM has it.
LEMMA HeldStays ==
  ASSUME "outage" \notin faults', TypeOK, [Next]_vars, NEW a \in Nat, Held(a)
  PROVE  Held(a)'
<1>. USE DEF TypeOK, Held, Slave, Addressing
<1>1. ASSUME NEW w \in Workers, PowerUp(w) PROVE Held(a)'
  BY <1>1 DEF PowerUp
<1>2. ASSUME NEW w \in Workers,
             A_release(w) \/ ProbeFree(w) \/ ProbeLost(w) \/ Claim(w)
      PROVE  Held(a)'
  BY <1>2 DEF A_release, ProbeFree, ProbeLost, Claim
<1>3. ASSUME NEW w \in Workers, ProbeTaken(w) PROVE Held(a)'
  BY <1>3 DEF ProbeTaken, Acknowledged
<1>4. CASE StartScan \/ ScanStep \/ UNCHANGED vars
  BY <1>4 DEF StartScan, ScanStep, ScanTaken, ScanFree, ScanLost, vars
<1>. QED
  BY <1>1, <1>2, <1>3, <1>4 DEF Next, AddressingStep, PowerDown

\* Without power failures no step opens a gap: a worker moves on to the next
\* address only past one that is held.
LEMMA NoGapsStep ==
  ASSUME TypeOK, FreshIsBase, NoGaps, [Next]_vars
  PROVE  NoGaps'
<1>. SUFFICES ASSUME "outage" \notin faults',
                     NEW u \in Workers, (Slave(u) \/ Addressing(u))',
                     NEW a \in BASE..workerID'[u] - 1
              PROVE  Held(a)'
  BY DEF NoGaps
<1>0. TypeOK' /\ "outage" \notin faults
  BY TypeStep, FaultsStay
<1>1. a \in Nat
  BY <1>0 DEF TypeOK
<1>. SUFFICES Held(a)
  BY <1>1, HeldStays
<1>. USE <1>0 DEF TypeOK, Slave, Addressing
<1>2. ASSUME NEW w \in Workers, PowerUp(w) PROVE Held(a)
  BY <1>2 DEF PowerUp, NoGaps
<1>3. ASSUME NEW w \in Workers, A_release(w) PROVE Held(a)
  <2>1. CASE u = w /\ mode[w] = "on"
    BY <1>3, <2>1 DEF A_release, FreshIsBase
  <2>2. CASE u # w \/ mode[w] # "on"
    BY <1>3, <2>2 DEF A_release, NoGaps
  <2>. QED
    BY <2>1, <2>2
<1>4. ASSUME NEW w \in Workers, ProbeFree(w) \/ ProbeLost(w) \/ Claim(w)
      PROVE  Held(a)
  BY <1>4, Zenon DEF ProbeFree, ProbeLost, Claim, NoGaps
<1>5. ASSUME NEW w \in Workers, ProbeTaken(w) PROVE Held(a)
  <2>1. CASE u = w /\ a = workerID[w]
    BY <1>5, <2>1 DEF ProbeTaken, Acknowledged, Held
  <2>2. CASE u # w \/ a # workerID[w]
    BY <1>5, <2>2, SMTT(30) DEF ProbeTaken, NoGaps
  <2>. QED
    BY <2>1, <2>2
<1>6. CASE StartScan \/ ScanStep \/ UNCHANGED vars
  BY <1>6 DEF StartScan, ScanStep, ScanTaken, ScanFree, ScanLost, vars, NoGaps
<1>. QED
  BY <1>2, <1>3, <1>4, <1>5, <1>6 DEF Next, AddressingStep, PowerDown

\* A worker that has not been addressed since it was powered up still has the
\* default address.
LEMMA FreshStep ==
  ASSUME TypeOK, FreshIsBase, [Next]_vars
  PROVE  FreshIsBase'
<1>. USE DEF TypeOK, FreshIsBase
<1>1. ASSUME NEW w \in Workers, PowerUp(w) PROVE FreshIsBase'
  BY <1>1 DEF PowerUp
<1>2. ASSUME NEW w \in Workers, PowerDown(w) \/ A_release(w) PROVE FreshIsBase'
  BY <1>2 DEF PowerDown, A_release
<1>3. ASSUME NEW w \in Workers, AddressingStep(w) PROVE FreshIsBase'
  BY <1>3 DEF AddressingStep, ProbeTaken, ProbeFree, ProbeLost, Claim
<1>4. CASE StartScan \/ ScanStep \/ UNCHANGED vars
  BY <1>4 DEF StartScan, ScanStep, ScanTaken, ScanFree, ScanLost, vars
<1>. QED
  BY <1>1, <1>2, <1>3, <1>4 DEF Next

\* scan_i2c records consecutive addresses, each held from then on.
LEMMA RecordedStep ==
  ASSUME "outage" \notin faults', TypeOK, Recorded, [Next]_vars
  PROVE  Recorded'
<1>1. ASSUME NEW a \in Nat, Held(a) PROVE Held(a)'
  BY <1>1, HeldStays
<1>2. CASE workers' = workers
  BY <1>1, <1>2 DEF Recorded
<1>3. CASE StartScan
  BY <1>3 DEF StartScan, Recorded
<1>4. CASE ScanTaken
  <2>1. BASE + Len(workers) \in Nat /\ Len(workers) \in Nat
    BY DEF TypeOK
  <2>2. ASSUME NEW a \in Nat, a = BASE + Len(workers) PROVE Held(a)
    BY <1>4, <2>2 DEF ScanTaken, Acknowledged, Held
  <2>3. /\ Len(workers') = Len(workers) + 1
        /\ workers'[Len(workers) + 1] = BASE + Len(workers)
        /\ \A k \in 1..Len(workers) : workers'[k] = workers[k]
    BY <1>4, <2>1 DEF ScanTaken, TypeOK
  <2>4. (\A k \in 1..Len(workers) : workers[k] = BASE + k - 1)'
    BY <2>1, <2>3 DEF Recorded
  <2>5. ASSUME NEW a \in Nat, BASE <= a, a < BASE + Len(workers')
        PROVE  Held(a)'
    BY <2>1, <2>2, <2>3, <2>5, <1>1 DEF Recorded
  <2>. QED
    BY <2>4, <2>5 DEF Recorded
<1>. QED
  BY <1>2, <1>3, <1>4
  DEF Next, AddressingStep, PowerUp, PowerDown, A_release, ProbeTaken, ProbeFree,
      ProbeLost, Claim, ScanStep, ScanFree, ScanLost, vars

\* The invariant about gaps, for workers that keep their power.
THEOREM GapInvariance == Spec => []GapInv
<1>1. Init => GapInv
  BY DEF Init, GapInv, TypeOK, FreshIsBase, NoGaps, Recorded, Slave, Addressing
<1>2. GapInv /\ [Next]_vars => GapInv'
  <2>. SUFFICES ASSUME GapInv, [Next]_vars PROVE GapInv'
    OBVIOUS
  <2>1. TypeOK' /\ FreshIsBase' /\ NoGaps'
    BY TypeStep, FreshStep, NoGapsStep DEF GapInv
  <2>2. ASSUME "outage" \notin faults' PROVE Recorded'
    BY <2>2, FaultsStay, RecordedStep DEF GapInv
  <2>. QED
    BY <2>1, <2>2 DEF GapInv
<1>. QED
  BY <1>1, <1>2, PTL DEF Spec

\* As long as no worker loses power, auto_address leaves no gap below the address
\* of a worker, even if several workers are addressed at once or lose STARTs.
THEOREM NoGapsCorrect == Spec => []NoGaps
<1>1. GapInv => NoGaps
  BY DEF GapInv
<1>. QED
  BY <1>1, GapInvariance, PTL

\* If workers keep their power, a scan that ends while no worker is being
\* addressed has found exactly the workers on the bus, also if STARTs are lost.
THEOREM ScanCorrect == Spec => ScanIsComplete
<1>. DEFINE Ends == /\ scan = "scanning" /\ scan' = "idle"
                    /\ "outage" \notin faults /\ \A w \in Workers : ~ Addressing(w)
            Found == {workers[k] : k \in 1..Len(workers)} \ {FRAM}
            Present == {workerID[w] : w \in {v \in Workers : Slave(v)}} \ {FRAM}
<1>1. ASSUME GapInv, [Next]_vars, Ends PROVE Found = Present
  <2>1. ScanFree
    BY <1>1 DEF Next, AddressingStep, Addressing, PowerUp, PowerDown, A_release, ProbeTaken,
       ProbeFree, ProbeLost, Claim, StartScan, ScanStep, ScanTaken, ScanLost, vars
  <2>2. \A a : Held(a) <=> Acknowledged(a)
    BY <1>1 DEF Held, Acknowledged
  <2>3. workers \in Seq(Nat) /\ Len(workers) \in Nat
    BY <1>1 DEF GapInv, TypeOK
  <2>4. ASSUME NEW a \in Found PROVE a \in Present
    <3>1. PICK k \in 1..Len(workers) : a = workers[k] /\ a # FRAM
      BY <2>3
    <3>2. a \in Nat /\ BASE <= a /\ a < BASE + Len(workers)
      BY <1>1, <2>3, <3>1, SMTT(30) DEF GapInv, Recorded
    <3>3. Held(a)
      BY <1>1, <3>2 DEF GapInv, Recorded
    <3>. QED
      BY <2>2, <3>1, <3>3 DEF Acknowledged
  <2>5. ASSUME NEW w \in Workers, Slave(w), workerID[w] # FRAM
        PROVE  workerID[w] \in Found
    <3>1. workerID[w] \in Nat /\ workerID[w] >= BASE
      BY <1>1 DEF GapInv, TypeOK
    <3>2. ~ Held(BASE + Len(workers))
      BY <2>1, <2>2 DEF ScanFree
    <3>3. ~ BASE + Len(workers) < workerID[w]
      BY <1>1, <2>3, <2>5, <3>1, <3>2 DEF GapInv, NoGaps
    <3>4. workerID[w] # BASE + Len(workers)
      BY <2>5, <3>2 DEF Held
    <3>5. PICK k \in 1..Len(workers) : workerID[w] = BASE + k - 1
      <4>1. workerID[w] - BASE + 1 \in 1..Len(workers)
        BY <2>3, <3>1, <3>3, <3>4, SMTT(30)
      <4>. QED
        BY <3>1, <4>1
    <3>. QED
      BY <1>1, <2>3, <2>5, <3>5 DEF GapInv, Recorded
  <2>. QED
    BY <2>4, <2>5, SMTT(30)
<1>. QED
  BY <1>1, GapInvariance, PTL DEF Spec, ScanIsComplete

==============================================================================
