---------------------------- MODULE Buttons_proofs ----------------------------
(***************************************************************************)
(* The pin-change interrupt loses no change of a button.  StatusIsTrue     *)
(* speaks of quiet moments only; the invariant adds what the handler knows *)
(* while it runs: the flags follow the accepted pins, and a sample that is *)
(* out of date has made the interrupt due again.                           *)
(***************************************************************************)
EXTENDS Buttons, TLAPS

USE HoldAssumption

\* The count of a poll function that goes on is still within the hold time.
CountInv == loop \notin Commands => buttonHoldCount <= HOLD

TypeInv == TypeOK /\ CountInv

\* The handler, the pins and the control loop keep the types.
LEMMA TypeStep == TypeInv /\ [Next]_vars => TypeInv'
<1>. SUFFICES ASSUME TypeInv, [Next]_vars PROVE TypeInv'
  OBVIOUS
<1>. USE DEF TypeInv, CountInv, TypeOK, isrVars, loopVars, Positions, Commands
<1>1. ASSUME NEW b \in Buttons, Move(b) PROVE TypeInv'
  BY <1>1 DEF Move
<1>2. CASE Interrupt \/ Sample \/ Bounce
  BY <1>2 DEF Interrupt, Sample, Bounce
<1>3. CASE Accept
  <2>1. ASSUME NEW b \in Buttons PROVE callback(b) \in SUBSET Flags
    BY DEF callback, pressed, released, Xor, Flags
  <2>2. button_status' \in [Buttons -> SUBSET Flags]
    BY <1>3, <2>1 DEF Accept
  <2>. QED
    BY <1>3, <2>2 DEF Accept
<1>4. CASE TestA \/ TestC \/ CommandDone
  BY <1>4 DEF TestA, TestC, CommandDone
<1>5. CASE DelayA
  BY <1>5 DEF DelayA, AfterDelay
<1>6. CASE DelayC
  BY <1>6 DEF DelayC, AfterDelay
<1>7. CASE UNCHANGED vars
  BY <1>7 DEF vars
<1>. QED
  BY <1>1, <1>2, <1>3, <1>4, <1>5, <1>6, <1>7 DEF Next, Handler, Loop

\* Type correctness, and with it that buttonHoldCount never exceeds HOLD + 1 and
\* so cannot wrap around.
THEOREM TypeCorrect == Spec => []TypeOK
<1>1. Init => TypeInv
  BY DEF Init, TypeInv, CountInv, TypeOK, Positions
<1>2. TypeInv => TypeOK
  BY DEF TypeInv
<1>. QED
  BY <1>1, <1>2, TypeStep, PTL DEF Spec

-----------------------------------------------------------------------------

FlagsFollow ==
  \A b \in Buttons : "press" \in button_status[b] <=> pinb_previous[b] = "down"

DueIfOutdated ==
  /\ isr = "none" /\ pending = "no" => pinb_previous = pins
  /\ isr = "debounce" /\ pending = "no" => pinb_now = pins

StatusInv == TypeInv /\ FlagsFollow /\ DueIfOutdated

\* Every step keeps the flags in line with the accepted pins, and an outdated
\* sample due for another interrupt.
LEMMA StatusStep == StatusInv /\ [Next]_vars => StatusInv'
<1>. SUFFICES ASSUME StatusInv, [Next]_vars PROVE StatusInv'
  OBVIOUS
<1>t. TypeInv /\ TypeInv'
  BY TypeStep DEF StatusInv
<1>. USE DEF StatusInv, FlagsFollow, DueIfOutdated, isrVars, loopVars
<1>1. ASSUME NEW b \in Buttons, Move(b) PROVE StatusInv'
  BY <1>1, <1>t DEF Move
<1>2. CASE Interrupt \/ Sample \/ Bounce
  BY <1>2, <1>t DEF Interrupt, Sample, Bounce
<1>3. CASE Accept
  <2>1. ASSUME NEW b \in Buttons
        PROVE  "press" \in callback(b) <=> pinb_now[b] = "down"
    BY <1>t DEF TypeInv, TypeOK, Positions, callback, pressed, released, Xor
  <2>2. FlagsFollow'
    BY <1>3, <2>1 DEF Accept
  <2>. QED
    BY <1>3, <1>t, <2>2 DEF Accept
<1>4. CASE TestA \/ TestC \/ CommandDone \/ DelayA \/ DelayC
  BY <1>4, <1>t DEF TestA, TestC, CommandDone, DelayA, DelayC, AfterDelay
<1>5. CASE UNCHANGED vars
  BY <1>5, <1>t DEF vars
<1>. QED
  BY <1>1, <1>2, <1>3, <1>4, <1>5 DEF Next, Handler, Loop

\* However the buttons bounce and whenever the interrupt comes, once the handler
\* is neither running nor due the PRESS flags of button_status are those of the
\* pins, for every hold time.
THEOREM StatusCorrect == Spec => []StatusIsTrue
<1>1. Init => StatusInv
  BY DEF Init, StatusInv, TypeInv, CountInv, TypeOK, FlagsFollow, DueIfOutdated, Positions
<1>2. StatusInv => StatusIsTrue
  BY DEF StatusInv, FlagsFollow, DueIfOutdated, StatusIsTrue
<1>. QED
  BY <1>1, <1>2, StatusStep, PTL DEF Spec

\* A button that has exactly one flag keeps exactly one: the flags that the
\* callbacks toggle follow the accepted pins, so a toggle meets the flag it clears.
\* Only a button that was never released can have both flags.
THEOREM FlagsExcludeHolds == Spec => FlagsExclude
<1>1. Init => StatusInv
  BY DEF Init, StatusInv, TypeInv, CountInv, TypeOK, FlagsFollow, DueIfOutdated, Positions
<1>2. ASSUME StatusInv, [Next]_vars, NEW b \in Buttons, OneFlag(b)
      PROVE  OneFlag(b)'
  <2>1. CASE Accept
    <3>1. /\ pinb_previous[b] \in Positions /\ pinb_now[b] \in Positions
          /\ "press" \in button_status[b] <=> pinb_previous[b] = "down"
      BY <1>2 DEF StatusInv, FlagsFollow, TypeInv, TypeOK
    <3>2. button_status[b] = {IF pinb_previous[b] = "down" THEN "press" ELSE "release"}
      BY <1>2, <3>1 DEF OneFlag, Flags, Positions
    <3>3. callback(b) = {IF pinb_now[b] = "down" THEN "press" ELSE "release"}
      BY <3>1, <3>2 DEF callback, pressed, released, Xor, Positions
    <3>4. button_status'[b] = callback(b)
      BY <2>1 DEF Accept
    <3>. QED
      BY <3>3, <3>4 DEF OneFlag, Flags
  <2>2. CASE UNCHANGED button_status
    BY <1>2, <2>2 DEF OneFlag
  <2>3. Accept \/ UNCHANGED button_status
    BY <1>2 DEF Next, Handler, Loop, Move, Interrupt, Sample, Bounce, TestA, TestC, DelayA,
       DelayC, AfterDelay, CommandDone, isrVars, loopVars, vars
  <2>. QED
    BY <2>1, <2>2, <2>3
<1>3. ASSUME StatusInv, [Next]_vars
      PROVE  \A b \in Buttons : OneFlag(b) => OneFlag(b)'
  BY <1>2, <1>3
<1>. QED
  BY <1>1, <1>3, StatusStep, PTL DEF Spec, FlagsExclude
==============================================================================
