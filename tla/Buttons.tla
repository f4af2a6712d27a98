------------------------------- MODULE Buttons -------------------------------
(***************************************************************************)
(* The two buttons of the controller: the pin-change interrupt with its    *)
(* debouncing (main/buttons.c), the callbacks that set button_status, and  *)
(* the control loop that polls it (main/main.c).  The interrupt can come   *)
(* between any two steps of the loop, also while it waits or carries out a *)
(* command, and the pins can change at any time.                           *)
(*                                                                         *)
(* button_status holds two flags per button.  One run of the loop body of  *)
(* pollButtonA or pollButtonC, 500 ms, is two steps: the test of the while *)
(* and what follows the delay.                                             *)
(***************************************************************************)
EXTENDS Integers

CONSTANT HOLD   \* a button held for more than HOLD delays is a long press, 10

ASSUME HoldAssumption == HOLD \in Nat

VARIABLES pins,              \* is each button up or down?
          pending,           \* "yes" if a pin has changed since the interrupt began
          isr,               \* where the interrupt handler is
          pinb_now,          \* the pins as the handler sampled them
          pinb_previous,     \* the pins as it last accepted them
          button_status,     \* the PRESS and RELEASE flags of each button
          loop,              \* where the control loop is
          buttonHoldCount

isrVars == <<pending, isr, pinb_now, pinb_previous, button_status>>
loopVars == <<loop, buttonHoldCount>>
vars == <<pins, isrVars, loopVars>>

Buttons == {"A", "C"}
Positions == {"up", "down"}
Flags == {"press", "release"}
Commands == {"format", "input", "process", "print"}

Init ==
  /\ pins = [b \in Buttons |-> "up"]
  /\ pending = "no"
  /\ isr = "none"
  /\ pinb_now = pins
  /\ pinb_previous = pins
  /\ button_status = [b \in Buttons |-> {}]
  /\ loop = "testA"
  /\ buttonHoldCount = 0

-----------------------------------------------------------------------------
(* The interrupt.                                                          *)

Move(b) ==
  /\ pins' = [pins EXCEPT ![b] = IF @ = "up" THEN "down" ELSE "up"]
  /\ pending' = "yes"
  /\ UNCHANGED <<isr, pinb_now, pinb_previous, button_status, loopVars>>

\* The handler begins with a delay of 150 ms.
Interrupt ==
  /\ isr = "none" /\ pending = "yes"
  /\ isr' = "delay"
  /\ pending' = "no"
  /\ UNCHANGED <<pins, pinb_now, pinb_previous, button_status, loopVars>>

Sample ==
  /\ isr = "delay"
  /\ pinb_now' = pins
  /\ isr' = "debounce"
  /\ UNCHANGED <<pins, pending, pinb_previous, button_status, loopVars>>

Xor(flags, f) == IF f \in flags THEN flags \ {f} ELSE flags \cup {f}
\* Mutation: the RELEASE flag is left alone.
pressed_only(flags) == flags \cup {"press"}

pressed(flags) == Xor(flags \cup {"press"}, "release")
released(flags) == Xor(flags \cup {"release"}, "press")

callback(b) ==
  CASE pinb_now[b] = pinb_previous[b] -> button_status[b]
    [] pinb_now[b] # pinb_previous[b] /\ pinb_now[b] = "down" -> pressed(button_status[b])
    [] pinb_now[b] # pinb_previous[b] /\ pinb_now[b] = "up" -> released(button_status[b])

\* Mutation: the sample is remembered although it is not acted on.
Bounce_remembered ==
  /\ isr = "debounce"
  /\ pinb_now # pins
  /\ pinb_previous' = pinb_now
  /\ isr' = "none"
  /\ UNCHANGED <<pins, pending, pinb_now, button_status, loopVars>>

\* The change did not persist: return at once.
Bounce ==
  /\ isr = "debounce"
  /\ pinb_now # pins
  /\ isr' = "none"
  /\ UNCHANGED <<pins, pending, pinb_now, pinb_previous, button_status, loopVars>>

Accept ==
  /\ isr = "debounce"
  /\ pinb_now = pins
  /\ button_status' = [b \in Buttons |-> callback(b)]
  /\ pinb_previous' = pinb_now
  /\ isr' = "none"
  /\ UNCHANGED <<pins, pending, pinb_now, loopVars>>

-----------------------------------------------------------------------------
(* The control loop; it stands still while the handler runs.               *)

Held(b) == button_status[b] = {"press"}

\* Mutation: the count is reset inside the loop.
TestA_resetting ==
  /\ isr = "none" /\ loop = "testA"
  /\ loop' = IF Held("A") THEN "delayA" ELSE "testC"
  /\ buttonHoldCount' = 0
  /\ UNCHANGED <<pins, isrVars>>

\* The tests at the head of the loops; a poll function starts with count 0.
TestA ==
  /\ isr = "none" /\ loop = "testA"
  /\ IF Held("A") THEN loop' = "delayA" /\ UNCHANGED buttonHoldCount
                  ELSE loop' = "testC" /\ buttonHoldCount' = 0
  /\ UNCHANGED <<pins, isrVars>>

TestC ==
  /\ isr = "none" /\ loop = "testC"
  /\ IF Held("C") THEN loop' = "delayC" /\ UNCHANGED buttonHoldCount
                  ELSE loop' = "testA" /\ buttonHoldCount' = 0
  /\ UNCHANGED <<pins, isrVars>>

AfterDelay(here, test, long, short) ==
  /\ isr = "none" /\ loop = here
  /\ buttonHoldCount' = buttonHoldCount + 1
  /\ loop' = IF buttonHoldCount' > HOLD THEN long
             ELSE IF "release" \in button_status["A"] THEN short
             ELSE test
  /\ UNCHANGED <<pins, isrVars>>

DelayA == AfterDelay("delayA", "testA", "format", "input")

\* Mutation: pollButtonC is left after every delay.
DelayC_leaving == AfterDelay("delayC", "testA", "process", "print")

\* The short press of C is tested with the flag of A.
DelayC == AfterDelay("delayC", "testC", "process", "print")

\* Mutation: pollButtonC goes on counting where pollButtonA stopped.
CommandDone_counting ==
  /\ isr = "none" /\ loop \in Commands
  /\ loop' = IF loop \in {"format", "input"} THEN "testC" ELSE "testA"
  /\ UNCHANGED <<pins, isrVars, buttonHoldCount>>

\* The break behind a command leaves the poll function.
CommandDone ==
  /\ isr = "none" /\ loop \in Commands
  /\ loop' = IF loop \in {"format", "input"} THEN "testC" ELSE "testA"
  /\ buttonHoldCount' = 0
  /\ UNCHANGED <<pins, isrVars>>

Handler == Interrupt \/ Sample \/ Bounce \/ Accept
Loop == TestA \/ TestC \/ DelayA \/ DelayC \/ CommandDone

Next == (\E b \in Buttons : Move(b)) \/ Handler \/ Loop

\* The handler goes on once it is due, and the loop whenever the handler leaves
\* it alone.  Nobody need press a button.
Spec == Init /\ [][Next]_vars /\ WF_vars(Handler) /\ WF_vars(Loop)

-----------------------------------------------------------------------------

\* Every variable has its type; buttonHoldCount, a uint8_t, stays small.
TypeOK ==
  /\ pins \in [Buttons -> Positions]
  /\ pending \in {"yes", "no"}
  /\ isr \in {"none", "delay", "debounce"}
  /\ pinb_now \in [Buttons -> Positions]
  /\ pinb_previous \in [Buttons -> Positions]
  /\ button_status \in [Buttons -> SUBSET Flags]
  /\ loop \in {"testA", "delayA", "testC", "delayC"} \cup Commands
  /\ buttonHoldCount \in 0..HOLD + 1

\* Debouncing loses no change: whenever the handler is neither running nor due,
\* the PRESS flag of each button tells whether it is down, although the handler
\* returns early on a bounce and the flags are toggled, not assigned.
StatusIsTrue ==
  isr = "none" /\ pending = "no" =>
    \A b \in Buttons : "press" \in button_status[b] <=> pins[b] = "down"

OneFlag(b) == \E f \in Flags : button_status[b] = {f}

\* The two flags of a button exclude each other, as the polling functions expect,
\* from its first release on: the toggles of the callbacks never set both flags
\* again, and never clear both.  (The first press of a button does set both: its
\* RELEASE flag is toggled on.)
FlagsExclude ==
  [][\A b \in Buttons : OneFlag(b) => OneFlag(b)']_vars

\* A button A that stays down formats the storage, again and again, provided
\* that it was released before (pollButtonA).
HoldingFormats ==
  <>[](pins = [A |-> "down", C |-> "up"]) /\ <>(button_status["A"] = {"release"})
    => []<>(loop = "format")

\* "a long press of button C will begin the process of sending input data"
\* (readme.md), as long as A was not used: pollButtonC takes the flag of A for that
\* of C, and a released A makes every press of C a short one.
LongPressOfC ==
  /\ <>[](pins = [A |-> "up", C |-> "down"]) /\ <>[]Held("C")
  /\ []("release" \notin button_status["A"])
  => []<>(loop = "process")
==============================================================================
