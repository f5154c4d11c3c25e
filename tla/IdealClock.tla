------------------------------- MODULE IdealClock -------------------------------
(***************************************************************************)
(* A wall clock as its users know it: it can be set, and then goes on by   *)
(* the same amount with every tick.                                        *)
(***************************************************************************)
EXTENDS Integers

CONSTANTS
  Step,      \* microseconds in a tick
  Settings   \* the times it may be set to

VARIABLE now   \* microseconds, or -1 if there is no clock

ClockInit == now = -1

StartAtZero == now = -1 /\ now' = 0
Advance == now # -1 /\ now' = now + Step
SetTo(t) == now # -1 /\ now' = t

ClockSpec == ClockInit /\ [][StartAtZero \/ Advance \/ \E t \in Settings : SetTo(t)]_now
=============================================================================
