------------------------------ MODULE IdealAlarms ------------------------------
(***************************************************************************)
(* Alarms as their users know them: each counts down to its callback.      *)
(***************************************************************************)
EXTENDS Naturals

CONSTANTS
  Alarms,   \* the alt_alarm structures there are
  Longest   \* the longest wait, in ticks

VARIABLES
  left,   \* ticks until the callback of each alarm; 0 if it is not running
  rung    \* the alarms whose callback the last tick has called

IdealInit == left = [a \in Alarms |-> 0] /\ rung = {}

StartCounting(a) ==
  /\ left[a] = 0
  /\ \E wait \in 1 .. Longest : left' = [left EXCEPT ![a] = wait]
  /\ UNCHANGED rung

StopCounting(a) == left' = [left EXCEPT ![a] = 0] /\ UNCHANGED rung

Count ==
  /\ rung' = {a \in Alarms : left[a] = 1}
  /\ left' \in [Alarms -> 0 .. Longest]
  /\ \A a \in Alarms \ rung' : left'[a] = IF left[a] = 0 THEN 0 ELSE left[a] - 1

IdealNext == Count \/ \E a \in Alarms : StartCounting(a) \/ StopCounting(a)

IdealSpec == IdealInit /\ [][IdealNext]_<<left, rung>>
=============================================================================
