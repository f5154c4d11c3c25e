------------------------------- MODULE BusySleep -------------------------------
(***************************************************************************)
(* alt_busy_sleep, behind every usleep of main.c and usb.c: loops of the   *)
(* processor that count a register down to 0.                              *)
(***************************************************************************)
EXTENDS Integers

CONSTANTS
  LargestInt, \* INT_MAX; a register has the values 0 to 2 * LargestInt + 1
  Million,    \* microseconds in a second
  Frequency,  \* ALT_CPU_FREQ
  Times       \* the microseconds it is called with

ASSUME BusySleepAssumption ==
  /\ LargestInt \in Nat /\ Million \in Nat \ {0} /\ Frequency \in Nat
  /\ Frequency \div (9 * Million) \in 1 .. LargestInt
  /\ Times \subseteq 0 .. 2 * LargestInt + 1

VARIABLES
  asked,       \* the argument it has been called with
  loop,        \* "idle", or the loop it is in
  us,          \* its variable of that name
  big_loops,   \* big loops to go
  loops        \* turns of the loops so far

sleepVars == <<asked, loop, us, big_loops, loops>>

cycles_per_loop == 9   \* NIOS2_CPU_IMPLEMENTATION is "tiny"
PerMicrosecond == Frequency \div (cycles_per_loop * Million)
BigLoop == LargestInt \div PerMicrosecond   \* the microseconds of a big loop

SleepTypeOK ==
  /\ asked \in Times \cup {0} /\ us \in 0 .. asked
  /\ loop \in {"idle", "big", "rest", "only"}
  /\ big_loops \in 0 .. asked /\ loops \in Nat

SleepInit == asked = 0 /\ us = 0 /\ loop = "idle" /\ big_loops = 0 /\ loops = 0

Sleep(t) ==
  /\ loop = "idle"
  /\ asked' = t /\ us' = t /\ loops' = 0
  /\ big_loops' = t \div BigLoop
  /\ loop' = IF big_loops' > 0 THEN "big" ELSE "only"

(* Turns of a loop that starts at n and ends at 0, and of one that ends    *)
(* below 1.                                                                *)
UntilZero(n) == IF n = 0 THEN 2 * LargestInt + 2 ELSE n
UntilNotPositive(n) == IF n = 0 THEN 1 ELSE n

(* Mutant: more is taken off than the loop has taken.                      *)
BigTurnRounded ==
  /\ loop = "big"
  /\ loops' = loops + UntilZero(BigLoop)
  /\ us' = us - BigLoop
  /\ big_loops' = big_loops - 1
  /\ loop' = IF big_loops' = 0 THEN "rest" ELSE "big"
  /\ UNCHANGED asked

BigTurn ==
  /\ loop = "big"
  /\ loops' = loops + UntilZero(LargestInt)
  /\ us' = us - BigLoop
  /\ big_loops' = big_loops - 1
  /\ loop' = IF big_loops' = 0 THEN "rest" ELSE "big"
  /\ UNCHANGED asked

Last(label, turns) ==
  /\ loop = label /\ loop' = "idle"
  /\ loops' = loops + turns
  /\ us' = 0
  /\ UNCHANGED <<asked, big_loops>>

SleepNext ==
  \/ \E t \in Times : Sleep(t)
  \/ BigTurn
  \/ Last("rest", UntilZero(us * PerMicrosecond))
  \/ Last("only", UntilNotPositive(us * PerMicrosecond))

SleepSpec == SleepInit /\ [][SleepNext]_sleepVars

-----------------------------------------------------------------------------
(* No product is larger than INT_MAX, for which the register would be      *)
(* negative and the shorter loop would end at once.                        *)
SleepFits == SleepTypeOK /\ (loop \in {"rest", "only"} => us * PerMicrosecond <= LargestInt)

Returns == loop \in {"rest", "only"} /\ loop' = "idle"

(* A sleep makes the turns its microseconds stand for, however long it is: *)
(* no fewer, and no more but for a turn of the count for each big loop.    *)
(* Only when the big loops leave nothing for the last one, which counts    *)
(* down from 0 then, does it make 2^32 turns more.                         *)
TakesItsTurns ==
  [][Returns => /\ loops' >= asked * PerMicrosecond
                /\ \/ loop = "rest" /\ us = 0
                   \/ loops' <= asked * PerMicrosecond + PerMicrosecond * (asked \div BigLoop) + 1]_sleepVars
=============================================================================
