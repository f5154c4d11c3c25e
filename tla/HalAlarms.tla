------------------------------ MODULE HalAlarms ------------------------------
(***************************************************************************)
(* The alarms of the HAL: alt_alarm_start, alt_alarm_stop and alt_tick.    *)
(* Start and stop disable interrupts and alt_tick is called by one, so     *)
(* each is one step.  Ticks are counted in a word that comes round to 0;   *)
(* the rollover flag says that an alarm is for the time after that.        *)
(***************************************************************************)
EXTENDS Integers

CONSTANTS
  Alarms,   \* the alt_alarm structures there are
  Period,   \* 2^32, the values of an alt_u32
  Delays    \* the nticks alt_alarm_start is called with

(* Not the longest delay: with 2^32 - 1 the sum of alt_alarm_start is the  *)
(* present tick, and the alarm goes off at once.                           *)
ASSUME HalAlarmsAssumption == Period \in Nat /\ Period > 1 /\ Delays \subseteq 0 .. Period - 2

VARIABLES
  clock,      \* _alt_tick_rate is not 0
  nticks,     \* _alt_nticks
  running,    \* alt_alarm_list
  time, rollover,   \* of each alarm
  rung        \* the alarms whose callback the last alt_tick has called

alarmVars == <<clock, nticks, running, time, rollover, rung>>

Word == 0 .. Period - 1

AlarmTypeOK ==
  /\ clock \in BOOLEAN /\ nticks \in Word
  /\ running \subseteq Alarms /\ rung \subseteq Alarms
  /\ time \in [Alarms -> Word] /\ rollover \in [Alarms -> BOOLEAN]

AlarmInit ==
  /\ clock = FALSE /\ nticks = 0 /\ running = {} /\ rung = {}
  /\ time = [a \in Alarms |-> 0] /\ rollover = [a \in Alarms |-> FALSE]

(* alt_sysclk_init, by the driver of a system clock, if there is one.      *)
SysclkInit ==
  /\ ~clock /\ clock' = TRUE
  /\ UNCHANGED <<nticks, running, time, rollover, rung>>

(* Without a clock it fails.  An alarm that runs is not started again: its *)
(* entry would be put into the list twice.                                 *)
Start(a, delay) ==
  /\ clock /\ a \notin running
  /\ time' = [time EXCEPT ![a] = (delay + nticks + 1) % Period]
  /\ rollover' = [rollover EXCEPT ![a] = time'[a] < nticks]
  /\ running' = running \cup {a}
  /\ UNCHANGED <<clock, nticks, rung>>

Stop(a) ==
  /\ running' = running \ {a}
  /\ UNCHANGED <<clock, nticks, time, rollover, rung>>

(* Mutant: the flag goes down one tick early.                              *)
DueSooner(a) == a \in running /\ time[a] <= nticks' /\ (rollover[a] => nticks' \in {0, Period - 1})

Due(a) == a \in running /\ time[a] <= nticks' /\ (rollover[a] => nticks' = 0)

(* A callback returns the ticks to the next one, or 0 for no more.         *)
Tick ==
  /\ clock
  /\ nticks' = (nticks + 1) % Period
  /\ rung' = {a \in Alarms : Due(a)}
  /\ \E next \in [Alarms -> Word] :
       /\ running' = running \ {a \in rung' : next[a] = 0}
       /\ time' = [a \in Alarms |-> IF a \in rung' THEN (time[a] + next[a]) % Period ELSE time[a]]
       /\ rollover' =
            [a \in Alarms |-> IF a \in running THEN (rollover[a] /\ nticks' # 0)
                                                    \/ (a \in rung' /\ next[a] # 0 /\ time'[a] < nticks')
                                               ELSE rollover[a]]
  /\ UNCHANGED clock

AlarmNext == SysclkInit \/ Tick \/ \E a \in Alarms : Stop(a) \/ \E d \in Delays : Start(a, d)

AlarmSpec == AlarmInit /\ [][AlarmNext]_alarmVars

-----------------------------------------------------------------------------
(* How far an alarm is from its callback.                                  *)
Left(a) ==
  IF a \notin running THEN 0
  ELSE IF rollover[a] THEN time[a] + Period - nticks ELSE time[a] - nticks

Ideal == INSTANCE IdealAlarms WITH Longest <- Period, left <- [a \in Alarms |-> Left(a)]

(* No alarm goes off early or late, and none is forgotten, while the count *)
(* of ticks comes round again and again.                                   *)
CountsDown == Ideal!IdealSpec

(* What makes it so: an alarm that runs has its callback before it, and    *)
(* less than a period away.                                                *)
AlarmInv ==
  /\ AlarmTypeOK
  /\ \A a \in running : Left(a) \in 1 .. Period - 1
=============================================================================
