------------------------------- MODULE WallClock -------------------------------
(***************************************************************************)
(* gettimeofday and settimeofday of the HAL, which keep the time of day in *)
(* ticks and a correction.  main.c seeds its random numbers with the time. *)
(***************************************************************************)
EXTENDS Integers

CONSTANTS
  Modulus,   \* 2^32, the values of an alt_u32
  US,        \* ALT_US, the microseconds of a second
  Rate,      \* ticks a second of the system clock
  Seconds,   \* bound: the seconds the clock is set to
  LastSet,   \* environment: the last tick at which somebody sets the clock
  Uptime     \* bound: ticks

(* A word holds the microseconds up to LastSet (some 71 minutes in the     *)
(* code, which never sets the clock), and all the ticks.                   *)
ASSUME WallClockAssumption ==
  /\ Modulus \in Nat /\ US \in Nat /\ Rate \in Nat /\ 0 < Rate /\ Rate <= US /\ US < Modulus
  /\ Seconds \subseteq Nat
  /\ LastSet \in Nat /\ LastSet * (US \div Rate) < Modulus
  /\ Uptime \in Nat /\ Uptime < Modulus

VARIABLES
  tick_rate,    \* _alt_tick_rate, 0 without a system clock
  alt_nticks,   \* _alt_nticks
  alt_resettime

clockVars == <<tick_rate, alt_nticks, alt_resettime>>

Time(s, u) == [tv_sec |-> s, tv_usec |-> u]
Settings == {Time(s, u) : s \in Seconds, u \in 0 .. US - 1}

WallInit == tick_rate = 0 /\ alt_nticks = 0 /\ alt_resettime = Time(0, 0)

ClockStarts ==
  /\ tick_rate = 0 /\ tick_rate' = Rate
  /\ UNCHANGED <<alt_nticks, alt_resettime>>

ClockTicks ==
  /\ tick_rate # 0 /\ alt_nticks < Uptime
  /\ alt_nticks' = alt_nticks + 1
  /\ UNCHANGED <<tick_rate, alt_resettime>>

(* Mutant: the microseconds of the ticks are forgotten.                    *)
SetWholeSeconds(t) ==
  /\ tick_rate # 0 /\ alt_nticks <= LastSet
  /\ alt_resettime' = Time(t.tv_sec - alt_nticks \div tick_rate, t.tv_usec)
  /\ UNCHANGED <<tick_rate, alt_nticks>>

(* settimeofday: the product is taken in 32 bits.                          *)
SetTime(t) ==
  /\ tick_rate # 0 /\ alt_nticks <= LastSet
  /\ alt_resettime' = Time(t.tv_sec - alt_nticks \div tick_rate,
                           t.tv_usec - (((alt_nticks * (US \div tick_rate)) % Modulus) % US))
  /\ UNCHANGED <<tick_rate, alt_nticks>>

WallNext == ClockStarts \/ ClockTicks \/ \E t \in Settings : SetTime(t)

WallSpec == WallInit /\ [][WallNext]_clockVars

(* gettimeofday: the product is taken in 64 bits.  Less than no time is    *)
(* shown as 0.                                                             *)
TimeOfDay ==
  LET s == alt_resettime.tv_sec + alt_nticks \div tick_rate
      u == alt_resettime.tv_usec + ((alt_nticks * (US \div tick_rate)) % US)
  IN  CASE u < 0 /\ s <= 0 -> Time(0, 0)
        [] u < 0 /\ s > 0  -> Time(s - 1, u + US)
        [] u >= US         -> Time(s + 1, u - US)
        [] OTHER           -> Time(s, u)

Micros(t) == t.tv_sec * US + t.tv_usec

-----------------------------------------------------------------------------
IdealWall == INSTANCE IdealClock
         WITH Step <- US \div Rate, Settings <- {Micros(t) : t \in Settings},
              now <- IF tick_rate = 0 THEN -1 ELSE Micros(TimeOfDay)

(* Whatever it is set to and however often, the clock shows just that, and *)
(* goes on by a tick's worth with every tick, for as long as the ticks fit *)
(* a word, if nobody sets it after the first 71 minutes (LastSet) and if   *)
(* the ticks of a second fill it (its rate divides US).                    *)
KeepsTime == IdealWall!ClockSpec

(* Type: the correction is less than a second off a whole number.          *)
WallTypeOK ==
  /\ tick_rate \in {0, Rate} /\ alt_nticks \in 0 .. Uptime
  /\ alt_resettime.tv_sec \in Int
  /\ alt_resettime.tv_usec \in 1 - US .. US - 1
=============================================================================
