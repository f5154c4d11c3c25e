------------------------------- MODULE HalProofs -------------------------------
(***************************************************************************)
(* Theorems about the parts of the HAL that keep a state: the alarms for   *)
(* every width of the count of ticks, the table of files for every length  *)
(* and set of devices, the interrupts for every number of them, the time   *)
(* of day for every rate of ticks that divides the second, the sleep for   *)
(* every frequency; about the ports for every word that is stored; and     *)
(* about the setup of the USB controller.                                  *)
(***************************************************************************)
EXTENDS FileTable, HalAlarms, HalInterrupts, WallClock, BusySleep, Peripherals, Cy7c67200,
        SequenceTheorems, WellFoundedInduction, TLAPS

-----------------------------------------------------------------------------
(* The alarms.                                                             *)

(* A sum of two words, and one more, comes round at most once.             *)
LEMMA ComesRound ==
  ASSUME NEW x \in 0 .. 2 * Period - 1
  PROVE  x % Period = IF x < Period THEN x ELSE x - Period
BY HalAlarmsAssumption

(* Of an alarm for time t with flag f, how far it is from its callback     *)
(* when the count is n.                                                    *)
Ahead(t, f, n) == IF f THEN t + Period - n ELSE t - n

(* alt_alarm_start: the alarm is its delay and one tick away.              *)
LEMMA StartAhead ==
  ASSUME NEW n \in Word, NEW d \in Delays, NEW t, t = (d + n + 1) % Period
  PROVE  t \in Word /\ Ahead(t, t < n, n) = d + 1 /\ d + 1 \in 1 .. Period - 1
<1>1. d \in 0 .. Period - 2 /\ n \in 0 .. Period - 1 /\ Period \in Nat
  BY HalAlarmsAssumption DEF Word
<1>2. t = IF d + n + 1 < Period THEN d + n + 1 ELSE d + n + 1 - Period
  BY <1>1, ComesRound
<1> QED BY <1>1, <1>2 DEF Ahead, Word

(* alt_tick: exactly an alarm one tick away is due, and the others come a  *)
(* tick nearer.                                                            *)
LEMMA TickAhead ==
  ASSUME NEW n \in Word, NEW t \in Word, NEW f \in BOOLEAN,
         Ahead(t, f, n) \in 1 .. Period - 1,
         NEW k, k = (n + 1) % Period
  PROVE  /\ k \in Word
         /\ (t <= k /\ (f => k = 0)) <=> Ahead(t, f, n) = 1
         /\ Ahead(t, f, n) = 1 => t = k /\ ~(f /\ k # 0)
         /\ Ahead(t, f, n) # 1 => Ahead(t, f /\ k # 0, k) = Ahead(t, f, n) - 1
<1>1. n \in 0 .. Period - 1 /\ t \in 0 .. Period - 1 /\ Period \in Nat /\ Period > 1
  BY HalAlarmsAssumption DEF Word
<1>2. k = IF n + 1 < Period THEN n + 1 ELSE 0
  <2>1. n + 1 \in 0 .. 2 * Period - 1
    BY <1>1
  <2> QED BY <1>1, <2>1, ComesRound
<1>3. CASE f
  <2>1. t + Period - n \in 1 .. Period - 1
    BY <1>3 DEF Ahead
  <2>2. CASE n + 1 < Period
    BY <1>1, <1>2, <1>3, <2>1, <2>2 DEF Ahead, Word
  <2>3. CASE n + 1 = Period
    BY <1>1, <1>2, <1>3, <2>1, <2>3 DEF Ahead, Word
  <2> QED BY <1>1, <2>2, <2>3
<1>4. CASE ~f
  <2>1. t - n \in 1 .. Period - 1
    BY <1>4 DEF Ahead
  <2>2. k = n + 1 /\ k # 0
    BY <1>1, <1>2, <2>1
  <2> QED BY <1>1, <1>4, <2>1, <2>2 DEF Ahead, Word
<1> QED BY <1>3, <1>4

(* alt_tick: an alarm whose callback asks for another w ticks is w ticks   *)
(* away.                                                                   *)
LEMMA AgainAhead ==
  ASSUME NEW k \in Word, NEW w \in Word \ {0}, NEW t, t = (k + w) % Period
  PROVE  t \in Word /\ Ahead(t, t < k, k) = w
<1>1. w \in 1 .. Period - 1 /\ k \in 0 .. Period - 1 /\ Period \in Nat
  BY HalAlarmsAssumption DEF Word
<1>2. t = IF k + w < Period THEN k + w ELSE k + w - Period
  BY <1>1, ComesRound
<1> QED BY <1>1, <1>2 DEF Ahead, Word

LEMMA LeftAhead ==
  \A a : Left(a) = IF a \in running THEN Ahead(time[a], rollover[a], nticks) ELSE 0
BY DEF Left, Ahead

LEMMA LeftAheadNext ==
  \A a : Left(a)' = IF a \in running' THEN Ahead(time'[a], rollover'[a], nticks') ELSE 0
BY DEF Left, Ahead

(* What a tick does to one alarm.                                          *)
LEMMA TickOne ==
  ASSUME AlarmInv, Tick, NEW a \in Alarms
  PROVE  /\ time'[a] \in Word /\ rollover'[a] \in BOOLEAN
         /\ a \in rung' <=> Left(a) = 1
         /\ a \notin running => a \notin running'
         /\ a \in running /\ a \notin rung' => a \in running' /\ Left(a)' = Left(a) - 1
         /\ a \in rung' /\ a \in running' => Left(a)' \in 1 .. Period - 1
<1>1. /\ nticks \in Word /\ time[a] \in Word /\ rollover[a] \in BOOLEAN
      /\ nticks' = (nticks + 1) % Period
      /\ a \in running => Left(a) \in 1 .. Period - 1
  BY DEF AlarmInv, AlarmTypeOK, Tick
<1>2. PICK next \in [Alarms -> Word] :
        /\ running' = running \ {b \in rung' : next[b] = 0}
        /\ time' = [b \in Alarms |-> IF b \in rung' THEN (time[b] + next[b]) % Period ELSE time[b]]
        /\ rollover' =
             [b \in Alarms |-> IF b \in running THEN (rollover[b] /\ nticks' # 0)
                                                     \/ (b \in rung' /\ next[b] # 0 /\ time'[b] < nticks')
                                                ELSE rollover[b]]
  BY DEF Tick
<1>3. a \in rung' <=> a \in running /\ time[a] <= nticks' /\ (rollover[a] => nticks' = 0)
  BY DEF Tick, Due
<1>4. CASE a \notin running
  <2>1. Left(a) = 0 /\ a \notin rung' /\ a \notin running'
    BY <1>2, <1>3, <1>4 DEF Left
  <2>2. time'[a] = time[a] /\ rollover'[a] = rollover[a]
    BY <1>2, <1>4, <2>1
  <2> QED BY <1>1, <1>4, <2>1, <2>2
<1>5. CASE a \in running
  <2>1. Ahead(time[a], rollover[a], nticks) = Left(a) /\ Left(a) \in 1 .. Period - 1
    BY <1>1, <1>5, LeftAhead
  <2>2. /\ nticks' \in Word
        /\ (time[a] <= nticks' /\ (rollover[a] => nticks' = 0)) <=> Left(a) = 1
        /\ Left(a) = 1 => time[a] = nticks' /\ ~(rollover[a] /\ nticks' # 0)
        /\ Left(a) # 1 => Ahead(time[a], rollover[a] /\ nticks' # 0, nticks') = Left(a) - 1
    BY <1>1, <2>1, TickAhead
  <2>3. a \in rung' <=> Left(a) = 1
    BY <1>3, <1>5, <2>2
  <2>4. rollover'[a] \in BOOLEAN
    BY <1>2, <1>5
  <2>5. CASE a \notin rung'
    <3>1. time'[a] = time[a] /\ rollover'[a] = (rollover[a] /\ nticks' # 0) /\ a \in running'
      BY <1>2, <1>5, <2>5
    <3>2. Left(a)' = Left(a) - 1
      BY <2>2, <2>3, <2>5, <3>1, LeftAheadNext
    <3> QED BY <1>1, <1>5, <2>3, <2>4, <2>5, <3>1, <3>2
  <2>6. CASE a \in rung'
    <3>1. time[a] = nticks' /\ ~(rollover[a] /\ nticks' # 0)
      BY <2>2, <2>3, <2>6
    <3>2. next[a] \in Word /\ time'[a] = (nticks' + next[a]) % Period
      BY <1>2, <2>6, <3>1
    <3>3. CASE next[a] = 0
      <4>1. a \notin running'
        BY <1>2, <2>6, <3>3
      <4>2. nticks' + next[a] = nticks' /\ nticks' \in 0 .. 2 * Period - 1 /\ nticks' < Period
        <5>1. \A k \in Word : k + 0 = k /\ k \in 0 .. 2 * Period - 1 /\ k < Period
          BY HalAlarmsAssumption DEF Word
        <5> QED BY <2>2, <3>3, <5>1
      <4>3. time'[a] \in Word
        BY <2>2, <3>2, <4>2, ComesRound
      <4> QED BY <1>5, <2>3, <2>4, <2>6, <4>1, <4>3
    <3>4. CASE next[a] # 0
      <4>1. rollover'[a] = (time'[a] < nticks')
        BY <1>2, <1>5, <2>6, <3>1, <3>4
      <4>2. time'[a] \in Word /\ Ahead(time'[a], time'[a] < nticks', nticks') = next[a]
        BY <2>2, <3>2, <3>4, AgainAhead
      <4>3. a \in running' => Left(a)' = next[a]
        BY <4>1, <4>2, LeftAheadNext
      <4>4. next[a] \in 1 .. Period - 1
        BY <3>2, <3>4, HalAlarmsAssumption DEF Word
      <4> QED BY <1>5, <2>3, <2>4, <2>6, <4>2, <4>3, <4>4
    <3> QED BY <3>3, <3>4
  <2> QED BY <2>5, <2>6
<1> QED BY <1>4, <1>5

(* What alt_alarm_start does.                                              *)
LEMMA StartOne ==
  ASSUME AlarmInv, NEW a \in Alarms, NEW d \in Delays, Start(a, d)
  PROVE  /\ a \notin running /\ running' = running \cup {a}
         /\ time'[a] \in Word /\ rollover'[a] \in BOOLEAN /\ Left(a)' = d + 1
         /\ d + 1 \in 1 .. Period - 1
         /\ \A b \in Alarms \ {a} : time'[b] = time[b] /\ rollover'[b] = rollover[b]
         /\ nticks' = nticks /\ rung' = rung /\ clock' = clock
         /\ DOMAIN time' = Alarms /\ DOMAIN rollover' = Alarms
<1>1. /\ nticks \in Word /\ time \in [Alarms -> Word] /\ rollover \in [Alarms -> BOOLEAN]
      /\ nticks' = nticks /\ running' = running \cup {a} /\ a \notin running
      /\ time' = [time EXCEPT ![a] = (d + nticks + 1) % Period]
      /\ rollover' = [rollover EXCEPT ![a] = time'[a] < nticks]
      /\ rung' = rung /\ clock' = clock
  BY DEF AlarmInv, AlarmTypeOK, Start
<1>2. time'[a] = (d + nticks + 1) % Period /\ rollover'[a] = (time'[a] < nticks)
  BY <1>1
<1>3. /\ time'[a] \in Word /\ Ahead(time'[a], time'[a] < nticks, nticks) = d + 1
      /\ d + 1 \in 1 .. Period - 1
  BY <1>1, <1>2, StartAhead
<1>4. Left(a)' = d + 1
  BY <1>1, <1>2, <1>3, LeftAheadNext
<1> QED BY <1>1, <1>2, <1>3, <1>4

LEMMA AlarmStart == AlarmInit => AlarmInv
<1>1. 0 \in Word
  BY HalAlarmsAssumption DEF Word
<1> QED BY <1>1 DEF AlarmInit, AlarmInv, AlarmTypeOK

LEMMA AlarmStep == AlarmInv /\ [AlarmNext]_alarmVars => AlarmInv'
<1>1. SUFFICES ASSUME AlarmInv, [AlarmNext]_alarmVars PROVE AlarmInv'
  OBVIOUS
<1>2. AlarmTypeOK /\ \A a \in running : Left(a) \in 1 .. Period - 1
  BY <1>1 DEF AlarmInv
<1>3. CASE SysclkInit
  BY <1>2, <1>3 DEF SysclkInit, AlarmInv, AlarmTypeOK, Left
<1>4. ASSUME NEW a \in Alarms, Stop(a) PROVE AlarmInv'
  BY <1>2, <1>4 DEF Stop, AlarmInv, AlarmTypeOK, Left
<1>5. ASSUME NEW a \in Alarms, NEW d \in Delays, Start(a, d) PROVE AlarmInv'
  <2>1. /\ running' = running \cup {a} /\ time'[a] \in Word /\ rollover'[a] \in BOOLEAN
        /\ Left(a)' \in 1 .. Period - 1
        /\ \A b \in Alarms \ {a} : time'[b] = time[b] /\ rollover'[b] = rollover[b]
        /\ nticks' = nticks /\ rung' = rung /\ clock' = clock
    BY <1>1, <1>5, StartOne
  <2>2. /\ time' = [time EXCEPT ![a] = time'[a]]
        /\ rollover' = [rollover EXCEPT ![a] = rollover'[a]]
    BY <1>2, <1>5 DEF Start, AlarmTypeOK
  <2>3. AlarmTypeOK'
    <3>1. time' \in [Alarms -> Word]
      BY <1>2, <2>1, <2>2 DEF AlarmTypeOK
    <3>2. rollover' \in [Alarms -> BOOLEAN]
      BY <1>2, <2>1, <2>2 DEF AlarmTypeOK
    <3> QED BY <1>2, <2>1, <3>1, <3>2 DEF AlarmTypeOK
  <2>4. ASSUME NEW b \in running, b # a PROVE Left(b)' = Left(b)
    BY <1>2, <2>1, <2>4 DEF AlarmTypeOK, Left
  <2> QED BY <1>2, <2>1, <2>3, <2>4 DEF AlarmInv
<1>6. CASE Tick
  <2>1. clock' = clock /\ nticks' = (nticks + 1) % Period /\ rung' \subseteq Alarms
        /\ running' \subseteq running
    BY <1>6 DEF Tick
  <2>2. time' \in [Alarms -> Word] /\ rollover' \in [Alarms -> BOOLEAN]
    <3>1. \A a \in Alarms : time'[a] \in Word /\ rollover'[a] \in BOOLEAN
      BY <1>1, <1>6, TickOne
    <3>2. /\ time' = [a \in Alarms |-> time'[a]]
          /\ rollover' = [a \in Alarms |-> rollover'[a]]
      BY <1>6 DEF Tick
    <3> QED BY <3>1, <3>2
  <2>3. nticks' \in Word
    <3>1. nticks + 1 \in 0 .. 2 * Period - 1 /\ nticks \in 0 .. Period - 1
      BY <1>2, HalAlarmsAssumption DEF AlarmTypeOK, Word
    <3> QED BY <2>1, <3>1, ComesRound, HalAlarmsAssumption DEF Word
  <2>4. AlarmTypeOK'
    BY <1>2, <2>1, <2>2, <2>3 DEF AlarmTypeOK
  <2>5. ASSUME NEW a \in running' PROVE Left(a)' \in 1 .. Period - 1
    <3>1. a \in Alarms /\ a \in running
      BY <1>2, <2>1, <2>5 DEF AlarmTypeOK
    <3>2. CASE a \in rung'
      BY <1>1, <1>6, <2>5, <3>1, <3>2, TickOne
    <3>3. CASE a \notin rung'
      <4>1. Left(a)' = Left(a) - 1 /\ Left(a) # 1
        BY <1>1, <1>6, <3>1, <3>3, TickOne
      <4>2. Left(a) \in 1 .. Period - 1
        BY <1>2, <3>1
      <4> QED BY <4>1, <4>2, HalAlarmsAssumption
    <3> QED BY <3>2, <3>3
  <2> QED BY <2>4, <2>5 DEF AlarmInv
<1>7. CASE UNCHANGED alarmVars
  BY <1>2, <1>7 DEF alarmVars, AlarmInv, AlarmTypeOK, Left
<1> QED BY <1>1, <1>3, <1>4, <1>5, <1>6, <1>7 DEF AlarmNext

(* Whatever the delays and however often the count comes round, an alarm   *)
(* that runs has its callback before it, less than a period away.          *)
THEOREM AlarmsAhead == AlarmSpec => []AlarmInv
BY AlarmStart, AlarmStep, PTL DEF AlarmSpec

(* The alarms of the HAL implement those that count down: none goes off    *)
(* early or late and none is forgotten, whatever the width of the count.   *)
THEOREM AlarmsCountDown == AlarmSpec => CountsDown
<1> DEFINE left == [a \in Alarms |-> Left(a)]
<1>1. AlarmInit => Ideal!IdealInit
  BY DEF AlarmInit, Ideal!IdealInit, Left
<1>2. AlarmInv /\ [AlarmNext]_alarmVars => [Ideal!IdealNext]_<<left, rung>>
  <2>1. SUFFICES ASSUME AlarmInv, [AlarmNext]_alarmVars
                 PROVE  [Ideal!IdealNext]_<<left, rung>>
    OBVIOUS
  <2>2. running \subseteq Alarms /\ \A a \in running : Left(a) \in 1 .. Period - 1
    BY <2>1 DEF AlarmInv, AlarmTypeOK
  <2>3. CASE SysclkInit \/ UNCHANGED alarmVars
    BY <2>3 DEF SysclkInit, alarmVars, Left
  <2>4. ASSUME NEW a \in Alarms, Stop(a) PROVE Ideal!IdealNext
    <3>1. running' = running \ {a} /\ UNCHANGED <<time, rollover, nticks, rung>>
      BY <2>4 DEF Stop
    <3>2. left' = [left EXCEPT ![a] = 0]
      BY <3>1 DEF Left
    <3> QED BY <3>1, <3>2 DEF Ideal!IdealNext, Ideal!StopCounting
  <2>5. ASSUME NEW a \in Alarms, NEW d \in Delays, Start(a, d) PROVE Ideal!IdealNext
    <3>1. /\ a \notin running /\ running' = running \cup {a} /\ Left(a)' = d + 1
          /\ d + 1 \in 1 .. Period - 1
          /\ \A b \in Alarms \ {a} : time'[b] = time[b] /\ rollover'[b] = rollover[b]
          /\ nticks' = nticks /\ rung' = rung
      BY <2>1, <2>5, StartOne
    <3>2. \A b \in Alarms \ {a} : Left(b)' = Left(b)
      BY <3>1 DEF Left
    <3>3. left' = [left EXCEPT ![a] = d + 1]
      BY <3>1, <3>2
    <3>4. left[a] = 0
      BY <3>1 DEF Left
    <3>5. d + 1 \in 1 .. Period
      BY <3>1, HalAlarmsAssumption
    <3> QED BY <3>1, <3>3, <3>4, <3>5 DEF Ideal!IdealNext, Ideal!StartCounting
  <2>6. CASE Tick
    <3>1. ASSUME NEW a \in Alarms
          PROVE  /\ a \in rung' <=> Left(a) = 1
                 /\ Left(a)' \in 0 .. Period
                 /\ a \notin rung' => Left(a)' = IF Left(a) = 0 THEN 0 ELSE Left(a) - 1
      <4>1. /\ a \in rung' <=> Left(a) = 1
            /\ a \notin running => a \notin running'
            /\ a \in running /\ a \notin rung' => a \in running' /\ Left(a)' = Left(a) - 1
            /\ a \in rung' /\ a \in running' => Left(a)' \in 1 .. Period - 1
        BY <2>1, <2>6, TickOne
      <4>2. a \notin running' => Left(a)' = 0
        BY DEF Left
      <4>3. a \notin running => Left(a) = 0
        BY DEF Left
      <4>4. a \in running => Left(a) \in 1 .. Period - 1 /\ Left(a) # 0
        BY <2>2
      <4> QED BY <4>1, <4>2, <4>3, <4>4, HalAlarmsAssumption
    <3>2. rung' = {a \in Alarms : left[a] = 1}
      <4>1. rung' \subseteq Alarms
        BY <2>6 DEF Tick
      <4> QED BY <3>1, <4>1
    <3>3. left' \in [Alarms -> 0 .. Period]
      BY <3>1
    <3>4. \A a \in Alarms \ rung' : left'[a] = IF left[a] = 0 THEN 0 ELSE left[a] - 1
      BY <3>1
    <3> QED BY <3>2, <3>3, <3>4 DEF Ideal!IdealNext, Ideal!Count
  <2> QED BY <2>1, <2>3, <2>4, <2>5, <2>6 DEF AlarmNext
<1> QED BY <1>1, <1>2, AlarmsAhead, PTL DEF AlarmSpec, CountsDown, Ideal!IdealSpec

-----------------------------------------------------------------------------
(* The table of files.                                                     *)

(* A set of numbers has a least one: the searches of alt_get_fd and of     *)
(* alt_irq_handler find it.                                                *)
LEMMA HasLeast ==
  ASSUME NEW S \in SUBSET Nat, S # {}
  PROVE  \E i \in S : \A j \in S : i <= j
<1> DEFINE R == {p \in Nat \X Nat : p[1] < p[2]}
<1>1. IsWellFoundedOn(R, Nat)
  BY NatLessThanWellFounded DEF OpToRel
<1> HIDE DEF R
<1>2. PICK i \in S : \A j \in S : ~(<<j, i>> \in R)
  BY <1>1, WFMin
<1>3. \A j \in S : i <= j
  <2>1. TAKE j \in S
  <2>2. ~(<<j, i>> \in R)
    BY <1>2
  <2> QED BY <2>2 DEF R
<1> QED BY <1>3

(* What is true of an entry: a file that is no stream is open at or below  *)
(* the mark, the streams are open devices and from their turn on the JTAG  *)
(* UART, and only a device is locked.                                      *)
EntryOK(i, at, e, mark) ==
  /\ e \in [dev : Devices \cup FileSystems \cup {NoDevice}, mode : Modes, flags : SUBSET Options]
  /\ i \notin Streams /\ e.dev # NoDevice => at = "main" /\ i <= mark
  /\ i \in Streams => e.dev \in Devices
  /\ "ALT_FD_EXCL" \in e.flags => at = "main" /\ "ALT_FD_DEV" \in e.flags
  /\ "ALT_FD_DEV" \in e.flags => e.dev \in Devices
  /\ i = 1 /\ at \in {"stdin", "stderr", "main"} => e.dev = Uart /\ e.mode = "O_WRONLY"
  /\ i = 0 /\ at \in {"stderr", "main"} => e.dev = Uart /\ e.mode = "O_RDONLY"
  /\ i = 2 /\ at = "main" => e.dev = Uart /\ e.mode = "O_WRONLY"

TableInv ==
  /\ stage \in {"sys init", "stdout", "stdin", "stderr", "main"}
  /\ alt_dev_list \subseteq Devices /\ alt_fs_list \subseteq FileSystems
  /\ alt_max_fd \in -1 .. MaxFd - 1
  /\ DOMAIN alt_fd_list = Fds /\ alt_fd_list = [i \in Fds |-> alt_fd_list[i]]
  /\ \A i \in Fds : EntryOK(i, stage, alt_fd_list[i], alt_max_fd)

LEMMA TableType == TableInv => FileInv /\ StreamsStay
<1>1. ASSUME TableInv PROVE FileInv
  BY <1>1 DEF TableInv, EntryOK, FileInv, FileTypeOK
<1>2. ASSUME TableInv, stage = "main"
      PROVE  ReadReaches(0) = Uart /\ WriteReaches(1) = Uart /\ WriteReaches(2) = Uart
  <2>1. 0 \in Fds /\ 1 \in Fds /\ 2 \in Fds
    BY FileTableAssumption DEF Fds
  <2>2. /\ alt_fd_list[0].dev = Uart /\ alt_fd_list[0].mode = "O_RDONLY"
        /\ alt_fd_list[1].dev = Uart /\ alt_fd_list[1].mode = "O_WRONLY"
        /\ alt_fd_list[2].dev = Uart /\ alt_fd_list[2].mode = "O_WRONLY"
    BY <1>2, <2>1 DEF TableInv, EntryOK
  <2> QED BY <2>2, FileTableAssumption DEF ReadReaches, WriteReaches
<1> QED BY <1>1, <1>2 DEF StreamsStay

(* alt_get_fd finds a free entry if there is one, and it is no stream.     *)
LEMMA FirstFreeIsFree ==
  ASSUME TableInv, FreeFds # {}
  PROVE  /\ FirstFree \in Fds \ Streams /\ alt_fd_list[FirstFree].dev = NoDevice
         /\ HighWater(FirstFree) \in -1 .. MaxFd - 1
         /\ FirstFree <= HighWater(FirstFree) /\ alt_max_fd <= HighWater(FirstFree)
<1>1. FreeFds \in SUBSET Nat
  BY FileTableAssumption DEF FreeFds, Fds
<1>2. \E i \in FreeFds : \A j \in FreeFds : i <= j
  BY <1>1, HasLeast
<1>3. FirstFree \in FreeFds
  BY <1>2 DEF FirstFree
<1>4. FirstFree \in Fds /\ alt_fd_list[FirstFree].dev = NoDevice
  BY <1>3 DEF FreeFds
<1>5. ASSUME NEW k \in Fds
      PROVE  /\ alt_fd_list[k].dev = NoDevice => k \notin Streams
             /\ HighWater(k) \in -1 .. MaxFd - 1 /\ k <= HighWater(k) /\ alt_max_fd <= HighWater(k)
  <2>1. "free" \notin Devices
    BY FileTableAssumption
  <2>2. k \in Streams => alt_fd_list[k].dev \in Devices
    BY DEF TableInv, EntryOK
  <2>3. k \in 0 .. MaxFd - 1 /\ alt_max_fd \in -1 .. MaxFd - 1 /\ MaxFd \in Nat
    BY FileTableAssumption DEF Fds, TableInv
  <2>4. HighWater(k) \in -1 .. MaxFd - 1 /\ k <= HighWater(k) /\ alt_max_fd <= HighWater(k)
    BY <2>3 DEF HighWater
  <2> QED BY <2>1, <2>2, <2>4 DEF NoDevice
<1> HIDE DEF FirstFree
<1> QED BY <1>4, <1>5

(* Before main every entry but the streams is free.                        *)
LEMMA SomeFree ==
  ASSUME TableInv, stage # "main"
  PROVE  FreeFds # {}
<1>1. 3 \in Fds /\ 3 \notin Streams
  BY FileTableAssumption DEF Fds, Streams
<1>2. alt_fd_list[3].dev = NoDevice
  BY <1>1 DEF TableInv, EntryOK
<1> QED BY <1>1, <1>2 DEF FreeFds

(* A step that writes one entry keeps the others as they are.              *)
LEMMA OneEntry ==
  ASSUME TableInv, NEW k \in Fds, NEW e,
         alt_fd_list' = [alt_fd_list EXCEPT ![k] = e],
         EntryOK(k, stage', e, alt_max_fd'),
         stage = "main" => stage' = "main",
         \A i \in Fds \ {k} : EntryOK(i, stage', alt_fd_list[i], alt_max_fd'),
         alt_max_fd' \in -1 .. MaxFd - 1,
         stage' \in {"sys init", "stdout", "stdin", "stderr", "main"},
         UNCHANGED <<alt_dev_list, alt_fs_list>>
  PROVE  TableInv'
<1>1. DOMAIN alt_fd_list' = Fds /\ alt_fd_list' = [i \in Fds |-> alt_fd_list'[i]]
  BY DEF TableInv
<1>2. \A i \in Fds : alt_fd_list'[i] = IF i = k THEN e ELSE alt_fd_list[i]
  BY DEF TableInv
<1>3. \A i \in Fds : EntryOK(i, stage', alt_fd_list'[i], alt_max_fd')
  BY <1>2
<1> QED BY <1>1, <1>3 DEF TableInv, EntryOK

(* alt_main stays where it is or goes on, and it is not the turn of i.     *)
GoesOn(i, now, later) ==
  \/ later = now
  \/ now = "sys init" /\ later = "stdout"
  \/ now = "stdout" /\ later = "stdin" /\ i # 1
  \/ now = "stdin" /\ later = "stderr" /\ i # 0
  \/ now = "stderr" /\ later = "main" /\ i # 2

(* Then an entry stays as it should be, and so when the mark rises.        *)
LEMMA EntryKept ==
  ASSUME NEW i \in Fds, NEW e, NEW now, NEW later, NEW mark \in Int, NEW higher \in Int,
         mark <= higher, EntryOK(i, now, e, mark), GoesOn(i, now, later)
  PROVE  EntryOK(i, later, e, higher)
<1>1. i \in Int
  BY FileTableAssumption DEF Fds
<1>2. i <= mark => i <= higher
  BY <1>1
<1> QED BY <1>2 DEF EntryOK, GoesOn

LEMMA TableStart == FileInit => TableInv
<1>1. SUFFICES ASSUME FileInit PROVE TableInv
  OBVIOUS
<1>2. ASSUME NEW i \in Fds PROVE EntryOK(i, "sys init", alt_fd_list[i], -1)
  <2>1. /\ i \in Streams => alt_fd_list[i] = [dev |-> DevNull, mode |-> "O_RDONLY", flags |-> {}]
        /\ i \notin Streams => alt_fd_list[i] = [dev |-> NoDevice, mode |-> "O_RDONLY", flags |-> {}]
    BY <1>1, <1>2 DEF FileInit, File, NoFile
  <2> QED BY <2>1, FileTableAssumption DEF EntryOK, Modes
<1>3. DOMAIN alt_fd_list = Fds /\ alt_fd_list = [i \in Fds |-> alt_fd_list[i]]
  BY <1>1 DEF FileInit
<1>4. DevNull \in Devices /\ -1 \in -1 .. MaxFd - 1
  BY FileTableAssumption
<1> QED BY <1>1, <1>2, <1>3, <1>4 DEF FileInit, TableInv

(* alt_fd_list[i] = Opened(d, ...) is as an entry should be.               *)
LEMMA OpenedOK ==
  ASSUME NEW i \in Fds \ Streams, NEW d \in Devices \cup FileSystems, NEW want \in Modes,
         NEW f \in SUBSET {"O_NONBLOCK"}, NEW mark, i <= mark
  PROVE  EntryOK(i, "main", Opened(d, want, f), mark)
<1>1. /\ Opened(d, want, f).dev = d /\ Opened(d, want, f).mode = want
      /\ Opened(d, want, f).flags = IF d \in Devices THEN f \cup {"ALT_FD_DEV"} ELSE f
      /\ Opened(d, want, f) \in [dev : Devices \cup FileSystems \cup {NoDevice}, mode : Modes,
                                   flags : SUBSET Options]
  BY DEF Opened, File, Options
<1> QED BY <1>1 DEF EntryOK, Streams

(* The JTAG UART becomes the stream whose turn it is.                      *)
LEMMA RedirectStep ==
  ASSUME TableInv, NEW from, NEW stream \in Streams, NEW want \in Modes, NEW next,
         Redirect(from, stream, want, next),
         \/ from = "stdout" /\ stream = 1 /\ want = "O_WRONLY" /\ next = "stdin"
         \/ from = "stdin" /\ stream = 0 /\ want = "O_RDONLY" /\ next = "stderr"
         \/ from = "stderr" /\ stream = 2 /\ want = "O_WRONLY" /\ next = "main"
  PROVE  TableInv'
<1> DEFINE e == Opened(Uart, want, {})
<1>1. /\ stage = from /\ stage' = next /\ stage # "main"
      /\ alt_fd_list' = [alt_fd_list EXCEPT ![stream] = e]
      /\ alt_max_fd' = HighWater(FirstFree)
      /\ UNCHANGED <<alt_dev_list, alt_fs_list>>
  BY DEF Redirect
<1>2. alt_max_fd' \in -1 .. MaxFd - 1 /\ alt_max_fd <= alt_max_fd'
  BY <1>1, SomeFree, FirstFreeIsFree
<1>3. stream \in Fds
  BY FileTableAssumption DEF Fds, Streams
<1>4. EntryOK(stream, stage', e, alt_max_fd')
  <2>1. Uart \in Devices
    BY FileTableAssumption
  <2>2. e.dev = Uart /\ e.mode = want /\ e.flags = {"ALT_FD_DEV"} /\ e \in [dev : Devices \cup FileSystems \cup {NoDevice}, mode : Modes, flags : SUBSET Options]
    BY <2>1 DEF Opened, File, Options
  <2> HIDE DEF e
  <2> QED BY <1>1, <2>1, <2>2 DEF EntryOK
<1>5. ASSUME NEW i \in Fds \ {stream} PROVE EntryOK(i, stage', alt_fd_list[i], alt_max_fd')
  <2>1. EntryOK(i, stage, alt_fd_list[i], alt_max_fd) /\ alt_max_fd \in -1 .. MaxFd - 1
    BY DEF TableInv
  <2>2. GoesOn(i, stage, stage')
    BY <1>1 DEF GoesOn
  <2>3. alt_max_fd \in Int /\ alt_max_fd' \in Int
    BY <1>2, <2>1, FileTableAssumption
  <2> QED BY <1>2, <2>1, <2>2, <2>3, EntryKept
<1> HIDE DEF e
<1>6. next \in {"sys init", "stdout", "stdin", "stderr", "main"}
  OBVIOUS
<1> QED BY <1>1, <1>2, <1>3, <1>4, <1>5, <1>6, OneEntry

(* What becomes of the entry of an open file.                              *)
LEMMA EntryChanged ==
  ASSUME TableInv, stage = "main", NEW k \in Fds, NEW e,
         alt_fd_list' = [alt_fd_list EXCEPT ![k] = e],
         EntryOK(k, "main", e, alt_max_fd'),
         alt_max_fd' \in -1 .. MaxFd - 1, alt_max_fd <= alt_max_fd',
         UNCHANGED <<stage, alt_dev_list, alt_fs_list>>
  PROVE  TableInv'
<1>1. alt_max_fd \in Int /\ alt_max_fd' \in Int
  BY FileTableAssumption DEF TableInv
<1>2. ASSUME NEW i \in Fds \ {k} PROVE EntryOK(i, stage', alt_fd_list[i], alt_max_fd')
  <2>1. EntryOK(i, stage, alt_fd_list[i], alt_max_fd) /\ GoesOn(i, stage, stage')
    BY DEF TableInv, GoesOn
  <2> QED BY <1>1, <2>1, EntryKept
<1> QED BY <1>2, OneEntry

(* open takes the first free entry, or gives it back.                      *)
LEMMA OpenStep ==
  ASSUME TableInv, NEW d \in Devices \cup FileSystems, NEW want \in Modes,
         NEW f \in SUBSET {"O_NONBLOCK"}, Open(d, want, f)
  PROVE  TableInv'
<1>1. /\ stage = "main" /\ FreeFds # {} /\ alt_max_fd' = HighWater(FirstFree)
      /\ UNCHANGED <<stage, alt_dev_list, alt_fs_list>>
      /\ \/ alt_fd_list' = [alt_fd_list EXCEPT ![FirstFree] = Opened(d, want, f)]
         \/ alt_fd_list' = Released(alt_fd_list, FirstFree)
  BY DEF Open
<1>2. PICK k \in Fds \ Streams : k = FirstFree
  BY <1>1, FirstFreeIsFree
<1>3. k <= alt_max_fd' /\ alt_max_fd <= alt_max_fd' /\ alt_max_fd' \in -1 .. MaxFd - 1
  BY <1>1, <1>2, FirstFreeIsFree
<1>4. CASE alt_fd_list' = [alt_fd_list EXCEPT ![k] = Opened(d, want, f)]
  <2>1. EntryOK(k, "main", Opened(d, want, f), alt_max_fd')
    BY <1>3, OpenedOK
  <2> QED BY <1>1, <1>3, <1>4, <2>1, EntryChanged
<1>5. CASE alt_fd_list' = Released(alt_fd_list, k)
  <2>1. k > 2
    BY FileTableAssumption DEF Fds, Streams
  <2>2. alt_fd_list' = [alt_fd_list EXCEPT ![k] = NoFile]
    BY <1>5, <2>1 DEF Released
  <2>3. EntryOK(k, "main", NoFile, alt_max_fd')
    BY DEF EntryOK, NoFile, File, Modes, Streams
  <2> QED BY <1>1, <1>3, <2>2, <2>3, EntryChanged
<1> QED BY <1>1, <1>2, <1>4, <1>5

(* close, fcntl and ioctl: the entry of the file, and nothing else.        *)
LEMMA FileStep ==
  ASSUME TableInv, NEW k \in Fds,
         CloseFile(k) \/ Lock(k) \/ Unlock(k) \/ \E f \in SUBSET {"O_NONBLOCK"} : SetFlags(k, f)
  PROVE  TableInv'
<1>1. /\ stage = "main" /\ UNCHANGED <<stage, alt_dev_list, alt_fs_list, alt_max_fd>>
      /\ EntryOK(k, "main", alt_fd_list[k], alt_max_fd) /\ k \in 0 .. MaxFd - 1
      /\ alt_max_fd \in -1 .. MaxFd - 1 /\ alt_max_fd <= alt_max_fd'
  <2>1. stage = "main" /\ UNCHANGED <<stage, alt_dev_list, alt_fs_list, alt_max_fd>>
    BY DEF CloseFile, Lock, Unlock, SetFlags, IsOpen, Ioctl
  <2>2. alt_max_fd \in -1 .. MaxFd - 1 /\ EntryOK(k, stage, alt_fd_list[k], alt_max_fd)
    BY DEF TableInv
  <2>3. alt_max_fd <= alt_max_fd /\ k \in 0 .. MaxFd - 1
    BY <2>2, FileTableAssumption DEF Fds
  <2> QED BY <2>1, <2>2, <2>3
<1>2. CASE CloseFile(k)
  <2>1. CASE k > 2
    <3>1. alt_fd_list' = [alt_fd_list EXCEPT ![k] = NoFile]
      BY <1>2, <2>1 DEF CloseFile, Released
    <3>2. EntryOK(k, "main", NoFile, alt_max_fd') /\ EntryOK(k, "main", NoFile, alt_max_fd)
      BY <2>1 DEF EntryOK, NoFile, File, Modes, Streams
    <3> QED BY <1>1, <3>1, <3>2, EntryChanged
  <2>2. CASE ~(k > 2)
    <3>1. UNCHANGED fileVars
      BY <1>1, <1>2, <2>2 DEF CloseFile, Released, fileVars
    <3> QED BY <3>1 DEF fileVars, TableInv
  <2> QED BY <2>1, <2>2
<1>3. ASSUME NEW g \in SUBSET Options,
             alt_fd_list' = [alt_fd_list EXCEPT ![k].flags = g],
             "ALT_FD_EXCL" \in g => "ALT_FD_DEV" \in g,
             "ALT_FD_DEV" \in g => "ALT_FD_DEV" \in alt_fd_list[k].flags
      PROVE  TableInv'
  <2>1. alt_fd_list' = [alt_fd_list EXCEPT ![k] = [alt_fd_list[k] EXCEPT !.flags = g]]
    BY <1>3
  <2>2. EntryOK(k, "main", [alt_fd_list[k] EXCEPT !.flags = g], alt_max_fd)
    BY <1>1, <1>3 DEF EntryOK
  <2> QED BY <1>1, <2>1, <2>2, EntryChanged
<1>4. /\ alt_fd_list[k].flags \in SUBSET Options
      /\ "ALT_FD_EXCL" \in alt_fd_list[k].flags => "ALT_FD_DEV" \in alt_fd_list[k].flags
  BY <1>1 DEF EntryOK
<1>5. CASE Lock(k)
  <2>1. /\ alt_fd_list' = [alt_fd_list EXCEPT ![k].flags = alt_fd_list[k].flags \cup {"ALT_FD_EXCL"}]
        /\ "ALT_FD_DEV" \in alt_fd_list[k].flags
    BY <1>5 DEF Lock, Ioctl
  <2>2. alt_fd_list[k].flags \cup {"ALT_FD_EXCL"} \in SUBSET Options
    BY <1>4 DEF Options
  <2> QED BY <1>3, <2>1, <2>2
<1>6. CASE Unlock(k)
  <2>1. alt_fd_list' = [alt_fd_list EXCEPT ![k].flags = alt_fd_list[k].flags \ {"ALT_FD_EXCL"}]
    BY <1>6 DEF Unlock
  <2> QED BY <1>3, <1>4, <2>1
<1>7. ASSUME NEW f \in SUBSET {"O_NONBLOCK"}, SetFlags(k, f) PROVE TableInv'
  <2>1. alt_fd_list' = [alt_fd_list EXCEPT ![k].flags = (alt_fd_list[k].flags \ {"O_NONBLOCK"}) \cup f]
    BY <1>7 DEF SetFlags
  <2>2. (alt_fd_list[k].flags \ {"O_NONBLOCK"}) \cup f \in SUBSET Options
    BY <1>4 DEF Options
  <2> QED BY <1>3, <1>4, <2>1, <2>2
<1> QED BY <1>2, <1>5, <1>6, <1>7

(* What is registered goes into the lists alone.                           *)
LEMMA RegisterStep ==
  ASSUME TableInv,
         SysInit \/ (\E d \in Devices : DevReg(d)) \/ (\E d \in FileSystems : FsReg(d))
  PROVE  TableInv'
<1>1. /\ UNCHANGED <<alt_fd_list, alt_max_fd>>
      /\ alt_dev_list' \subseteq Devices /\ alt_fs_list' \subseteq FileSystems
      /\ stage = "sys init" /\ stage' \in {"sys init", "stdout"}
  BY DEF TableInv, SysInit, DevReg, FsReg
<1>2. ASSUME NEW i \in Fds PROVE EntryOK(i, stage', alt_fd_list[i], alt_max_fd)
  <2>1. EntryOK(i, stage, alt_fd_list[i], alt_max_fd) /\ GoesOn(i, stage, stage')
    BY <1>1 DEF TableInv, GoesOn
  <2>2. alt_max_fd \in -1 .. MaxFd - 1 /\ MaxFd \in Nat
    BY FileTableAssumption DEF TableInv
  <2>3. alt_max_fd \in Int /\ alt_max_fd <= alt_max_fd
    BY <2>2
  <2> QED BY <2>1, <2>3, EntryKept
<1> QED BY <1>1, <1>2 DEF TableInv

LEMMA TableStep == TableInv /\ [FileNext]_fileVars => TableInv'
<1>1. SUFFICES ASSUME TableInv, [FileNext]_fileVars PROVE TableInv'
  OBVIOUS
<1>2. CASE SysInit \/ (\E d \in Devices : DevReg(d)) \/ (\E d \in FileSystems : FsReg(d))
  BY <1>1, <1>2, RegisterStep
<1>3. CASE \/ Redirect("stdout", 1, "O_WRONLY", "stdin")
           \/ Redirect("stdin", 0, "O_RDONLY", "stderr")
           \/ Redirect("stderr", 2, "O_WRONLY", "main")
  <2>1. 0 \in Streams /\ 1 \in Streams /\ 2 \in Streams /\ "O_RDONLY" \in Modes /\ "O_WRONLY" \in Modes
    BY DEF Streams, Modes
  <2> QED BY <1>1, <1>3, <2>1, RedirectStep
<1>4. CASE \E d \in Devices \cup FileSystems, want \in Modes, f \in SUBSET {"O_NONBLOCK"} :
             Open(d, want, f)
  BY <1>1, <1>4, OpenStep
<1>5. CASE \E i \in Fds, f \in SUBSET {"O_NONBLOCK"} : SetFlags(i, f)
  BY <1>1, <1>5, FileStep
<1>6. CASE \E i \in Fds : CloseFile(i) \/ Lock(i) \/ Unlock(i)
  BY <1>1, <1>6, FileStep
<1>7. CASE UNCHANGED fileVars
  BY <1>1, <1>7 DEF fileVars, TableInv
<1> QED BY <1>1, <1>2, <1>3, <1>4, <1>5, <1>6, <1>7 DEF FileNext

(* No file is open above the mark, where the searches would miss it.       *)
THEOREM FilesBelowMark == FileSpec => []FileInv
BY TableStart, TableStep, TableType, PTL DEF FileSpec

(* printf reaches the JTAG UART whatever is opened, closed and locked.     *)
THEOREM StreamsReachUart == FileSpec => []StreamsStay
BY TableStart, TableStep, TableType, PTL DEF FileSpec

(* A device that is locked is opened by nobody else.                       *)
THEOREM LockedIsAlone == FileSpec => LockKeepsOut
<1>1. ASSUME TableInv, [FileNext]_fileVars, NEW i \in Fds,
             "ALT_FD_EXCL" \in alt_fd_list[i].flags, "ALT_FD_EXCL" \in alt_fd_list'[i].flags
      PROVE  \A j \in Fds : alt_fd_list'[j].dev = alt_fd_list'[i].dev => alt_fd_list[j].dev = alt_fd_list[i].dev
  <2>1. stage = "main" /\ alt_fd_list[i].dev \in Devices
    BY <1>1 DEF TableInv, EntryOK
  <2>2. DOMAIN alt_fd_list = Fds /\ \A j \in Fds : EntryOK(j, stage, alt_fd_list[j], alt_max_fd)
    BY <1>1 DEF TableInv
  <2>3. CASE UNCHANGED fileVars
    BY <2>3 DEF fileVars
  <2>4. CASE \E d \in Devices \cup FileSystems, want \in Modes, f \in SUBSET {"O_NONBLOCK"} :
               Open(d, want, f)
    <3>1. PICK d \in Devices \cup FileSystems, want \in Modes, f \in SUBSET {"O_NONBLOCK"} :
                 Open(d, want, f)
      BY <2>4
    <3>2. PICK k \in Fds \ Streams : k = FirstFree
      BY <1>1, <3>1, FirstFreeIsFree DEF Open
    <3>3. /\ alt_fd_list[k].dev = NoDevice /\ alt_max_fd \in Int
          /\ k <= HighWater(k) /\ alt_max_fd <= HighWater(k) /\ HighWater(k) \in Int
      BY <1>1, <3>1, <3>2, FirstFreeIsFree, FileTableAssumption DEF Open, TableInv
    <3>4. i # k /\ i \in 0 .. HighWater(k)
      <4>1. i # k
        BY <2>1, <3>3, FileTableAssumption DEF NoDevice
      <4>2. i \in Int /\ 0 <= i /\ k \in Int /\ k > 2
        BY <3>2, FileTableAssumption DEF Fds, Streams
      <4>3. i \in Streams \/ i <= alt_max_fd
        BY <2>1, <2>2, FileTableAssumption DEF EntryOK, NoDevice
      <4> QED BY <3>3, <4>1, <4>2, <4>3 DEF Streams
    <3>5. CASE /\ d \in Devices => ~Locked(d, k)
               /\ alt_fd_list' = [alt_fd_list EXCEPT ![k] = Opened(d, want, f)]
      <4>1. d # alt_fd_list[i].dev
        BY <1>1, <2>1, <3>4, <3>5 DEF Locked
      <4>2. Opened(d, want, f).dev = d
        BY DEF Opened, File
      <4> QED BY <2>2, <3>4, <3>5, <4>1, <4>2
    <3>6. CASE alt_fd_list' = Released(alt_fd_list, k)
      <4>1. k > 2
        BY <3>2, FileTableAssumption DEF Fds, Streams
      <4>2. alt_fd_list' = [alt_fd_list EXCEPT ![k] = NoFile] /\ NoFile.dev = NoDevice
        BY <3>6, <4>1 DEF Released, NoFile, File
      <4>3. alt_fd_list[i].dev # NoDevice
        BY <2>1, FileTableAssumption DEF NoDevice
      <4> QED BY <2>2, <3>4, <4>2, <4>3
    <3> QED BY <3>1, <3>2, <3>5, <3>6 DEF Open
  <2>5. ASSUME NEW k \in Fds, CloseFile(k)
        PROVE  \A j \in Fds : alt_fd_list'[j].dev = alt_fd_list'[i].dev => alt_fd_list[j].dev = alt_fd_list[i].dev
    <3>1. alt_fd_list' = alt_fd_list \/ alt_fd_list' = [alt_fd_list EXCEPT ![k] = NoFile]
      BY <2>5 DEF CloseFile, Released
    <3>2. NoFile.dev = NoDevice /\ NoFile.flags = {} /\ alt_fd_list[i].dev # NoDevice
      BY <2>1, FileTableAssumption DEF NoFile, File, NoDevice
    <3> QED BY <1>1, <2>2, <3>1, <3>2
  <2>6. ASSUME NEW k \in Fds,
               Lock(k) \/ Unlock(k) \/ \E f \in SUBSET {"O_NONBLOCK"} : SetFlags(k, f)
        PROVE  \A j \in Fds : alt_fd_list'[j].dev = alt_fd_list[j].dev
    <3>1. PICK g : alt_fd_list' = [alt_fd_list EXCEPT ![k].flags = g]
      BY <2>6 DEF Lock, Unlock, SetFlags
    <3>2. alt_fd_list[k] \in [dev : Devices \cup FileSystems \cup {NoDevice}, mode : Modes, flags : SUBSET Options]
      BY <2>2 DEF EntryOK
    <3> QED BY <2>2, <3>1, <3>2
  <2>7. CASE SysInit \/ (\E d \in Devices : DevReg(d)) \/ (\E d \in FileSystems : FsReg(d))
    BY <2>7 DEF SysInit, DevReg, FsReg
  <2>8. CASE \/ Redirect("stdout", 1, "O_WRONLY", "stdin")
             \/ Redirect("stdin", 0, "O_RDONLY", "stderr")
             \/ Redirect("stderr", 2, "O_WRONLY", "main")
    BY <2>1, <2>8 DEF Redirect
  <2> QED BY <1>1, <2>3, <2>4, <2>5, <2>6, <2>7, <2>8 DEF FileNext
<1>2. ASSUME TableInv, [FileNext]_fileVars
      PROVE  \A i \in Fds : "ALT_FD_EXCL" \in alt_fd_list[i].flags /\ "ALT_FD_EXCL" \in alt_fd_list'[i].flags =>
               Users(alt_fd_list[i].dev)' \subseteq Users(alt_fd_list[i].dev)
  BY <1>1, <1>2 DEF Users
<1> QED BY <1>2, TableStart, TableStep, PTL DEF FileSpec, LockKeepsOut

-----------------------------------------------------------------------------
(* The interrupts.                                                         *)

(* Where both words of an entry of alt_irq are the same, and where an      *)
(* interrupt that is enabled has a routine.                                *)
Consistent(i) == context[i] = handler[i]
Served(i) == i \in ienable => handler[i] # "NULL"

(* The routine the program is exchanging may be half there, but then       *)
(* interrupts are off.                                                     *)
TableOK ==
  /\ step # "run" => ~pie
  /\ step \in {"mask", "enable"} => ~inner
  /\ \A i \in Irqs : (step = "context" /\ i = id) \/ Consistent(i)
  /\ \A i \in Irqs : (step \in {"context", "disable", "mask"} /\ i = id) \/ Served(i)
  /\ step \in {"context", "disable", "mask"} => handler[id] = new

(* The line of a device that asks for nothing is up only until the         *)
(* exception ends, and the exception has something pending.                *)
IntrInv ==
  /\ IntrTypeOK
  /\ TableOK
  /\ isr = "none" \/ step = "run"
  /\ isr \in {"call", "serve", "again"} => serving \in ienable
  /\ line \subseteq wants \cup ienable
  /\ isr \in {"none", "test", "first"} => line \subseteq wants
  /\ isr \in {"test", "first"} => Pending # {}
  /\ NeverLost

LEMMA IntrStart == IntrInit => IntrInv
<1>1. 0 \in Irqs
  BY HalInterruptsAssumption DEF Irqs
<1> QED BY <1>1 DEF IntrInit, IntrInv, TableOK, IntrTypeOK, Consistent, Served, Entries, Irqs, NeverLost

LEMMA LowestIsPending ==
  ASSUME IntrTypeOK, Pending # {}
  PROVE  Lowest(Pending) \in Pending
<1>1. Pending \in SUBSET Nat
  BY HalInterruptsAssumption DEF Pending, IntrTypeOK, Irqs
<1>2. \E i \in Pending : \A j \in Pending : i <= j
  BY <1>1, HasLeast
<1> QED BY <1>2 DEF Lowest

LEMMA RegisteringStep ==
  ASSUME IntrInv, Registering \/ \E i \in Irqs : \E r \in Entries : Register(i, r)
  PROVE  IntrInv'
<1>1. isr = "none" /\ UNCHANGED <<isr, serving, wants, line>> /\ IntrTypeOK /\ line \subseteq wants
  BY DEF IntrInv, Registering, Register, SetHandler, SetContext, DisableAll, Mask, EnableAll, At
<1>2. SUFFICES IntrTypeOK' /\ TableOK'
  BY <1>1 DEF IntrInv, NeverLost
<1>3. ASSUME NEW i \in Irqs, NEW r \in Entries, Register(i, r) PROVE IntrTypeOK' /\ TableOK'
  <2>1. IntrTypeOK'
    BY <1>1, <1>3 DEF IntrTypeOK, Register, At, tableVars
  <2> QED BY <2>1, <1>3 DEF IntrInv, TableOK, Register, At, Consistent, Served, tableVars
<1>4. CASE SetHandler
  <2>1. IntrTypeOK'
    BY <1>1, <1>4 DEF IntrTypeOK, SetHandler, At, tableVars
  <2>2. TableOK'
    BY <1>1, <1>4 DEF IntrInv, IntrTypeOK, TableOK, SetHandler, At, Consistent, Served, tableVars
  <2> QED BY <2>1, <2>2
<1>5. CASE SetContext
  <2>1. IntrTypeOK'
    BY <1>1, <1>5 DEF IntrTypeOK, SetContext, At, tableVars
  <2>2. TableOK'
    BY <1>1, <1>5 DEF IntrInv, IntrTypeOK, TableOK, SetContext, At, Consistent, Served, tableVars
  <2> QED BY <2>1, <2>2
<1>6. CASE DisableAll
  <2>1. IntrTypeOK'
    BY <1>1, <1>6 DEF IntrTypeOK, DisableAll, At, tableVars
  <2>2. TableOK'
    BY <1>1, <1>6 DEF IntrInv, IntrTypeOK, TableOK, DisableAll, At, Consistent, Served, tableVars
  <2> QED BY <2>1, <2>2
<1>7. CASE Mask
  <2>1. IntrTypeOK'
    BY <1>1, <1>7 DEF IntrTypeOK, Mask, At, tableVars
  <2>2. TableOK'
    BY <1>1, <1>7 DEF IntrInv, IntrTypeOK, TableOK, Mask, At, Consistent, Served, tableVars
  <2> QED BY <2>1, <2>2
<1>8. CASE EnableAll("enable", "restore", inner)
  <2>1. IntrTypeOK'
    BY <1>1, <1>8 DEF IntrTypeOK, EnableAll, At, tableVars
  <2>2. TableOK'
    BY <1>1, <1>8 DEF IntrInv, IntrTypeOK, TableOK, EnableAll, At, Consistent, Served, tableVars
  <2> QED BY <2>1, <2>2
<1>9. CASE EnableAll("restore", "run", status)
  <2>1. IntrTypeOK'
    BY <1>1, <1>9 DEF IntrTypeOK, EnableAll, At, tableVars
  <2>2. TableOK'
    BY <1>1, <1>9 DEF IntrInv, IntrTypeOK, TableOK, EnableAll, At, Consistent, Served, tableVars
  <2> QED BY <2>1, <2>2
<1> QED BY <1>3, <1>4, <1>5, <1>6, <1>7, <1>8, <1>9 DEF Registering

LEMMA ExceptionStep ==
  ASSUME IntrInv, Exception
  PROVE  IntrInv'
<1>1. /\ IntrTypeOK /\ UNCHANGED <<ienable, tableVars, progVars>>
  BY DEF IntrInv, Exception, TakeInterrupt, TestPending, FirstPending, CallHandler, HandlerReturns,
         AnyMore, Goes
<1>2. UNCHANGED <<ienable, handler, context, step, id, new, status, inner>>
  BY <1>1 DEF tableVars, progVars
<1>3. Pending # {} => Lowest(Pending) \in Pending /\ Lowest(Pending) \in Irqs
  BY <1>1, LowestIsPending DEF Pending, IntrTypeOK
<1>4. CASE TakeInterrupt
  BY <1>1, <1>2, <1>4 DEF IntrInv, TableOK, IntrTypeOK, TakeInterrupt, Goes, Consistent, Served, NeverLost, Pending
<1>5. CASE TestPending
  BY <1>1, <1>2, <1>5 DEF IntrInv, TableOK, IntrTypeOK, TestPending, Goes, Consistent, Served, NeverLost, Pending
<1>6. CASE FirstPending
  <2> HIDE DEF Lowest
  <2> QED BY <1>1, <1>2, <1>3, <1>6 DEF IntrInv, TableOK, IntrTypeOK, FirstPending, Goes, Consistent, Served, NeverLost, Pending
<1>7. CASE CallHandler
  BY <1>1, <1>2, <1>7 DEF IntrInv, TableOK, IntrTypeOK, CallHandler, Consistent, Served, NeverLost, Pending
<1>8. CASE HandlerReturns
  BY <1>1, <1>2, <1>8 DEF IntrInv, TableOK, IntrTypeOK, HandlerReturns, Goes, Consistent, Served, NeverLost, Pending
<1>9. CASE AnyMore
  BY <1>1, <1>2, <1>3, <1>9 DEF IntrInv, TableOK, IntrTypeOK, AnyMore, Goes, Consistent, Served, NeverLost, Pending
<1> QED BY <1>4, <1>5, <1>6, <1>7, <1>8, <1>9 DEF Exception

LEMMA DeviceStep ==
  ASSUME IntrInv, NEW i \in Irqs, Raise(i) \/ LineFollows(i)
  PROVE  IntrInv'
<1>1. UNCHANGED <<pie, ienable, handler, context, step, id, new, status, inner, isr, serving>>
  BY DEF Raise, LineFollows, tableVars, progVars
<1>2. CASE Raise(i)
  BY <1>1, <1>2 DEF IntrInv, TableOK, IntrTypeOK, Raise, Consistent, Served, NeverLost, Pending
<1>3. CASE LineFollows(i)
  <2>1. /\ i \in wants => line' = line \cup {i} /\ wants' = wants
        /\ i \notin wants => line' = line \ {i} /\ wants' = wants /\ i \in line
    BY <1>3 DEF LineFollows
  <2> QED BY <1>1, <2>1 DEF IntrInv, TableOK, IntrTypeOK, Consistent, Served, NeverLost, Pending
<1> QED BY <1>2, <1>3

LEMMA IntrStep == IntrInv /\ [IntrNext]_intrVars => IntrInv'
<1>1. SUFFICES ASSUME IntrInv, [IntrNext]_intrVars PROVE IntrInv'
  OBVIOUS
<1>2. CASE UNCHANGED intrVars
  BY <1>1, <1>2 DEF intrVars, tableVars, progVars, IntrInv, TableOK, IntrTypeOK, Consistent, Served,
                    NeverLost, Pending
<1> QED BY <1>1, <1>2, RegisteringStep, ExceptionStep, DeviceStep DEF IntrNext

(* Dispatcher, tables and devices keep to their types.                     *)
THEOREM InterruptTypes == IntrSpec => []IntrTypeOK
<1>1. IntrInv => IntrTypeOK
  BY DEF IntrInv
<1> QED BY <1>1, IntrStart, IntrStep, PTL DEF IntrSpec

(* Whatever comes and goes while the exception is served, it finds the     *)
(* interrupt it has been raised for, and only a routine that has been      *)
(* registered is called, with its own context.                             *)
THEOREM ServedAsRegistered == IntrSpec => []ServedRight
<1>1. IntrInv => ServedRight
  BY DEF IntrInv, TableOK, IntrTypeOK, ServedRight, CallsRegistered, NeverLost, Consistent, Served
<1> QED BY <1>1, IntrStart, IntrStep, PTL DEF IntrSpec

-----------------------------------------------------------------------------
(* The time of day.                                                        *)

TickMicros == US \div Rate    \* microseconds in a tick

(* The tick rate divides the second.                                       *)
TicksFillSeconds == US % Rate = 0

LEMMA TickSizes ==
  ASSUME TicksFillSeconds
  PROVE  Rate \in Nat \ {0} /\ TickMicros \in Nat \ {0} /\ US \in Nat \ {0} /\ US = Rate * TickMicros
<1>1. Rate \in Nat \ {0} /\ US \in Nat \ {0} /\ Rate <= US
  BY WallClockAssumption
<1>2. ASSUME NEW n \in Nat \ {0}, NEW d \in Nat \ {0}, d <= n, n % d = 0
      PROVE  n \div d \in Nat \ {0} /\ n = d * (n \div d)
  BY <1>2, Z3
<1> QED BY <1>1, <1>2 DEF TickMicros, TicksFillSeconds

(* The seconds and the microseconds the program takes out of the ticks     *)
(* apart from each other are those ticks.                                  *)
LEMMA TicksSplit ==
  ASSUME TicksFillSeconds, NEW n \in Nat
  PROVE  /\ n \div Rate \in Nat /\ n * TickMicros \in Nat
         /\ (n * TickMicros) % US \in 0 .. US - 1
         /\ n * TickMicros = (n \div Rate) * US + ((n * TickMicros) % US)
<1> DEFINE q == n \div Rate   r == n - q * Rate
<1>1. ASSUME NEW d \in Nat \ {0}
      PROVE  n \div d \in Nat /\ (n \div d) * d <= n /\ n < (n \div d) * d + d
  BY <1>1, Z3
<1>2. q \in Nat /\ r \in 0 .. Rate - 1 /\ n = q * Rate + r
  <2>1. q \in Nat /\ q * Rate <= n /\ n < q * Rate + Rate
    BY <1>1, TickSizes
  <2>2. \A a, b \in Nat : a * b \in Nat
    BY Z3
  <2> HIDE DEF q
  <2> QED BY <2>1, <2>2, TickSizes
<1> HIDE DEF q, r
<1>3. \A a, b, c, d \in Nat : (a * b + c) * d = a * (b * d) + c * d
  BY Z3
<1>4. n * TickMicros = q * US + r * TickMicros
  BY <1>2, <1>3, TickSizes
<1>5. \A a, b, d \in Nat : a < b /\ d > 0 => a * d < b * d /\ a * d \in Nat
  BY Z3
<1>6. r * TickMicros \in 0 .. US - 1 /\ q * US \in Nat
  <2>1. \A a, b \in Nat : a * b \in Nat
    BY Z3
  <2> QED BY <1>2, <1>5, <2>1, TickSizes
<1>7. ASSUME NEW a \in Nat, NEW b \in Nat, NEW d \in Nat, b < d
      PROVE  (a * d + b) % d = b
  BY <1>7, Z3
<1>8. (n * TickMicros) % US = r * TickMicros
  <2>1. r * TickMicros \in Nat /\ r * TickMicros < US
    BY <1>6, TickSizes
  <2>2. (q * US + r * TickMicros) % US = r * TickMicros
    BY <1>2, <1>7, <2>1, TickSizes
  <2> QED BY <1>4, <2>2
<1>9. (n * TickMicros) % US \in 0 .. US - 1
  BY <1>6, <1>8
<1>10. n * TickMicros = q * US + ((n * TickMicros) % US)
  BY <1>4, <1>8, Zenon
<1>11. n * TickMicros \in Nat
  <2>1. r * TickMicros \in Nat /\ q * US \in Nat
    BY <1>6, TickSizes
  <2> QED BY <1>4, <2>1
<1> QED BY <1>2, <1>9, <1>10, <1>11 DEF q

(* The time the correction and the ticks stand for.                        *)
Meaning == Micros(alt_resettime) + alt_nticks * TickMicros

WallInv ==
  /\ WallTypeOK
  /\ tick_rate = 0 => alt_nticks = 0 /\ alt_resettime = Time(0, 0)
  /\ Meaning >= 0

LEMMA WallParts ==
  ASSUME TicksFillSeconds, WallInv
  PROVE  /\ alt_nticks \in Nat /\ alt_nticks * TickMicros \in Nat
         /\ Micros(alt_resettime) \in Int /\ Meaning \in Nat
<1>1. alt_nticks \in Nat /\ alt_resettime.tv_sec \in Int /\ alt_resettime.tv_usec \in Int
  BY WallClockAssumption DEF WallInv, WallTypeOK
<1>2. \A a \in Int, b \in Nat : a * b \in Int
  OBVIOUS
<1>3. Micros(alt_resettime) \in Int
  BY <1>1, <1>2, TickSizes DEF Micros
<1> QED BY <1>1, <1>3, TicksSplit DEF Meaning, WallInv

(* gettimeofday shows that time: the corrections of the microseconds carry *)
(* over to the seconds, and it is never less than none.                    *)
LEMMA Shown ==
  ASSUME TicksFillSeconds, WallInv, tick_rate # 0
  PROVE  Micros(TimeOfDay) = Meaning
<1> DEFINE q == alt_nticks \div Rate   r == (alt_nticks * TickMicros) % US
           s == alt_resettime.tv_sec + q   u == alt_resettime.tv_usec + r
<1>1. /\ alt_nticks \in Nat /\ alt_resettime.tv_sec \in Int
      /\ alt_resettime.tv_usec \in 1 - US .. US - 1 /\ tick_rate = Rate
  BY WallClockAssumption DEF WallInv, WallTypeOK
<1>2. q \in Nat /\ r \in 0 .. US - 1 /\ alt_nticks * TickMicros = q * US + r
  BY <1>1, TicksSplit, Zenon
<1>4. TimeOfDay = CASE u < 0 /\ s <= 0 -> Time(0, 0)
                    [] u < 0 /\ s > 0  -> Time(s - 1, u + US)
                    [] u >= US         -> Time(s + 1, u - US)
                    [] OTHER           -> Time(s, u)
  BY <1>1, Zenon DEF TimeOfDay, TickMicros
<1> HIDE DEF q, r
<1>11. s \in Int /\ u \in 1 - US .. 2 * US - 2
  BY <1>1, <1>2, TickSizes
<1>3. s * US + u = Meaning
  <2>1. \A a, b \in Int, c \in Nat : (a + b) * c = a * c + b * c /\ a * c \in Int /\ b * c \in Int
    BY Z3
  <2>2. Meaning = alt_resettime.tv_sec * US + alt_resettime.tv_usec + (q * US + r)
    BY <1>2, Zenon DEF Meaning, Micros
  <2> QED BY <1>1, <1>2, <2>1, <2>2, TickSizes
<1>5. Meaning >= 0
  BY DEF WallInv
<1> HIDE DEF s, u
<1>6. /\ (s - 1) * US + (u + US) = s * US + u
      /\ (s + 1) * US + (u - US) = s * US + u
      /\ s <= 0 => s * US <= 0
      /\ s * US \in Int
  <2>1. \A a, b \in Int : \A c \in Nat :
          /\ (a - 1) * c + (b + c) = a * c + b /\ (a + 1) * c + (b - c) = a * c + b
          /\ (a <= 0 => a * c <= 0) /\ a * c \in Int
    BY Z3
  <2>2. u \in Int /\ US \in Nat
    BY <1>11, TickSizes
  <2> QED BY <1>11, <2>1, <2>2
<1>7. ~(u < 0 /\ s <= 0)
  BY <1>11, <1>3, <1>5, <1>6
<1>8. CASE u < 0
  <2>1. TimeOfDay = Time(s - 1, u + US)
    <3>1. u < 0 /\ s > 0 /\ ~(s <= 0) /\ ~(u >= US)
      BY <1>11, <1>7, <1>8, TickSizes
    <3> QED BY <1>4, <3>1
  <2> QED BY <1>3, <1>6, <2>1 DEF Micros, Time
<1>9. CASE u >= US
  <2>1. TimeOfDay = Time(s + 1, u - US)
    BY <1>11, <1>4, <1>7, <1>9, TickSizes
  <2> QED BY <1>3, <1>6, <2>1 DEF Micros, Time
<1>10. CASE 0 <= u /\ u < US
  <2>1. TimeOfDay = Time(s, u)
    BY <1>11, <1>4, <1>10, TickSizes
  <2> QED BY <1>3, <2>1 DEF Micros, Time
<1> QED BY <1>11, <1>8, <1>9, <1>10, TickSizes

LEMMA WallStart ==
  ASSUME TicksFillSeconds
  PROVE  WallInit => WallInv
<1>1. WallInit => Meaning = 0
  BY TickSizes DEF WallInit, Meaning, Micros, Time
<1> QED BY <1>1, TickSizes, WallClockAssumption DEF WallInit, WallInv, WallTypeOK, Time

LEMMA StartsKeep ==
  ASSUME TicksFillSeconds, WallInv, ClockStarts
  PROVE  WallInv' /\ Meaning = 0 /\ Meaning' = 0 /\ tick_rate' # 0
<1>1. alt_nticks = 0 /\ alt_resettime = Time(0, 0) /\ UNCHANGED <<alt_nticks, alt_resettime>>
      /\ tick_rate' = Rate
  BY DEF ClockStarts, WallInv
<1>2. Meaning = 0 /\ Meaning' = 0
  BY <1>1, TickSizes DEF Meaning, Micros, Time
<1> QED BY <1>1, <1>2, TickSizes DEF WallInv, WallTypeOK

LEMMA TicksKeep ==
  ASSUME TicksFillSeconds, WallInv, ClockTicks
  PROVE  WallInv' /\ Meaning' = Meaning + TickMicros /\ tick_rate' # 0
<1>1. /\ alt_nticks' = alt_nticks + 1 /\ alt_nticks < Uptime
      /\ tick_rate # 0 /\ UNCHANGED <<tick_rate, alt_resettime>>
  BY DEF ClockTicks
<1>2. (alt_nticks + 1) * TickMicros = alt_nticks * TickMicros + TickMicros
  <2>1. \A a, b \in Nat : (a + 1) * b = a * b + b
    BY Z3
  <2> QED BY <2>1, WallParts, TickSizes
<1>3. Meaning' = Meaning + TickMicros
  BY <1>1, <1>2, WallParts, TickSizes DEF Meaning, Micros
<1>4. Meaning' >= 0
  BY <1>3, WallParts, TickSizes
<1>5. WallTypeOK'
  BY <1>1, WallParts, WallClockAssumption DEF WallInv, WallTypeOK
<1> QED BY <1>1, <1>3, <1>4, <1>5 DEF WallInv

(* settimeofday: 32 bits hold the product, so what is taken off is what    *)
(* gettimeofday adds.                                                      *)
LEMMA SetKeeps ==
  ASSUME TicksFillSeconds, WallInv, NEW t \in Settings, SetTime(t)
  PROVE  WallInv' /\ Meaning' = Micros(t) /\ tick_rate' # 0
<1> DEFINE q == alt_nticks \div Rate   r == (alt_nticks * TickMicros) % US
<1>1. /\ tick_rate # 0 /\ tick_rate = Rate /\ UNCHANGED <<tick_rate, alt_nticks>>
      /\ alt_nticks \in Nat /\ alt_nticks <= LastSet
  BY DEF SetTime, WallInv, WallTypeOK
<1>2. alt_nticks * TickMicros \in Nat /\ alt_nticks * TickMicros < Modulus
  <2>1. \A a, b, c \in Nat : a <= b => a * c <= b * c /\ b * c \in Nat
    BY Z3
  <2> QED BY <1>1, <2>1, WallParts, TickSizes, WallClockAssumption DEF TickMicros
<1>3. (alt_nticks * TickMicros) % Modulus = alt_nticks * TickMicros
  BY <1>2, WallClockAssumption
<1>4. alt_resettime' = Time(t.tv_sec - q, t.tv_usec - r)
  BY <1>1, <1>3 DEF SetTime, TickMicros
<1>5. q \in Nat /\ r \in 0 .. US - 1 /\ alt_nticks * TickMicros = q * US + r
  BY TicksSplit, WallParts, Zenon
<1> HIDE DEF q, r
<1>6. t.tv_sec \in Nat /\ t.tv_usec \in 0 .. US - 1
  BY WallClockAssumption DEF Settings, Time
<1>7. /\ alt_resettime'.tv_sec = t.tv_sec - q
      /\ alt_resettime'.tv_usec = t.tv_usec - r
  BY <1>4 DEF Time
<1>8. WallTypeOK'
  BY <1>1, <1>5, <1>6, <1>7, TickSizes DEF WallInv, WallTypeOK
<1>9. Meaning' = Micros(t) /\ Micros(t) \in Nat
  <2>1. \A a, b, c \in Nat : (a - b) * c = a * c - b * c /\ a * c \in Nat /\ b * c \in Nat
    BY Z3
  <2>2. Meaning' = (t.tv_sec - q) * US + (t.tv_usec - r) + (q * US + r)
    BY <1>1, <1>5, <1>7 DEF Meaning, Micros
  <2> QED BY <1>5, <1>6, <2>1, <2>2, TickSizes DEF Micros
<1> QED BY <1>1, <1>8, <1>9 DEF WallInv

LEMMA WallStep ==
  ASSUME TicksFillSeconds
  PROVE  WallInv /\ [WallNext]_clockVars => WallInv'
<1>1. WallInv /\ UNCHANGED clockVars => WallInv'
  BY DEF clockVars, WallInv, WallTypeOK, Meaning, Micros
<1> QED BY <1>1, StartsKeep, TicksKeep, SetKeeps DEF WallNext

(* Where the tick rate divides the second, whatever the rate and the width *)
(* of a word: settimeofday, while a word still holds the microseconds, and *)
(* gettimeofday, at any time, are the ideal clock.                         *)
THEOREM ClockKeepsTime ==
  ASSUME TicksFillSeconds
  PROVE  WallSpec => KeepsTime
<1> DEFINE shown == IF tick_rate = 0 THEN -1 ELSE Micros(TimeOfDay)
<1>1. WallInit => IdealWall!ClockInit
  BY DEF WallInit, IdealWall!ClockInit
<1>2. ASSUME WallInv
      PROVE  shown = IF tick_rate = 0 THEN -1 ELSE Meaning
  BY <1>2, Shown
<1>3. ASSUME WallInv, WallInv'
      PROVE  shown' = IF tick_rate' = 0 THEN -1 ELSE Meaning'
  <2>1. (WallInv /\ tick_rate # 0 => Micros(TimeOfDay) = Meaning)'
    BY Shown, PTL
  <2>2. WallInv' /\ tick_rate' # 0 => Micros(TimeOfDay)' = Meaning'
    BY <2>1
  <2> QED BY <1>3, <2>2
<1>4. WallInv /\ WallInv' /\ [WallNext]_clockVars =>
        [IdealWall!StartAtZero \/ IdealWall!Advance
         \/ \E t \in {Micros(t) : t \in Settings} : IdealWall!SetTo(t)]_shown
  <2>1. SUFFICES ASSUME WallInv, WallInv', [WallNext]_clockVars
                 PROVE  [IdealWall!StartAtZero \/ IdealWall!Advance
                         \/ \E t \in {Micros(t) : t \in Settings} : IdealWall!SetTo(t)]_shown
    OBVIOUS
  <2>2. /\ shown = IF tick_rate = 0 THEN -1 ELSE Meaning
        /\ shown' = IF tick_rate' = 0 THEN -1 ELSE Meaning'
        /\ Meaning >= 0 /\ Meaning \in Nat
    BY <1>2, <1>3, <2>1, WallParts DEF WallInv
  <2>3. CASE UNCHANGED clockVars
    BY <2>3 DEF clockVars, TimeOfDay, Micros
  <2>4. CASE ClockStarts
    <3>1. IdealWall!StartAtZero
      BY <2>1, <2>2, <2>4, StartsKeep DEF IdealWall!StartAtZero, ClockStarts
    <3> QED BY <3>1
  <2>5. CASE ClockTicks
    <3>1. IdealWall!Advance
      BY <2>1, <2>2, <2>5, TicksKeep DEF IdealWall!Advance, ClockTicks, TickMicros
    <3> QED BY <3>1
  <2>6. ASSUME NEW t \in Settings, SetTime(t)
        PROVE  \E x \in {Micros(y) : y \in Settings} : IdealWall!SetTo(x)
    <3>1. IdealWall!SetTo(Micros(t))
      BY <2>1, <2>2, <2>6, SetKeeps DEF IdealWall!SetTo, SetTime
    <3> QED BY <3>1
  <2> QED BY <2>1, <2>3, <2>4, <2>5, <2>6 DEF WallNext
<1> QED BY <1>1, <1>4, WallStart, WallStep, PTL DEF WallSpec, KeepsTime, IdealWall!ClockSpec

-----------------------------------------------------------------------------
(* The sleep.                                                              *)

(* A turn's microseconds and a big loop's are whole numbers, and a big     *)
(* loop counts up to INT_MAX but for less than a microsecond's turns.      *)
LEMMA LoopSizes ==
  /\ LargestInt \in Nat \ {0}
  /\ PerMicrosecond \in Nat \ {0} /\ PerMicrosecond <= LargestInt
  /\ BigLoop \in Nat \ {0}
  /\ BigLoop * PerMicrosecond <= LargestInt
  /\ LargestInt < BigLoop * PerMicrosecond + PerMicrosecond
<1>1. /\ LargestInt \in Nat \ {0}
      /\ PerMicrosecond \in Nat \ {0} /\ PerMicrosecond <= LargestInt
  BY BusySleepAssumption DEF PerMicrosecond, cycles_per_loop
<1>2. ASSUME NEW n \in Nat \ {0}, NEW d \in Nat \ {0}, d <= n
      PROVE  n \div d \in Nat \ {0} /\ (n \div d) * d <= n /\ n < (n \div d) * d + d
  BY <1>2, Z3
<1> QED BY <1>1, <1>2 DEF BigLoop

(* The whole big loops of a sleep and what is over.                        *)
LEMMA BigLoops ==
  ASSUME NEW t \in Nat
  PROVE  /\ t \div BigLoop \in 0 .. t
         /\ (t \div BigLoop) * BigLoop <= t
         /\ t < (t \div BigLoop) * BigLoop + BigLoop
<1>1. ASSUME NEW d \in Nat \ {0}
      PROVE  /\ t \div d \in 0 .. t /\ (t \div d) * d <= t
             /\ t < (t \div d) * d + d
  BY <1>1, Z3
<1> QED BY <1>1, LoopSizes

LEMMA TimesMonotone ==
  ASSUME NEW a \in Nat, NEW b \in Nat, NEW c \in Nat, a <= b
  PROVE  a * c <= b * c /\ c * a <= c * b /\ a * c \in Nat /\ a * c = c * a
BY Z3

(* What a sleep has behind it at the head of each loop.                    *)
Done == (asked \div BigLoop) - big_loops   \* big loops behind it

SleepInv ==
  /\ SleepTypeOK
  /\ loop = "big" => /\ big_loops > 0 /\ big_loops <= asked \div BigLoop
                     /\ us = asked - Done * BigLoop /\ loops = Done * LargestInt
  /\ loop = "rest" => /\ big_loops = 0
                      /\ us = asked - Done * BigLoop /\ loops = Done * LargestInt
  /\ loop = "only" => us = asked /\ asked < BigLoop /\ loops = 0

LEMMA SleepStart == SleepInit => SleepInv
BY DEF SleepInit, SleepInv, SleepTypeOK

LEMMA SleepCall ==
  ASSUME SleepInv, NEW t \in Times, Sleep(t)
  PROVE  SleepInv'
<1> DEFINE n == t \div BigLoop
<1>1. t \in Nat /\ n \in 0 .. t /\ n * BigLoop <= t /\ t < n * BigLoop + BigLoop
  BY BigLoops, BusySleepAssumption
<1>2. /\ asked' = t /\ us' = t /\ loops' = 0 /\ big_loops' = n
      /\ loop' = IF n > 0 THEN "big" ELSE "only"
  BY DEF Sleep
<1>3. Done' = 0
  BY <1>1, <1>2 DEF Done
<1>4. 0 * BigLoop = 0 /\ 0 * LargestInt = 0 /\ t - 0 = t
  BY <1>1, LoopSizes
<1>5. SleepTypeOK'
  BY <1>1, <1>2 DEF SleepTypeOK
<1>6. CASE n > 0
  BY <1>1, <1>2, <1>3, <1>4, <1>5, <1>6 DEF SleepInv
<1>7. CASE n = 0
  <2>1. t < BigLoop
    BY <1>1, <1>4, <1>7, LoopSizes
  <2>2. loop' = "only"
    BY <1>2, <1>7
  <2> QED BY <1>2, <1>5, <2>1, <2>2 DEF SleepInv
<1> QED BY <1>1, <1>6, <1>7

LEMMA SleepBig ==
  ASSUME SleepInv, BigTurn
  PROVE  SleepInv'
<1> DEFINE n == asked \div BigLoop
<1>1. asked \in Nat /\ loops \in Nat /\ big_loops \in 1 .. n /\ us \in 0 .. asked
  BY BusySleepAssumption DEF SleepInv, SleepTypeOK, BigTurn
<1>2. n \in 0 .. asked /\ n * BigLoop <= asked /\ asked < n * BigLoop + BigLoop
  BY <1>1, BigLoops
<1>3. /\ asked' = asked /\ us' = us - BigLoop /\ loops' = loops + LargestInt
      /\ big_loops' = big_loops - 1
      /\ loop' = IF big_loops = 1 THEN "rest" ELSE "big"
  BY <1>1, LoopSizes DEF BigTurn, UntilZero
<1>4. /\ Done \in Nat /\ Done' = Done + 1 /\ Done' <= n
      /\ us = asked - Done * BigLoop /\ loops = Done * LargestInt
  BY <1>1, <1>2, <1>3 DEF Done, SleepInv, BigTurn
<1>5. /\ Done' * BigLoop = Done * BigLoop + BigLoop
      /\ Done' * LargestInt = Done * LargestInt + LargestInt
      /\ Done' * BigLoop <= n * BigLoop
      /\ Done * BigLoop \in Nat /\ Done * LargestInt \in Nat /\ n * BigLoop \in Nat
  BY <1>2, <1>4, LoopSizes, TimesMonotone, Z3
<1>6. /\ us' = asked - Done' * BigLoop /\ loops' = Done' * LargestInt
      /\ us' \in 0 .. asked /\ loops' \in Nat
  BY <1>1, <1>2, <1>3, <1>4, <1>5, LoopSizes
<1> QED BY <1>1, <1>2, <1>3, <1>6 DEF SleepInv, SleepTypeOK

LEMMA SleepStep == SleepInv /\ [SleepNext]_sleepVars => SleepInv'
<1>1. SUFFICES ASSUME SleepInv, [SleepNext]_sleepVars PROVE SleepInv'
  OBVIOUS
<1>2. ASSUME NEW label \in {"rest", "only"}, NEW turns \in Nat, Last(label, turns)
      PROVE  SleepInv'
  BY <1>1, <1>2 DEF SleepInv, SleepTypeOK, Last
<1>3. UntilZero(us * PerMicrosecond) \in Nat /\ UntilNotPositive(us * PerMicrosecond) \in Nat
  <2>1. us \in Nat
    BY <1>1, BusySleepAssumption DEF SleepInv, SleepTypeOK
  <2>2. us * PerMicrosecond \in Nat
    BY <2>1, LoopSizes, TimesMonotone
  <2> QED BY <2>2, LoopSizes DEF UntilZero, UntilNotPositive
<1>4. CASE UNCHANGED sleepVars
  BY <1>1, <1>4 DEF sleepVars, SleepInv, SleepTypeOK, Done
<1> QED BY <1>1, <1>2, <1>3, <1>4, SleepCall, SleepBig DEF SleepNext

(* What is left at the head of the last loop is less than a big loop.      *)
LEMMA LessLeft ==
  ASSUME SleepInv, loop \in {"rest", "only"}
  PROVE  /\ asked \in Nat /\ us \in Nat /\ us < BigLoop
         /\ us * PerMicrosecond <= LargestInt /\ us * PerMicrosecond \in Nat
<1>1. asked \in Nat /\ us \in Nat
  BY BusySleepAssumption DEF SleepInv, SleepTypeOK
<1>2. us < BigLoop
  <2>1. CASE loop = "rest"
    <3>1. Done = asked \div BigLoop /\ us = asked - Done * BigLoop
      BY <1>1, <2>1, BigLoops DEF SleepInv, Done
    <3> HIDE DEF Done
    <3>2. asked < Done * BigLoop + BigLoop /\ Done \in Nat
      BY <1>1, <3>1, BigLoops
    <3>3. Done * BigLoop \in Nat
      BY <3>2, LoopSizes, TimesMonotone
    <3> QED BY <1>1, <3>1, <3>2, <3>3, LoopSizes
  <2> QED BY <2>1 DEF SleepInv
<1>3. us * PerMicrosecond <= BigLoop * PerMicrosecond /\ us * PerMicrosecond \in Nat
      /\ BigLoop * PerMicrosecond \in Nat
  BY <1>1, <1>2, LoopSizes, TimesMonotone
<1> QED BY <1>1, <1>2, <1>3, LoopSizes

(* However long a sleep and whatever the frequency, no product of it       *)
(* becomes negative.                                                       *)
THEOREM ProductsFit == SleepSpec => []SleepFits
<1>1. SleepInv => SleepFits
  BY LessLeft DEF SleepInv, SleepFits
<1> QED BY <1>1, SleepStart, SleepStep, PTL DEF SleepSpec

(* The turns of a sleep that has just returned.                            *)
Enough ==
  /\ loops' >= asked * PerMicrosecond
  /\ \/ loop = "rest" /\ us = 0
     \/ loops' <= asked * PerMicrosecond + PerMicrosecond * (asked \div BigLoop) + 1

LEMMA RestEnough ==
  ASSUME SleepInv, Last("rest", UntilZero(us * PerMicrosecond))
  PROVE  Enough
<1> DEFINE n == asked \div BigLoop   P == PerMicrosecond
<1>1. loop = "rest" /\ loops' = loops + UntilZero(us * P)
  BY DEF Last
<1>2. asked \in Nat /\ us \in Nat /\ us * P \in Nat
  BY <1>1, LessLeft
<1>3. n \in Nat /\ us = asked - n * BigLoop /\ loops = n * LargestInt /\ n * BigLoop \in Nat
  <2>1. Done = n /\ n \in Nat
    BY <1>1, <1>2, BigLoops DEF SleepInv, Done
  <2>2. n * BigLoop \in Nat
    BY <2>1, LoopSizes, TimesMonotone
  <2> QED BY <1>1, <2>1, <2>2 DEF SleepInv
<1>4. /\ asked * P = n * (BigLoop * P) + us * P
      /\ n * (BigLoop * P + P) = n * (BigLoop * P) + P * n
  <2>1. asked = n * BigLoop + us
    BY <1>2, <1>3
  <2>2. \A a, b, c, d \in Nat : (a * b + c) * d = a * (b * d) + c * d /\ a * (b * d + d) = a * (b * d) + d * a
    BY Z3
  <2> QED BY <1>2, <1>3, <2>1, <2>2, LoopSizes
<1>5. /\ n * (BigLoop * P) <= n * LargestInt /\ n * LargestInt <= n * (BigLoop * P + P)
      /\ n * (BigLoop * P) \in Nat /\ n * LargestInt \in Nat /\ P * n \in Nat
  <2>1. BigLoop * P \in Nat
    BY LoopSizes, TimesMonotone
  <2> QED BY <1>3, <2>1, LoopSizes, TimesMonotone
<1>6. /\ UntilZero(us * P) \in Nat /\ us * P <= UntilZero(us * P)
      /\ us # 0 => UntilZero(us * P) = us * P
  <2>1. us # 0 => us * P # 0
    BY <1>2, LoopSizes, Z3
  <2> QED BY <1>2, <2>1, LoopSizes DEF UntilZero
<1>7. loops' >= asked * P
  BY <1>1, <1>2, <1>3, <1>4, <1>5, <1>6
<1>8. us # 0 => loops' <= asked * P + P * n + 1
  BY <1>1, <1>2, <1>3, <1>4, <1>5, <1>6
<1> QED BY <1>1, <1>7, <1>8 DEF Enough

LEMMA OnlyEnough ==
  ASSUME SleepInv, Last("only", UntilNotPositive(us * PerMicrosecond))
  PROVE  Enough
<1>1. loop = "only" /\ loops' = loops + UntilNotPositive(us * PerMicrosecond)
  BY DEF Last
<1>2. asked \in Nat /\ us * PerMicrosecond \in Nat /\ loops = 0 /\ us = asked
  BY <1>1, LessLeft DEF SleepInv
<1>3. PerMicrosecond * (asked \div BigLoop) \in Nat
  BY <1>2, BigLoops, LoopSizes, TimesMonotone
<1> QED BY <1>1, <1>2, <1>3 DEF Enough, UntilNotPositive

(* However long a sleep and whatever the frequency, it makes its turns.    *)
THEOREM SleepsLongEnough == SleepSpec => TakesItsTurns
<1>1. SleepInv /\ [SleepNext]_sleepVars => [Returns => Enough]_sleepVars
  <2>1. SUFFICES ASSUME SleepInv, SleepNext, Returns PROVE Enough
    OBVIOUS
  <2>2. ASSUME NEW t \in Times, Sleep(t) PROVE FALSE
    BY <2>1, <2>2 DEF Sleep, Returns
  <2>3. CASE BigTurn
    BY <2>1, <2>3 DEF BigTurn, Returns
  <2> QED BY <2>1, <2>2, <2>3, RestEnough, OnlyEnough DEF SleepNext
<1> QED BY <1>1, SleepStart, SleepStep, PTL DEF SleepSpec, TakesItsTurns, Enough

-----------------------------------------------------------------------------
(* The ports of the processor.                                             *)

(* The header's ports, one by one.                                         *)
Right(p) == /\ Routed(Header[p].base) = p /\ Header[p].base % 16 = 0
            /\ Bits(p) = Header[p].width /\ Header[p].reset = 0

LEMMA HeaderPlaces ==
  ASSUME NEW p \in Pios
  PROVE  Right(p) /\ Bits(p) \in {1, 2, 16}
<1>1. Right("pink_rand") /\ Bits("pink_rand") = 16
  <2>1. Header["pink_rand"].base = 32 /\ Header["pink_rand"].width = 16 /\ Header["pink_rand"].reset = 0
    BY DEF Header, PINK_RAND, Config
  <2>2. Routed(32) = "pink_rand"
    BY DEF Routed, Span
  <2>3. Bits("pink_rand") = 16
    BY DEF Bits
  <2> QED BY <2>1, <2>2, <2>3 DEF Right
<1>2. Right("red_rand") /\ Bits("red_rand") = 16
  <2>1. Header["red_rand"].base = 48 /\ Header["red_rand"].width = 16 /\ Header["red_rand"].reset = 0
    BY DEF Header, RED_RAND, Config
  <2>2. Routed(48) = "red_rand"
    BY DEF Routed, Span
  <2>3. Bits("red_rand") = 16
    BY DEF Bits
  <2> QED BY <2>1, <2>2, <2>3 DEF Right
<1>3. Right("blue_rand") /\ Bits("blue_rand") = 16
  <2>1. Header["blue_rand"].base = 64 /\ Header["blue_rand"].width = 16 /\ Header["blue_rand"].reset = 0
    BY DEF Header, BLUE_RAND, Config
  <2>2. Routed(64) = "blue_rand"
    BY DEF Routed, Span
  <2>3. Bits("blue_rand") = 16
    BY DEF Bits
  <2> QED BY <2>1, <2>2, <2>3 DEF Right
<1>4. Right("orange_rand") /\ Bits("orange_rand") = 16
  <2>1. Header["orange_rand"].base = 80 /\ Header["orange_rand"].width = 16 /\ Header["orange_rand"].reset = 0
    BY DEF Header, ORANGE_RAND, Config
  <2>2. Routed(80) = "orange_rand"
    BY DEF Routed, Span
  <2>3. Bits("orange_rand") = 16
    BY DEF Bits
  <2> QED BY <2>1, <2>2, <2>3 DEF Right
<1>5. Right("otg_hpi_w") /\ Bits("otg_hpi_w") = 1
  <2>1. Header["otg_hpi_w"].base = 96 /\ Header["otg_hpi_w"].width = 1 /\ Header["otg_hpi_w"].reset = 0
    BY DEF Header, OTG_HPI_W, Config
  <2>2. Routed(96) = "otg_hpi_w"
    BY DEF Routed, Span
  <2>3. Bits("otg_hpi_w") = 1
    BY DEF Bits
  <2> QED BY <2>1, <2>2, <2>3 DEF Right
<1>6. Right("otg_hpi_r") /\ Bits("otg_hpi_r") = 1
  <2>1. Header["otg_hpi_r"].base = 112 /\ Header["otg_hpi_r"].width = 1 /\ Header["otg_hpi_r"].reset = 0
    BY DEF Header, OTG_HPI_R, Config
  <2>2. Routed(112) = "otg_hpi_r"
    BY DEF Routed, Span
  <2>3. Bits("otg_hpi_r") = 1
    BY DEF Bits
  <2> QED BY <2>1, <2>2, <2>3 DEF Right
<1>7. Right("otg_hpi_data") /\ Bits("otg_hpi_data") = 16
  <2>1. Header["otg_hpi_data"].base = 128 /\ Header["otg_hpi_data"].width = 16 /\ Header["otg_hpi_data"].reset = 0
    BY DEF Header, OTG_HPI_DATA, Config
  <2>2. Routed(128) = "otg_hpi_data"
    BY DEF Routed, Span
  <2>3. Bits("otg_hpi_data") = 16
    BY DEF Bits
  <2> QED BY <2>1, <2>2, <2>3 DEF Right
<1>8. Right("otg_hpi_address") /\ Bits("otg_hpi_address") = 2
  <2>1. Header["otg_hpi_address"].base = 144 /\ Header["otg_hpi_address"].width = 2 /\ Header["otg_hpi_address"].reset = 0
    BY DEF Header, OTG_HPI_ADDRESS, Config
  <2>2. Routed(144) = "otg_hpi_address"
    BY DEF Routed, Span
  <2>3. Bits("otg_hpi_address") = 2
    BY DEF Bits
  <2> QED BY <2>1, <2>2, <2>3 DEF Right
<1>9. Right("otg_hpi_cs") /\ Bits("otg_hpi_cs") = 1
  <2>1. Header["otg_hpi_cs"].base = 160 /\ Header["otg_hpi_cs"].width = 1 /\ Header["otg_hpi_cs"].reset = 0
    BY DEF Header, OTG_HPI_CS, Config
  <2>2. Routed(160) = "otg_hpi_cs"
    BY DEF Routed, Span
  <2>3. Bits("otg_hpi_cs") = 1
    BY DEF Bits
  <2> QED BY <2>1, <2>2, <2>3 DEF Right
<1>10. Right("Keycode") /\ Bits("Keycode") = 16
  <2>1. Header["Keycode"].base = 176 /\ Header["Keycode"].width = 16 /\ Header["Keycode"].reset = 0
    BY DEF Header, KEYCODE, Config
  <2>2. Routed(176) = "Keycode"
    BY DEF Routed, Span
  <2>3. Bits("Keycode") = 16
    BY DEF Bits
  <2> QED BY <2>1, <2>2, <2>3 DEF Right
<1> QED BY <1>1, <1>2, <1>3, <1>4, <1>5, <1>6, <1>7, <1>8, <1>9, <1>10 DEF Pios

(* The pointers of main are the header's addresses.                        *)
LEMMA Meant ==
  ASSUME NEW p \in Pios
  PROVE  AddressOf(p) = Header[p].base
BY DEF Pios, AddressOf, Pointers, Header, Config, RED_RAND, PINK_RAND, BLUE_RAND, ORANGE_RAND

(* A register's values, by its width.                                      *)
Kept(p) == 2 ^ Bits(p)

(* A store to a port's address writes its register.                        *)
LEMMA WrittenThere ==
  ASSUME NEW p \in Pios, NEW w, WriteSlave(AddressOf(p), w)
  PROVE  port' = [port EXCEPT ![p] = w % Kept(p)] /\ UNCHANGED outside
<1>1. Routed(AddressOf(p)) = p /\ AddressOf(p) % 16 < 4
  BY Meant, HeaderPlaces DEF Right
<1> QED BY <1>1 DEF WriteSlave, Kept

LEMMA Widths ==
  ASSUME NEW p \in Pios
  PROVE  /\ Bits(p) = 1 => Kept(p) = 2
         /\ Bits(p) = 2 => Kept(p) = 4
         /\ Bits(p) = 16 => Kept(p) = 65536
<1>1. \A b : b = 1 => 2 ^ b = 2
  OBVIOUS
<1>2. \A b : b = 2 => 2 ^ b = 4
  OBVIOUS
<1>3. \A b : b = 16 => 2 ^ b = 65536
  OBVIOUS
<1>4. Kept(p) = 2 ^ Bits(p)
  BY DEF Kept
<1> HIDE DEF Kept
<1> QED BY <1>1, <1>2, <1>3, <1>4, Z3

LEMMA KeptBits ==
  ASSUME NEW p \in Pios, NEW w \in Nat
  PROVE  w % Kept(p) \in Nat /\ w % Kept(p) < Kept(p) /\ 0 < Kept(p)
<1>1. Kept(p) \in {2, 4, 65536}
  BY HeaderPlaces, Widths
<1> QED BY <1>1

(* What is stored for a port, as its caller means it.                      *)
LEMMA StoredWord ==
  ASSUME NEW w \in Words, NEW p \in Pios
  PROVE  /\ StoreKeycode(w) => port' = [port EXCEPT !["Keycode"] = w % 256] /\ UNCHANGED outside
         /\ StoreHpi(p, w) \/ StoreRandom(p, w) =>
              port' = [port EXCEPT ![p] = w % Kept(p)] /\ UNCHANGED outside
<1>1. w \in Nat
  BY PeripheralsAssumption
<1>2. /\ (w % 2) % 2 = w % 2 /\ (w % 256) % 4 = w % 4
      /\ (w % 65536) % 65536 = w % 65536 /\ (w % 256) % 65536 = w % 256
  BY <1>1
<1>3. ASSUME StoreKeycode(w)
      PROVE  port' = [port EXCEPT !["Keycode"] = w % 256] /\ UNCHANGED outside
  <2>1. "Keycode" \in Pios /\ Bits("Keycode") = 16
    BY DEF Pios, Bits
  <2> QED BY <1>2, <1>3, <2>1, WrittenThere, Widths DEF StoreKeycode
<1>4. ASSUME StoreRandom(p, w)
      PROVE  port' = [port EXCEPT ![p] = w % Kept(p)] /\ UNCHANGED outside
  BY <1>4, WrittenThere DEF StoreRandom
<1>5. ASSUME StoreHpi(p, w)
      PROVE  port' = [port EXCEPT ![p] = w % Kept(p)] /\ UNCHANGED outside
  <2>1. CASE p \in {"otg_hpi_cs", "otg_hpi_r", "otg_hpi_w"} /\ WriteSlave(AddressOf(p), w % 2)
    <3>1. Bits(p) = 1
      BY <2>1 DEF Bits
    <3> QED BY <1>2, <2>1, <3>1, WrittenThere, Widths
  <2>2. CASE p = "otg_hpi_address" /\ WriteSlave(AddressOf(p), w % 256)
    <3>1. Bits(p) = 2
      BY <2>2 DEF Bits
    <3> QED BY <1>2, <2>2, <3>1, WrittenThere, Widths
  <2>3. CASE p = "otg_hpi_data" /\ WriteSlave(AddressOf(p), w % 65536)
    <3>1. Bits(p) = 16
      BY <2>3 DEF Bits
    <3> QED BY <1>2, <2>3, <3>1, WrittenThere, Widths
  <2> QED BY <1>5, <2>1, <2>2, <2>3 DEF StoreHpi
<1> QED BY <1>3, <1>4, <1>5

LEMMA PortsStart == PortsReset => HeaderIsTrue
<1>1. \A p \in Pios : 0 < 2 ^ Bits(p)
  BY KeptBits DEF Kept
<1>2. ASSUME PortsReset PROVE PortsTypeOK /\ ~outside
  <2>1. port \in [Pios -> Nat] /\ \A p \in Pios : port[p] = 0
    BY <1>2 DEF PortsReset
  <2> QED BY <1>1, <1>2, <2>1, Zenon DEF PortsReset, PortsTypeOK
<1> QED BY <1>2, HeaderPlaces DEF Right, HeaderIsTrue

LEMMA PortsStep == HeaderIsTrue /\ [PortsNext]_portVars => HeaderIsTrue'
<1>1. SUFFICES ASSUME HeaderIsTrue, [PortsNext]_portVars PROVE PortsTypeOK' /\ ~outside'
  BY HeaderPlaces DEF Right, HeaderIsTrue
<1>2. CASE UNCHANGED portVars
  BY <1>1, <1>2 DEF portVars, HeaderIsTrue, PortsTypeOK
<1>3. ASSUME NEW w \in Words, StoreKeycode(w) PROVE PortsTypeOK' /\ ~outside'
  <2>1. "Keycode" \in Pios /\ Bits("Keycode") = 16 /\ w \in Nat
    BY PeripheralsAssumption DEF Pios, Bits
  <2>2. w % 256 \in Nat /\ w % 256 < Kept("Keycode")
    BY <2>1, Widths
  <2> QED BY <1>1, <1>3, <2>1, <2>2, StoredWord DEF Kept, HeaderIsTrue, PortsTypeOK
<1>4. ASSUME NEW w \in Words, NEW p \in Pios, StoreRandom(p, w) \/ StoreHpi(p, w)
      PROVE  PortsTypeOK' /\ ~outside'
  BY <1>1, <1>4, StoredWord, KeptBits, PeripheralsAssumption DEF Kept, HeaderIsTrue, PortsTypeOK
<1> QED BY <1>1, <1>2, <1>3, <1>4 DEF PortsNext

(* Whatever words the program stores, the ports stay where and what        *)
(* system.h says, and no store meets anything else.                        *)
THEOREM HeaderHolds == PortsSpec => []HeaderIsTrue
BY PortsStart, PortsStep, PTL DEF PortsSpec

(* Whatever words the program stores, each reaches the register it is      *)
(* meant for, and no other.                                                *)
THEOREM WordsArrive == PortsSpec => StoresArrive
<1>1. \A w \in Words :
        /\ StoreKeycode(w) => port' = [port EXCEPT !["Keycode"] = w % 256]
        /\ \A p \in Pios : StoreHpi(p, w) \/ StoreRandom(p, w) =>
                            port' = [port EXCEPT ![p] = w % 2 ^ Bits(p)]
  <2>1. "Keycode" \in Pios
    BY DEF Pios
  <2> QED BY <2>1, StoredWord, Zenon DEF Kept
<1> QED BY <1>1, PTL DEF PortsSpec, StoresArrive

-----------------------------------------------------------------------------
(* The setup of the USB controller.                                        *)

(* The program's accesses, by their numbers: the reset and the routes, and *)
(* the two calls.                                                          *)
Accesses ==
  {SoftReset[i] : i \in 1 .. 6} \cup {Routes[i] : i \in 1 .. 5}
  \cup {Store(COMM_R(i), 0) : i \in 0 .. 13}
  \cup {Store(COMM_INT_NUM, HUSB_SIE1_INIT_INT), Mail(COMM_EXEC_INT, HUSB_SIE1_INIT_INT),
        Store(COMM_INT_NUM, HUSB_RESET_INT), Store(COMM_R(0), \h3C),
        Mail(COMM_EXEC_INT, HUSB_RESET_INT), Wait("status"), Wait("answer")}

Part(s, n) == s \in Seq(Accesses) /\ Len(s) = n
Whole(w, s, m, t, n) ==
  /\ \A i \in 1 .. m : w[i] = s[i]
  /\ \A i \in 1 .. n : w[m + i] = t[i]

(* Of two parts of known lengths.                                          *)
LEMMA Joined ==
  ASSUME NEW s, NEW t, NEW m \in Nat, NEW n \in Nat, Part(s, m), Part(t, n)
  PROVE  Part(s \o t, m + n) /\ Whole(s \o t, s, m, t, n)
<1>1. s \in Seq(Accesses) /\ t \in Seq(Accesses)
  BY DEF Part
<1>2. Len(s) = m /\ Len(t) = n /\ m \in Nat /\ n \in Nat
  BY DEF Part
<1>3. \A S : \A u, v \in Seq(S) :
        /\ u \o v \in Seq(S) /\ Len(u \o v) = Len(u) + Len(v)
        /\ \A i \in 1 .. Len(u) : (u \o v)[i] = u[i]
        /\ \A i \in 1 .. Len(v) : (u \o v)[Len(u) + i] = v[i]
  <2>1. SUFFICES ASSUME NEW S, NEW u \in Seq(S), NEW v \in Seq(S)
        PROVE /\ u \o v \in Seq(S) /\ Len(u \o v) = Len(u) + Len(v)
              /\ \A i \in 1 .. Len(u) : (u \o v)[i] = u[i]
              /\ \A i \in 1 .. Len(v) : (u \o v)[Len(u) + i] = v[i]
    OBVIOUS
  <2>2. Len(u) \in Nat /\ Len(v) \in Nat
    BY LenProperties
  <2>3. /\ u \o v \in Seq(S) /\ Len(u \o v) = Len(u) + Len(v)
        /\ \A i \in 1 .. Len(u) + Len(v) :
             (u \o v)[i] = IF i <= Len(u) THEN u[i] ELSE v[i - Len(u)]
    BY ONLY <2>1, ConcatProperties
  <2> QED BY ONLY <2>2, <2>3
<1>4. s \o t \in Seq(Accesses)
  BY ONLY <1>1, <1>3
<1>5. Len(s \o t) = Len(s) + Len(t)
  BY ONLY <1>1, <1>3
<1>6. \A i \in 1 .. Len(s) : (s \o t)[i] = s[i]
  BY ONLY <1>1, <1>3
<1>7. \A i \in 1 .. Len(t) : (s \o t)[Len(s) + i] = t[i]
  BY ONLY <1>1, <1>3
<1>8. Len(s \o t) = m + n
  BY ONLY <1>2, <1>5
<1>9. \A i \in 1 .. m : (s \o t)[i] = s[i]
  BY ONLY <1>2, <1>6
<1>10. \A i \in 1 .. n : (s \o t)[m + i] = t[i]
  BY ONLY <1>2, <1>7
<1> QED BY ONLY <1>4, <1>8, <1>9, <1>10 DEF Part, Whole

LEMMA ZerosAre ==
  ASSUME NEW f \in 0 .. 1
  PROVE  Part(Zeros(f), 14 - f) /\ \A i \in 1 .. 14 - f : Zeros(f)[i] = Store(COMM_R(f + i - 1), 0)
<1>1. \A i \in 1 .. 14 - f : f + i - 1 \in 0 .. 13
  OBVIOUS
<1>2. Zeros(f) \in [1 .. 14 - f -> Accesses]
  BY <1>1 DEF Zeros, Accesses
<1>3. 14 - f \in Nat
  OBVIOUS
<1> QED BY <1>2, <1>3 DEF Zeros, Part

LEMMA InitCallIs ==
  /\ Part(InitCall, 18)
  /\ \A i \in 1 .. 14 : InitCall[i] = Store(COMM_R(i - 1), 0)
  /\ InitCall[15] = Store(COMM_INT_NUM, HUSB_SIE1_INIT_INT)
  /\ InitCall[16] = Mail(COMM_EXEC_INT, HUSB_SIE1_INIT_INT)
  /\ InitCall[17] = Wait("status") /\ InitCall[18] = Wait("answer")
<1> DEFINE last == <<Store(COMM_INT_NUM, HUSB_SIE1_INIT_INT),
                     Mail(COMM_EXEC_INT, HUSB_SIE1_INIT_INT), Wait("status"), Wait("answer")>>
<1>1. Part(last, 4)
  BY DEF Accesses, Part
<1>2. Part(Zeros(0), 14) /\ \A i \in 1 .. 14 : Zeros(0)[i] = Store(COMM_R(i - 1), 0)
  <2>1. 14 - 0 = 14 /\ \A i \in 1 .. 14 : 0 + i - 1 = i - 1
    OBVIOUS
  <2>2. Part(Zeros(0), 14 - 0) /\ \A i \in 1 .. 14 - 0 : Zeros(0)[i] = Store(COMM_R(0 + i - 1), 0)
    BY ONLY ZerosAre
  <2> QED BY ONLY <2>1, <2>2
<1>3. InitCall = Zeros(0) \o last
  BY DEF InitCall
<1>4. /\ last[1] = Store(COMM_INT_NUM, HUSB_SIE1_INIT_INT)
      /\ last[2] = Mail(COMM_EXEC_INT, HUSB_SIE1_INIT_INT)
      /\ last[3] = Wait("status") /\ last[4] = Wait("answer")
  OBVIOUS
<1> HIDE DEF last
<1>5. Part(InitCall, 14 + 4) /\ Whole(InitCall, Zeros(0), 14, last, 4)
  BY <1>1, <1>2, <1>3, Joined
<1>6. \A i \in 1 .. 4 : InitCall[14 + i] = last[i]
  BY ONLY <1>5 DEF Whole
<1>7. \A i \in 1 .. 14 : InitCall[i] = Zeros(0)[i]
  BY ONLY <1>5 DEF Whole
<1>8. InitCall[15] = last[1] /\ InitCall[16] = last[2] /\ InitCall[17] = last[3] /\ InitCall[18] = last[4]
  BY ONLY <1>6
<1> QED BY ONLY <1>2, <1>4, <1>5, <1>7, <1>8

LEMMA ResetCallIs ==
  /\ Part(ResetCall, 17)
  /\ ResetCall[1] = Store(COMM_INT_NUM, HUSB_RESET_INT)
  /\ ResetCall[2] = Store(COMM_R(0), \h3C)
  /\ \A i \in 1 .. 13 : ResetCall[2 + i] = Store(COMM_R(i), 0)
  /\ ResetCall[16] = Mail(COMM_EXEC_INT, HUSB_RESET_INT)
  /\ ResetCall[17] = Wait("answer")
<1> DEFINE first == <<Store(COMM_INT_NUM, HUSB_RESET_INT), Store(COMM_R(0), \h3C)>>
           last == <<Mail(COMM_EXEC_INT, HUSB_RESET_INT), Wait("answer")>>
           front == first \o Zeros(1)
<1>1. Part(last, 2) /\ Part(first, 2)
  BY DEF Accesses, Part
<1>2. Part(Zeros(1), 13) /\ \A i \in 1 .. 13 : Zeros(1)[i] = Store(COMM_R(i), 0)
  <2>1. 14 - 1 = 13 /\ \A i \in 1 .. 13 : 1 + i - 1 = i
    OBVIOUS
  <2>2. Part(Zeros(1), 14 - 1) /\ \A i \in 1 .. 14 - 1 : Zeros(1)[i] = Store(COMM_R(1 + i - 1), 0)
    BY ONLY ZerosAre
  <2> QED BY ONLY <2>1, <2>2
<1>3. ResetCall = front \o last
  BY DEF ResetCall
<1>4. /\ first[1] = Store(COMM_INT_NUM, HUSB_RESET_INT) /\ first[2] = Store(COMM_R(0), \h3C)
      /\ last[1] = Mail(COMM_EXEC_INT, HUSB_RESET_INT) /\ last[2] = Wait("answer")
  OBVIOUS
<1> HIDE DEF first, last
<1>5. Part(front, 2 + 13) /\ Whole(front, first, 2, Zeros(1), 13)
  BY <1>1, <1>2, Joined
<1> HIDE DEF front
<1>6. Part(ResetCall, 15 + 2) /\ Whole(ResetCall, front, 15, last, 2)
  BY <1>1, <1>3, <1>5, Joined
<1>7. \A i \in 1 .. 15 : ResetCall[i] = front[i]
  BY ONLY <1>6 DEF Whole
<1>8. \A i \in 1 .. 2 : ResetCall[15 + i] = last[i]
  BY ONLY <1>6 DEF Whole
<1>9. ResetCall[16] = last[1] /\ ResetCall[17] = last[2]
  BY ONLY <1>8
<1>10. front[1] = first[1] /\ front[2] = first[2] /\ \A i \in 1 .. 13 : front[2 + i] = Zeros(1)[i]
  BY ONLY <1>5 DEF Whole
<1>11. \A i \in 1 .. 13 : ResetCall[2 + i] = front[2 + i]
  <2>1. \A i \in 1 .. 13 : 2 + i \in 1 .. 15
    OBVIOUS
  <2> QED BY ONLY <1>7, <2>1
<1>12. ResetCall[1] = front[1] /\ ResetCall[2] = front[2]
  BY ONLY <1>7
<1> QED BY ONLY <1>2, <1>4, <1>6, <1>9, <1>10, <1>11, <1>12

(* The whole, by number.                                                   *)
LEMMA SetupIs ==
  /\ DOMAIN Setup = 1 .. 46 /\ Len(Setup) = 46
  /\ \A i \in 1 .. 6 : Setup[i] = SoftReset[i]
  /\ \A i \in 1 .. 5 : Setup[6 + i] = Routes[i]
  /\ \A i \in 1 .. 18 : Setup[11 + i] = InitCall[i]
  /\ \A i \in 1 .. 17 : Setup[29 + i] = ResetCall[i]
<1>1. Part(SoftReset, 6)
  <2>1. Len(SoftReset) = 6 /\ SoftReset \in Seq({SoftReset[i] : i \in 1 .. 6})
    BY DEF SoftReset
  <2>2. Seq({SoftReset[i] : i \in 1 .. 6}) \subseteq Seq(Accesses)
    BY DEF Accesses
  <2> QED BY <2>1, <2>2 DEF Part
<1>2. Part(Routes, 5)
  <2>1. Len(Routes) = 5 /\ Routes \in Seq({Routes[i] : i \in 1 .. 5})
    BY DEF Routes
  <2>2. Seq({Routes[i] : i \in 1 .. 5}) \subseteq Seq(Accesses)
    BY DEF Accesses
  <2> QED BY <2>1, <2>2 DEF Part
<1> DEFINE one == SoftReset \o Routes   two == one \o InitCall
<1>3. Part(one, 6 + 5) /\ Whole(one, SoftReset, 6, Routes, 5)
  BY <1>1, <1>2, Joined
<1> HIDE DEF one
<1>4. Part(two, 11 + 18) /\ Whole(two, one, 11, InitCall, 18)
  BY <1>3, InitCallIs, Joined
<1>5. Setup = two \o ResetCall
  BY DEF Setup, one
<1> HIDE DEF two
<1>6. Part(Setup, 29 + 17) /\ Whole(Setup, two, 29, ResetCall, 17)
  BY <1>4, <1>5, ResetCallIs, Joined
<1>7. DOMAIN Setup = 1 .. 46 /\ Len(Setup) = 46
  <2>1. Setup \in Seq(Accesses) /\ Len(Setup) = 46
    BY ONLY <1>6 DEF Part
  <2> QED BY ONLY <2>1, LenProperties
<1>8. \A i \in 1 .. 29 : Setup[i] = two[i]
  BY ONLY <1>6 DEF Whole
<1>9. \A i \in 1 .. 11 : two[i] = one[i]
  BY ONLY <1>4 DEF Whole
<1>10. \A i \in 1 .. 18 : two[11 + i] = InitCall[i]
  BY ONLY <1>4 DEF Whole
<1>11. \A i \in 1 .. 6 : one[i] = SoftReset[i]
  BY ONLY <1>3 DEF Whole
<1>12. \A i \in 1 .. 5 : one[6 + i] = Routes[i]
  BY ONLY <1>3 DEF Whole
<1>13. \A i \in 1 .. 17 : Setup[29 + i] = ResetCall[i]
  BY ONLY <1>6 DEF Whole
<1>14. /\ \A i \in 1 .. 6 : i \in 1 .. 11 /\ i \in 1 .. 29
       /\ \A i \in 1 .. 5 : 6 + i \in 1 .. 11 /\ 6 + i \in 1 .. 29
       /\ \A i \in 1 .. 18 : 11 + i \in 1 .. 29
  OBVIOUS
<1>15. /\ \A i \in 1 .. 6 : Setup[i] = SoftReset[i]
       /\ \A i \in 1 .. 5 : Setup[6 + i] = Routes[i]
       /\ \A i \in 1 .. 18 : Setup[11 + i] = InitCall[i]
  BY ONLY <1>8, <1>9, <1>10, <1>11, <1>12, <1>14
<1> QED BY ONLY <1>7, <1>13, <1>15

(* What each access is, as far as the arguments are concerned.             *)
LEMMA ResetAccesses ==
  /\ Setup[1] = Mail(COMM_RESET, 0) /\ Setup[2] = Wait("drain")
  /\ \A i \in 3 .. 11 : /\ Setup[i].op = "store" /\ Setup[i].at \notin Arguments
                        /\ Setup[i].at = HPI_IRQ_ROUTING_REG => Setup[i].word = \h440
<1>1. /\ Setup[1] = SoftReset[1] /\ Setup[2] = SoftReset[2] /\ Setup[3] = SoftReset[3]
      /\ Setup[4] = SoftReset[4] /\ Setup[5] = SoftReset[5] /\ Setup[6] = SoftReset[6]
  BY ONLY SetupIs
<1>2. /\ Setup[7] = Routes[1] /\ Setup[8] = Routes[2] /\ Setup[9] = Routes[3]
      /\ Setup[10] = Routes[4] /\ Setup[11] = Routes[5]
  BY ONLY SetupIs
<1>3. ASSUME NEW i \in 3 .. 11
      PROVE  /\ Setup[i].op = "store" /\ Setup[i].at \notin Arguments
             /\ Setup[i].at = HPI_IRQ_ROUTING_REG => Setup[i].word = \h440
  <2>1. i \in {3, 4, 5, 6, 7, 8, 9, 10, 11}
    OBVIOUS
  <2> QED BY ONLY <1>1, <1>2, <2>1
          DEF SoftReset, Routes, Store, Arguments, COMM_INT_NUM, COMM_R, HPI_IRQ_ROUTING_REG,
              HOST1_STAT_REG, HOST2_STAT_REG, HOST1_IRQ_EN_REG, HUSB_pEOT
<1>4. SoftReset[1] = Mail(COMM_RESET, 0) /\ SoftReset[2] = Wait("drain")
  BY DEF SoftReset
<1> QED BY ONLY <1>1, <1>3, <1>4

LEMMA InitAccesses ==
  /\ \A i \in 12 .. 25 : Setup[i] = Store(COMM_R(i - 12), 0)
  /\ Setup[26] = Store(COMM_INT_NUM, HUSB_SIE1_INIT_INT)
  /\ Setup[27] = Mail(COMM_EXEC_INT, HUSB_SIE1_INIT_INT)
  /\ Setup[28] = Wait("status") /\ Setup[29] = Wait("answer")
<1>1. \A i \in 1 .. 18 : Setup[11 + i] = InitCall[i]
  BY ONLY SetupIs
<1>2. /\ Setup[26] = InitCall[15] /\ Setup[27] = InitCall[16]
      /\ Setup[28] = InitCall[17] /\ Setup[29] = InitCall[18]
  BY ONLY <1>1
<1>3. ASSUME NEW i \in 12 .. 25 PROVE Setup[i] = Store(COMM_R(i - 12), 0)
  <2>1. i - 11 \in 1 .. 14 /\ i - 11 \in 1 .. 18 /\ 11 + (i - 11) = i /\ (i - 11) - 1 = i - 12
    OBVIOUS
  <2>2. InitCall[i - 11] = Store(COMM_R((i - 11) - 1), 0)
    BY ONLY <2>1, InitCallIs
  <2> QED BY ONLY <1>1, <2>1, <2>2
<1> QED BY ONLY <1>2, <1>3, InitCallIs

LEMMA CallAccesses ==
  /\ Setup[30] = Store(COMM_INT_NUM, HUSB_RESET_INT)
  /\ Setup[31] = Store(COMM_R(0), \h3C)
  /\ \A i \in 32 .. 44 : Setup[i] = Store(COMM_R(i - 31), 0)
  /\ Setup[45] = Mail(COMM_EXEC_INT, HUSB_RESET_INT)
  /\ Setup[46] = Wait("answer")
<1>1. \A i \in 1 .. 17 : Setup[29 + i] = ResetCall[i]
  BY ONLY SetupIs
<1>2. /\ Setup[30] = ResetCall[1] /\ Setup[31] = ResetCall[2]
      /\ Setup[45] = ResetCall[16] /\ Setup[46] = ResetCall[17]
  BY ONLY <1>1
<1>3. ASSUME NEW i \in 32 .. 44 PROVE Setup[i] = Store(COMM_R(i - 31), 0)
  <2>1. i - 31 \in 1 .. 13 /\ 2 + (i - 31) \in 1 .. 17 /\ 29 + (2 + (i - 31)) = i
    OBVIOUS
  <2>2. ResetCall[2 + (i - 31)] = Store(COMM_R(i - 31), 0)
    BY ONLY <2>1, ResetCallIs
  <2> QED BY ONLY <1>1, <2>1, <2>2
<1> QED BY ONLY <1>2, <1>3, ResetCallIs

(* In a call each cell is written once, and all of them are.               *)
InitStores == 12 .. 26
CallStores == 30 .. 44

LEMMA OnceEach ==
  ASSUME NEW block \in {InitStores, CallStores}
  PROVE  /\ \A i \in block : Setup[i].op = "store" /\ Setup[i].at \in Arguments
         /\ \A i, j \in block : i # j => Setup[i].at # Setup[j].at
<1>1. \A i \in 12 .. 25 : Setup[i].op = "store" /\ Setup[i].at = \h1C4 + 2 * (i - 12)
  BY InitAccesses DEF Store, COMM_R
<1>2. Setup[26].op = "store" /\ Setup[26].at = \h1C2
  BY InitAccesses DEF Store, COMM_INT_NUM
<1>3. /\ Setup[30].op = "store" /\ Setup[30].at = \h1C2
      /\ Setup[31].op = "store" /\ Setup[31].at = \h1C4
  BY CallAccesses DEF Store, COMM_INT_NUM, COMM_R
<1>4. \A i \in 32 .. 44 : Setup[i].op = "store" /\ Setup[i].at = \h1C4 + 2 * (i - 31)
  BY CallAccesses DEF Store, COMM_R
<1>5. \A i \in 0 .. 13 : \h1C4 + 2 * i \in Arguments
  BY DEF Arguments, COMM_R
<1>6. \h1C2 \in Arguments
  BY DEF Arguments, COMM_INT_NUM
<1>7. CASE block = InitStores
  <2>1. \A i \in block : i \in 12 .. 25 \/ i = 26
    BY <1>7 DEF InitStores
  <2>2. \A i \in 12 .. 25 : i - 12 \in 0 .. 13
    OBVIOUS
  <2> QED BY ONLY <1>1, <1>2, <1>5, <1>6, <2>1, <2>2
<1>8. CASE block = CallStores
  <2>1. \A i \in block : i \in 32 .. 44 \/ i = 30 \/ i = 31
    BY <1>8 DEF CallStores
  <2>2. \A i \in 32 .. 44 : i - 31 \in 0 .. 13
    OBVIOUS
  <2>3. \h1C4 \in Arguments
    BY ONLY <1>5
  <2> QED BY ONLY <1>3, <1>4, <1>5, <1>6, <2>1, <2>2, <2>3
<1> QED BY <1>7, <1>8

(* The cells hold what these accesses store.                               *)
Written(m, block) ==
  \A i \in block : Setup[i].at \in DOMAIN m => m[Setup[i].at] = Setup[i].word

LEMMA WrittenIsGiven ==
  /\ Written(memory, InitStores) => \A a \in Arguments \cap DOMAIN memory : memory[a] = Given(HUSB_SIE1_INIT_INT, a)
  /\ Written(memory, CallStores) => \A a \in Arguments \cap DOMAIN memory : memory[a] = Given(HUSB_RESET_INT, a)
<1>1. \A a \in Arguments : a = COMM_INT_NUM \/ \E i \in 0 .. 13 : a = COMM_R(i)
  BY DEF Arguments
<1>2. \A i \in 0 .. 13 : COMM_R(i) # COMM_INT_NUM /\ (COMM_R(i) = COMM_R(0) => i = 0)
  BY DEF COMM_R, COMM_INT_NUM
<1>3. HUSB_SIE1_INIT_INT # HUSB_RESET_INT
  BY DEF HUSB_SIE1_INIT_INT, HUSB_RESET_INT
<1>4. /\ \A r : Given(r, COMM_INT_NUM) = r
      /\ Given(HUSB_RESET_INT, COMM_R(0)) = \h3C
      /\ \A i \in 1 .. 13 : Given(HUSB_RESET_INT, COMM_R(i)) = 0
      /\ \A i \in 0 .. 13 : Given(HUSB_SIE1_INIT_INT, COMM_R(i)) = 0
  <2>1. \A r : Given(r, COMM_INT_NUM) = r
    BY <1>2 DEF Given
  <2>2. Given(HUSB_RESET_INT, COMM_R(0)) = \h3C
    BY <1>2 DEF Given
  <2>3. \A i \in 1 .. 13 : Given(HUSB_RESET_INT, COMM_R(i)) = 0
    BY <1>2 DEF Given
  <2>4. \A i \in 0 .. 13 : Given(HUSB_SIE1_INIT_INT, COMM_R(i)) = 0
    BY <1>2, <1>3 DEF Given
  <2> QED BY <2>1, <2>2, <2>3, <2>4
<1>5. ASSUME Written(memory, InitStores), NEW a \in Arguments \cap DOMAIN memory
      PROVE  memory[a] = Given(HUSB_SIE1_INIT_INT, a)
  <2>1. CASE a = COMM_INT_NUM
    <3>1. 26 \in InitStores /\ Setup[26].at = a /\ Setup[26].word = HUSB_SIE1_INIT_INT
      BY <2>1, InitAccesses DEF InitStores, Store
    <3> QED BY <1>4, <1>5, <2>1, <3>1 DEF Written
  <2>2. ASSUME NEW i \in 0 .. 13, a = COMM_R(i)
        PROVE  memory[a] = Given(HUSB_SIE1_INIT_INT, a)
    <3>1. 12 + i \in 12 .. 25 /\ (12 + i) - 12 = i /\ 12 + i \in InitStores
      BY DEF InitStores
    <3>2. Setup[12 + i].at = a /\ Setup[12 + i].word = 0
      BY <2>2, <3>1, InitAccesses DEF Store
    <3> QED BY <1>4, <1>5, <2>2, <3>1, <3>2 DEF Written
  <2> QED BY <1>1, <2>1, <2>2
<1>6. ASSUME Written(memory, CallStores), NEW a \in Arguments \cap DOMAIN memory
      PROVE  memory[a] = Given(HUSB_RESET_INT, a)
  <2>1. CASE a = COMM_INT_NUM
    <3>1. 30 \in CallStores /\ Setup[30].at = a /\ Setup[30].word = HUSB_RESET_INT
      BY <2>1, CallAccesses DEF CallStores, Store
    <3> QED BY <1>4, <1>6, <2>1, <3>1 DEF Written
  <2>2. CASE a = COMM_R(0)
    <3>1. 31 \in CallStores /\ Setup[31].at = a /\ Setup[31].word = \h3C
      BY <2>2, CallAccesses DEF CallStores, Store
    <3> QED BY <1>4, <1>6, <2>2, <3>1 DEF Written
  <2>3. ASSUME NEW i \in 1 .. 13, a = COMM_R(i)
        PROVE  memory[a] = Given(HUSB_RESET_INT, a)
    <3>1. 31 + i \in 32 .. 44 /\ (31 + i) - 31 = i /\ 31 + i \in CallStores
      BY DEF CallStores
    <3>2. Setup[31 + i].at = a /\ Setup[31 + i].word = 0
      BY <2>3, <3>1, CallAccesses DEF Store
    <3> QED BY <1>4, <1>6, <2>3, <3>1, <3>2 DEF Written
  <2>4. \A i \in 0 .. 13 : i = 0 \/ i \in 1 .. 13
    OBVIOUS
  <2> QED BY <1>1, <2>1, <2>2, <2>3, <2>4
<1> QED BY <1>5, <1>6

-----------------------------------------------------------------------------
(* The parts of the invariant: unless the reset has left an ACK, the       *)
(* mailbox holds none until the BIOS has taken the first call up, so       *)
(* main.c starts over or that call is done before a cell is written for    *)
(* the second.                                                             *)
CellsOK == access \in 1 .. 47 /\ DOMAIN memory \subseteq Arguments

MailOK ==
  /\ inbox = COMM_RESET => access = 2
  /\ access = 2 => inbox \in {0, COMM_RESET}
  /\ access = 2 /\ inbox = 0 /\ outbox = COMM_ACK => leftAck
  /\ access \in 3 .. 27 => inbox = 0
  /\ access \in 3 .. 27 /\ outbox = COMM_ACK => leftAck
  /\ access \in {28, 29} /\ inbox # 0 /\ outbox = COMM_ACK => leftAck
  /\ access \in 30 .. 45 /\ inbox # 0 => leftAck

Called ==
  /\ access \in 12 .. 27 => Written(memory, 12 .. access - 1)
  /\ access \in 30 .. 45 => leftAck \/ Written(memory, 30 .. access - 1)
  /\ inbox = COMM_EXEC_INT =>
       \/ leftAck
       \/ access \in {28, 29, 1} /\ wanted = HUSB_SIE1_INIT_INT /\ Written(memory, InitStores)
       \/ access \in {46, 47, 1} /\ wanted = HUSB_RESET_INT /\ Written(memory, CallStores)

ChipInv == CellsOK /\ MailOK /\ Called

LEMMA Constants ==
  COMM_EXEC_INT # 0 /\ COMM_RESET # 0 /\ COMM_EXEC_INT # COMM_RESET
BY DEF COMM_EXEC_INT, COMM_RESET

LEMMA ChipStart == ChipInit => ChipInv
<1>1. SUFFICES ASSUME ChipInit PROVE ChipInv
  OBVIOUS
<1>2. DOMAIN memory \subseteq Arguments
  <2>1. PICK cell \in Arguments : memory = [a \in {cell} |-> Garbage]
    BY <1>1 DEF ChipInit
  <2>2. DOMAIN memory = {cell}
    BY <2>1
  <2> QED BY <2>2
<1>3. access = 1 /\ inbox = 0
  BY <1>1 DEF ChipInit
<1> QED BY <1>2, <1>3, Constants DEF ChipInv, CellsOK, MailOK, Called

(* Which accesses are of which kind.                                       *)
LEMMA Kinds ==
  ASSUME access \in 1 .. 47
  PROVE  /\ AtStep("store") => access \in 3 .. 26 \/ access \in 30 .. 44
         /\ AtStep("mail") => access \in {1, 27, 45}
         /\ AtStep("drain") => access = 2
         /\ AtStep("status") => access = 28
         /\ AtStep("answer") => access = 29 \/ access = 46
<1>1. \A i \in 3 .. 11 : Setup[i].op = "store"
  BY ResetAccesses
<1>2. \A i \in 12 .. 26 : Setup[i].op = "store"
  BY OnceEach DEF InitStores
<1>3. \A i \in 30 .. 44 : Setup[i].op = "store"
  BY OnceEach DEF CallStores
<1>4. /\ Setup[1].op = "mail" /\ Setup[2].op = "drain" /\ Setup[27].op = "mail"
      /\ Setup[28].op = "status" /\ Setup[29].op = "answer" /\ Setup[45].op = "mail"
      /\ Setup[46].op = "answer"
  BY ResetAccesses, InitAccesses, CallAccesses DEF Mail, Wait
<1>5. DOMAIN Setup = 1 .. 46
  BY SetupIs
<1>6. \A i \in 1 .. 46 : i \in 3 .. 11 \/ i \in 12 .. 26 \/ i \in 30 .. 44 \/ i \in {1, 2, 27, 28, 29, 45, 46}
  OBVIOUS
<1>7. ASSUME AtStep("store") PROVE access \in 3 .. 26 \/ access \in 30 .. 44
  BY <1>4, <1>5, <1>6, <1>7 DEF AtStep
<1>8. ASSUME AtStep("mail") PROVE access \in {1, 27, 45}
  BY <1>1, <1>2, <1>3, <1>4, <1>5, <1>6, <1>8 DEF AtStep
<1>9. ASSUME AtStep("drain") PROVE access = 2
  BY <1>1, <1>2, <1>3, <1>4, <1>5, <1>6, <1>9 DEF AtStep
<1>10. ASSUME AtStep("status") PROVE access = 28
  BY <1>1, <1>2, <1>3, <1>4, <1>5, <1>6, <1>10 DEF AtStep
<1>11. ASSUME AtStep("answer") PROVE access = 29 \/ access = 46
  BY <1>1, <1>2, <1>3, <1>4, <1>5, <1>6, <1>11 DEF AtStep
<1> QED BY <1>7, <1>8, <1>9, <1>10, <1>11

(* A store of a call adds its cell to those that are written.              *)
LEMMA StoreWrites ==
  ASSUME NEW block \in {InitStores, CallStores}, access \in block, NEW first \in Int,
         \A i \in first .. access : i \in block,
         Written(memory, first .. access - 1),
         memory' = [a \in DOMAIN memory |->
                      IF a = Setup[access].at THEN Setup[access].word ELSE memory[a]]
  PROVE  Written(memory', first .. access)
<1>1. access \in Int
  <2>1. block = 12 .. 26 \/ block = 30 .. 44
    BY DEF InitStores, CallStores
  <2>2. access \in block
    OBVIOUS
  <2>3. access \in 12 .. 26 \/ access \in 30 .. 44
    BY ONLY <2>1, <2>2, Zenon
  <2> QED BY ONLY <2>3
<1>2. DOMAIN memory' = DOMAIN memory
  OBVIOUS
<1>3. SUFFICES ASSUME NEW i \in first .. access, Setup[i].at \in DOMAIN memory
               PROVE  memory'[Setup[i].at] = Setup[i].word
  BY <1>2 DEF Written
<1>4. CASE i = access
  BY <1>3, <1>4
<1>5. CASE i # access
  <2>1. i \in first .. access - 1 /\ i \in block
    BY <1>1, <1>3, <1>5
  <2>2. Setup[i].at # Setup[access].at
    BY <1>5, <2>1, OnceEach
  <2> QED BY <1>3, <2>1, <2>2 DEF Written
<1> QED BY <1>4, <1>5

LEMMA StoreStep ==
  ASSUME ChipInv, StoreWord
  PROVE  ChipInv'
<1>1. /\ access \in 3 .. 26 \/ access \in 30 .. 44
      /\ access' = access + 1 /\ UNCHANGED <<wanted, inbox, outbox, leftAck>>
      /\ memory' = [a \in DOMAIN memory |->
                      IF a = Setup[access].at THEN Setup[access].word ELSE memory[a]]
  BY Kinds DEF StoreWord, Onwards, ChipInv, CellsOK
<1>2. inbox = 0 \/ leftAck
  BY <1>1 DEF ChipInv, MailOK
<1>3. CellsOK' /\ MailOK'
  <2>1. DOMAIN memory' = DOMAIN memory
    BY <1>1
  <2> QED BY <1>1, <2>1 DEF ChipInv, CellsOK, MailOK
<1>5. access \in 3 .. 11 => (access' \in 12 .. 27 => Written(memory', 12 .. access' - 1))
  BY <1>1 DEF Written
<1>6. ASSUME access \in 12 .. 26 PROVE Written(memory', 12 .. access' - 1)
  <2>1. Written(memory, 12 .. access - 1) /\ access \in InitStores /\ access' - 1 = access
    <3>1. access \in 12 .. 27 /\ access' - 1 = access
      BY <1>1, <1>6
    <3> QED BY <1>6, <3>1 DEF ChipInv, Called, InitStores
  <2>2. \A i \in 12 .. access : i \in InitStores
    BY <1>6 DEF InitStores
  <2>3. 12 \in Int /\ InitStores \in {InitStores, CallStores}
    OBVIOUS
  <2>4. Written(memory', 12 .. access)
    BY ONLY <1>1, <2>1, <2>2, <2>3, StoreWrites
  <2> QED BY ONLY <2>1, <2>4
<1>7. ASSUME access \in 30 .. 44, ~leftAck PROVE Written(memory', 30 .. access' - 1)
  <2>1. Written(memory, 30 .. access - 1) /\ access \in CallStores /\ access' - 1 = access
    <3>1. access \in 30 .. 45 /\ access' - 1 = access
      BY <1>1, <1>7
    <3> QED BY <1>7, <3>1 DEF ChipInv, Called, CallStores
  <2>2. \A i \in 30 .. access : i \in CallStores
    BY <1>7 DEF CallStores
  <2>3. 30 \in Int /\ CallStores \in {InitStores, CallStores}
    OBVIOUS
  <2>4. Written(memory', 30 .. access)
    BY ONLY <1>1, <2>1, <2>2, <2>3, StoreWrites
  <2> QED BY ONLY <2>1, <2>4
<1>8. Called'
  <2>3. /\ access' \in 12 .. 27 => access \in 3 .. 11 \/ access \in 12 .. 26
        /\ access' \in 30 .. 45 => access \in 30 .. 44
    BY <1>1
  <2>1. access' \in 12 .. 27 => Written(memory', 12 .. access' - 1)
    BY ONLY <1>5, <1>6, <2>3, Zenon
  <2>2. access' \in 30 .. 45 => leftAck \/ Written(memory', 30 .. access' - 1)
    BY ONLY <1>7, <2>3, Zenon
  <2>4. inbox' = COMM_EXEC_INT => leftAck
    BY ONLY <1>1, <1>2, Constants
  <2>5. leftAck' <=> leftAck
    BY <1>1
  <2> QED BY ONLY <2>1, <2>2, <2>4, <2>5, Zenon DEF Called
<1> QED BY <1>3, <1>8 DEF ChipInv

LEMMA MailStep ==
  ASSUME ChipInv, MailCommand
  PROVE  ChipInv'
<1>1. /\ access \in {1, 27, 45} /\ access' = access + 1
      /\ inbox' = Setup[access].word /\ wanted' = Setup[access].for
      /\ UNCHANGED <<memory, outbox, leftAck>>
  BY Kinds DEF MailCommand, Onwards, ChipInv, CellsOK
<1>2. CellsOK'
  BY <1>1 DEF ChipInv, CellsOK
<1>3. CASE access = 1
  <2>1. inbox' = COMM_RESET /\ access' = 2
    BY <1>1, <1>3, ResetAccesses DEF Mail
  <2> QED BY <1>1, <1>2, <2>1, Constants DEF ChipInv, MailOK, Called
<1>4. CASE access = 27
  <2>1. inbox' = COMM_EXEC_INT /\ wanted' = HUSB_SIE1_INIT_INT /\ access' = 28
    BY <1>1, <1>4, InitAccesses DEF Mail
  <2>2. 12 .. access - 1 = InitStores /\ access \in 12 .. 27
    BY <1>4 DEF InitStores
  <2>3. Written(memory', InitStores)
    BY <1>1, <2>2 DEF ChipInv, Called
  <2>4. outbox' = COMM_ACK => leftAck'
    BY <1>1, <1>4 DEF ChipInv, MailOK
  <2>5. MailOK'
    BY <2>1, <2>4, Constants DEF MailOK
  <2>6. Called'
    BY <2>1, <2>3 DEF Called
  <2> QED BY <1>2, <2>5, <2>6 DEF ChipInv
<1>5. CASE access = 45
  <2>1. inbox' = COMM_EXEC_INT /\ wanted' = HUSB_RESET_INT /\ access' = 46
    BY <1>1, <1>5, CallAccesses DEF Mail
  <2>2. 30 .. access - 1 = CallStores /\ access \in 30 .. 45
    BY <1>5 DEF CallStores
  <2>3. leftAck' \/ Written(memory', CallStores)
    BY <1>1, <2>2 DEF ChipInv, Called
  <2>4. MailOK'
    BY <2>1, Constants DEF MailOK
  <2>5. Called'
    BY <2>1, <2>3 DEF Called
  <2> QED BY <1>2, <2>4, <2>5 DEF ChipInv
<1> QED BY <1>1, <1>3, <1>4, <1>5

LEMMA WaitStep ==
  ASSUME ChipInv, Drain \/ AwaitStatus \/ ReadAnswer \/ HotPlug
  PROVE  ChipInv'
<1>1. access \in 1 .. 47 /\ UNCHANGED <<memory, wanted, inbox, outbox, leftAck>>
  BY DEF ChipInv, CellsOK, Drain, AwaitStatus, ReadAnswer, HotPlug
<1>2. CASE Drain
  <2>1. access = 2 /\ access' = 3 /\ inbox = 0
    BY <1>1, <1>2, Kinds DEF Drain, Onwards
  <2> QED BY <1>1, <2>1, Constants DEF ChipInv, CellsOK, MailOK, Called
<1>3. CASE AwaitStatus
  <2>1. access = 28 /\ access' = 29
    BY <1>1, <1>3, Kinds DEF AwaitStatus, Onwards
  <2>2. CellsOK' /\ MailOK'
    BY <1>1, <2>1 DEF ChipInv, CellsOK, MailOK
  <2>3. Written(memory', InitStores) <=> Written(memory, InitStores)
    BY ONLY <1>1, Zenon
  <2>4. Called'
    BY <1>1, <2>1, <2>3 DEF ChipInv, Called
  <2> QED BY <2>2, <2>4 DEF ChipInv
<1>4. CASE ReadAnswer
  <2>1. /\ access = 29 \/ access = 46
        /\ access' = IF outbox = COMM_ACK THEN access + 1 ELSE 1
    BY <1>1, <1>4, Kinds DEF ReadAnswer
  <2>2. /\ Written(memory', InitStores) <=> Written(memory, InitStores)
        /\ Written(memory', CallStores) <=> Written(memory, CallStores)
    BY ONLY <1>1, Zenon
  <2>3. CASE access = 29 /\ outbox = COMM_ACK
    <3>1. access' = 30 /\ (inbox # 0 => leftAck)
      BY <2>1, <2>3 DEF ChipInv, MailOK
    <3>2. CellsOK' /\ MailOK'
      BY <1>1, <2>3, <3>1 DEF ChipInv, CellsOK, MailOK
    <3>3. Written(memory', 30 .. access' - 1)
      BY <3>1 DEF Written
    <3>4. Called'
      BY <1>1, <3>1, <3>3, Constants DEF Called
    <3> QED BY <3>2, <3>4 DEF ChipInv
  <2>4. CASE outbox # COMM_ACK \/ access = 46
    <3>1. access' = 1 \/ (access = 46 /\ access' = 47)
      BY <2>1, <2>4
    <3>2. CellsOK' /\ MailOK'
      BY <1>1, <2>1, <3>1 DEF ChipInv, CellsOK, MailOK
    <3>3. Called'
      BY <1>1, <2>1, <2>2, <3>1 DEF ChipInv, Called
    <3> QED BY <3>2, <3>3 DEF ChipInv
  <2> QED BY <2>1, <2>3, <2>4
<1>5. CASE HotPlug
  <2>1. access = 47 /\ access' = 1
    BY <1>5, SetupIs DEF HotPlug
  <2>2. CellsOK' /\ MailOK'
    BY <1>1, <2>1 DEF ChipInv, CellsOK, MailOK
  <2>3. Written(memory', CallStores) <=> Written(memory, CallStores)
    BY ONLY <1>1, Zenon
  <2>4. Called'
    BY <1>1, <2>1, <2>3 DEF ChipInv, Called
  <2> QED BY <2>2, <2>4 DEF ChipInv
<1> QED BY <1>2, <1>3, <1>4, <1>5

LEMMA BiosStep ==
  ASSUME ChipInv, BiosAnswers
  PROVE  ChipInv'
<1>1. /\ inbox # 0 /\ inbox' = 0 /\ UNCHANGED <<access, wanted>>
      /\ DOMAIN memory' = DOMAIN memory
  BY DEF BiosAnswers
<1>2. access \notin 3 .. 27 /\ (access \in 30 .. 45 => leftAck)
  BY <1>1 DEF ChipInv, MailOK
<1>3. /\ inbox # COMM_RESET => (leftAck' <=> leftAck)
      /\ inbox = COMM_RESET => access = 2 /\ (leftAck' <=> outbox' = COMM_ACK)
  BY DEF BiosAnswers, ChipInv, MailOK
<1>4. access = 2 => inbox = COMM_RESET
  BY <1>1 DEF ChipInv, MailOK
<1>5. CellsOK'
  BY <1>1 DEF ChipInv, CellsOK
<1>6. MailOK'
  <2>1. access = 2 /\ outbox' = COMM_ACK => leftAck'
    BY <1>3, <1>4
  <2> QED BY <1>1, <1>2, <2>1, Constants DEF MailOK
<1>7. access' \in 30 .. 45 => leftAck'
  <2>1. access \in 30 .. 45 => inbox # COMM_RESET
    BY <1>3
  <2> QED BY <1>1, <1>2, <1>3, <2>1
<1>8. access' \notin 12 .. 27
  BY <1>1, <1>2
<1>9. inbox' # COMM_EXEC_INT
  BY <1>1, Constants
<1>10. Called'
  BY ONLY <1>7, <1>8, <1>9, Zenon DEF Called
<1> QED BY <1>5, <1>6, <1>10 DEF ChipInv

LEMMA ChipStep == ChipInv /\ [ChipNext]_chipVars => ChipInv'
<1>1. SUFFICES ASSUME ChipInv, [ChipNext]_chipVars PROVE ChipInv'
  OBVIOUS
<1>2. CASE UNCHANGED chipVars
  BY <1>1, <1>2 DEF chipVars, ChipInv, CellsOK, MailOK, Called
<1> QED BY <1>1, <1>2, StoreStep, MailStep, WaitStep, BiosStep DEF ChipNext

(* Whatever the BIOS does with the cells and answers, whichever status bit *)
(* ends main.c's wait for the first call (main.c:103) and however often    *)
(* main.c starts over: a routine that is taken up finds its arguments,     *)
(* unless the last reset has left an ACK in the mailbox.                   *)
THEOREM CallsComplete == ChipSpec => CallComplete
<1>1. ASSUME ChipInv
      PROVE  inbox = COMM_EXEC_INT /\ inbox' = 0 /\ ~leftAck =>
               \A a \in DOMAIN memory : memory[a] = Given(wanted, a)
  <2>1. DOMAIN memory = Arguments \cap DOMAIN memory
    BY <1>1 DEF ChipInv, CellsOK
  <2> QED BY <1>1, <2>1, WrittenIsGiven DEF ChipInv, Called
<1>2. ChipInv /\ [ChipNext]_chipVars =>
        [inbox = COMM_EXEC_INT /\ inbox' = 0 /\ ~leftAck =>
           \A a \in DOMAIN memory : memory[a] = Given(wanted, a)]_chipVars
  BY <1>1
<1> QED BY <1>2, ChipStart, ChipStep, PTL DEF ChipSpec, CallComplete
=============================================================================
