--------------------------------- MODULE MCHal ---------------------------------
(***************************************************************************)
(* The parts of the HAL that keep a state, the ports of the processor and  *)
(* the setup of the USB controller.  They share no state, so a behaviour   *)
(* looks at one of them.                                                   *)
(***************************************************************************)
EXTENDS FileTable, HalAlarms, HalInterrupts, WallClock, BusySleep, Peripherals,
        Cy7c67200

VARIABLE subject   \* the part that is looked at

Only(part) ==
  /\ subject = part /\ UNCHANGED subject
  /\ part # "files" => UNCHANGED fileVars
  /\ part # "alarms" => UNCHANGED alarmVars
  /\ part # "interrupts" => UNCHANGED intrVars
  /\ part # "clock" => UNCHANGED clockVars
  /\ part # "sleep" => UNCHANGED sleepVars
  /\ part # "ports" => UNCHANGED portVars
  /\ part # "chip" => UNCHANGED chipVars

MCInit ==
  /\ subject \in {"files", "alarms", "interrupts", "clock", "sleep", "ports", "chip"}
  /\ FileInit
  /\ AlarmInit
  /\ IntrInit
  /\ WallInit
  /\ SleepInit
  /\ PortsReset
  /\ ChipInit /\ (subject # "chip" => COMM_INT_NUM \in DOMAIN memory)

MCNext ==
  \/ Only("files") /\ FileNext
  \/ Only("alarms") /\ AlarmNext
  \/ Only("interrupts") /\ IntrNext
  \/ Only("clock") /\ WallNext
  \/ Only("sleep") /\ SleepNext
  \/ Only("ports") /\ PortsNext
  \/ Only("chip") /\ ChipNext

MCVars == <<subject, fileVars, alarmVars, intrVars, clockVars, sleepVars, portVars,
            chipVars>>

(* The processor runs, and lines follow their devices.                     *)
MCSpec ==
  /\ MCInit /\ [][MCNext]_MCVars
  /\ WF_MCVars(Only("interrupts") /\ Registering) /\ WF_MCVars(Only("interrupts") /\ Exception)
  /\ \A i \in Irqs : WF_MCVars(Only("interrupts") /\ LineFollows(i))
=============================================================================
