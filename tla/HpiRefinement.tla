----------------------------- MODULE HpiRefinement -----------------------------
(***************************************************************************)
(* HpiBus implements HpiPorts.  Two history variables follow the call in   *)
(* progress: how many strobes it has made, and what the register it names  *)
(* has shown before the first of them ended.                               *)
(***************************************************************************)
EXTENDS HpiBus

VARIABLES accesses, seen

histVars == <<busVars, accesses, seen>>

Made(c) == c # None /\ c # Init0

StrobeEnds ==
  (Writing(otg) /\ ~Writing(otg')) \/ (Reading(otg) /\ ~Reading(otg'))

HistInit == BusInit /\ accesses = 0 /\ seen = {}

HistNext ==
  /\ BusNext
  /\ accesses' = IF ~Made(call) \/ ~Made(call') THEN 0
                 ELSE IF StrobeEnds THEN accesses + 1 ELSE accesses
  /\ seen' = IF ~Made(call') THEN {}
             ELSE IF ~Made(call) THEN {reg'[call'.port]}
             ELSE IF accesses' = 0 THEN seen \cup {reg'[call.port]} ELSE seen

HistSpec == HistInit /\ [][HistNext]_histVars

(* The variables of HpiPorts have their names here.                        *)
Abstract == INSTANCE HpiPorts

(* Every IO_write and IO_read makes exactly one access to the register it  *)
(* names, with its word, and a read returns a word the register showed     *)
(* since the call: five PIO stores and three stages of registers do what   *)
(* usb.c takes for one operation.                                          *)
OneAccessPerCall == Abstract!PortsSpec
=============================================================================
