---------------------------- MODULE UsbProperties ----------------------------
(***************************************************************************)
(* What is asked of the program of main.c and usb.c.                       *)
(***************************************************************************)
EXTENDS UsbHost

GameKeys == {4, 7, 22, 26, 40}   \* A, D, S, W of pac_motion.sv, Enter of control.sv

Source == INSTANCE KeySource WITH shown <- key, latest <- word

(* The keycode the game sees is the latest report of the keyboard, perhaps *)
(* an old one, or a word that is no command: neither what the memory holds *)
(* of a list (main.c reads 0x051e even when no report came) nor a race     *)
(* between program and controller puts a command of its own there.         *)
OnlyReportedCommands == Source!SourceSpec

(* The step that leaves a request behind because its control byte is 0x03. *)
Passes == pc \in {"control", "recheck"} /\ pc' \notin {"control", "recheck", "retry", "reset"}

(* The 0x03 that lets the program go on was written by a run of the very   *)
(* request it waits for, whatever fails and whenever frames begin: lists   *)
(* are submitted twice, rewritten while they run and share their memory,   *)
(* and yet no answer to an earlier one is taken for it, as long as both    *)
(* submissions are done with when a sleep of 10 ms is over.  When not, the *)
(* answer may be the one to the request before, but never an older one.    *)
OwnAnswer == [][Passes => answered = n \/ (hasty /\ answered = n - 1)]_vars

(* Two of the ways in which the program never comes to its end with a      *)
(* keyboard that answers.  Set address has been carried out twice, the     *)
(* second time in vain, or line 103 of main.c has ended its wait before    *)
(* the answer: both send the program back to the start.                    *)
StartsOver == []<>(pc = "recheck" /\ n = 1) \/ []<>(pc = "ack1" /\ mailbox.text # "ack")

(* The program has written its list again behind the controller's back,    *)
(* and with it the control byte it now reads for ever.                     *)
Overwritten == <>[](pc \in {"retry", "recheck"} /\ control = "active")

(* A keyboard that stays plugged in and answers is configured in the end,  *)
(* and stays so, whenever frames begin, unless the program is caught in    *)
(* one of these two, or a sleep is too short for both submissions.         *)
PluggedIsConfigured ==
  <>[]plugged => <>[]configured \/ StartsOver \/ Overwritten \/ <>[]hasty
=============================================================================
