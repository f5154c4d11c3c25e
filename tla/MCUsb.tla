--------------------------------- MODULE MCUsb --------------------------------
(***************************************************************************)
(* The USB host: the program with the controller and the keyboard, and,    *)
(* word by word, the memory its lists share with their data.  UsbHost keeps *)
(* only the words the program looks at, so a behaviour looks at one of the *)
(* two.                                                                    *)
(***************************************************************************)
EXTENDS UsbProperties, TdMemory

VARIABLE subject   \* the part that is looked at

Only(part) ==
  /\ subject = part /\ UNCHANGED subject
  /\ part # "program" => UNCHANGED vars
  /\ part # "memory" => UNCHANGED tdVars

MCInit ==
  /\ subject \in {"program", "memory"}
  /\ UsbInit /\ (subject = "memory" => ~plugged /\ pressed = 0)
  /\ TdInit

MCNext ==
  \/ Only("program") /\ UsbNext
  \/ Only("memory") /\ TdNext

MCVars == <<subject, vars, tdVars>>

(* The processor and the controller do not stop; nothing is expected of    *)
(* the player.  A poll need not be answered with a report.                 *)
MCSpec ==
  /\ MCInit /\ [][MCNext]_MCVars
  /\ WF_MCVars(Only("program") /\ Program) /\ WF_MCVars(Only("program") /\ Controller)
=============================================================================
