------------------------------- MODULE MCScreen -------------------------------
(***************************************************************************)
(* The beam and what it shows: the counters of VGA_controller.sv clock by  *)
(* clock, and Color_Mapper.sv at the borders of everything that it draws.  *)
(* The two share nothing but the columns and rows, so a behaviour looks at *)
(* one of them.                                                            *)
(***************************************************************************)
EXTENDS Vga, Picture

VARIABLE subject   \* the part that is looked at

Only(part) ==
  /\ subject = part /\ UNCHANGED subject
  /\ part # "beam" => UNCHANGED vgaVars
  /\ part # "picture" => UNCHANGED pictureVars

MCInit ==
  /\ subject \in {"beam", "picture"}
  /\ VgaInit
  /\ PictureInit

MCNext ==
  \/ Only("beam") /\ VgaNext
  \/ Only("picture") /\ PictureNext

MCVars == <<subject, vgaVars, pictureVars>>

MCSpec == MCInit /\ [][MCNext]_MCVars
=============================================================================
