---------------------------------- MODULE Vga ----------------------------------
(***************************************************************************)
(* VGA_controller.sv: the pixel clock, the pixel and line counters and the *)
(* registered sync signals.  A step is a rising edge of Clk; every second  *)
(* one raises clkdiv, the pixel clock, which drives everything else.       *)
(***************************************************************************)
EXTENDS Integers

CONSTANTS
  HPIXELS, VLINES,    \* 799, 524: last pixel of a line, last line of a frame
  HDISPLAY, VDISPLAY, \* 640, 480: the picture
  HSYNC, HSYNCEND,    \* 656, 752: hs is low from HSYNC to HSYNCEND - 1
  VSYNC               \* 490: the first line the comments give to vs

VARIABLES pixelClk, hc, vc, hs, vs

vgaVars == <<pixelClk, hc, vc, hs, vs>>

(* Sync comes after the picture and ends before the frame does; the        *)
(* counters are ten bits wide.                                             *)
ASSUME VgaAssumption ==
  /\ HPIXELS \in Nat /\ VLINES \in Nat /\ HDISPLAY \in Nat /\ VDISPLAY \in Nat
  /\ HSYNC \in Nat /\ HSYNCEND \in Nat /\ VSYNC \in Nat
  /\ 0 < HDISPLAY /\ HDISPLAY <= HSYNC /\ HSYNC < HSYNCEND /\ HSYNCEND <= HPIXELS + 1
  /\ 0 < VDISPLAY /\ VDISPLAY < VSYNC /\ VSYNC + 1 <= VLINES
  /\ HPIXELS < 2^10 /\ VLINES < 2^10

VgaTypeOK ==
  /\ hc \in 0 .. HPIXELS /\ vc \in 0 .. VLINES
  /\ pixelClk \in BOOLEAN /\ hs \in BOOLEAN /\ vs \in BOOLEAN

(* blank of the port list, active low: the pixel belongs to the picture.   *)
display == hc < HDISPLAY /\ vc < VDISPLAY

VgaInit ==
  pixelClk = FALSE /\ hc = 0 /\ vc = 0 /\ hs = FALSE /\ vs = FALSE

VgaReset ==
  pixelClk' = FALSE /\ hc' = 0 /\ vc' = 0 /\ hs' = FALSE /\ vs' = FALSE

(* counter_proc.                                                           *)
Count ==
  /\ hc' = IF hc = HPIXELS THEN 0 ELSE hc + 1
  /\ vc' = IF hc # HPIXELS THEN vc ELSE IF vc = VLINES THEN 0 ELSE vc + 1

(* Mutant: the pulse of hs has no end but the end of the line.             *)
SyncOpen ==
  /\ hs' = ~(hc + 1 >= HSYNC)
  /\ vs' = (vc + 1 \notin {VSYNC, VSYNC + 1})

(* hsync_proc and vsync_proc: registered, so they look one ahead.          *)
Sync ==
  /\ hs' = ~(hc + 1 >= HSYNC /\ hc + 1 < HSYNCEND)
  /\ vs' = (vc + 1 \notin {VSYNC, VSYNC + 1})

RisingPixelClk == ~pixelClk /\ pixelClk' = TRUE /\ Count /\ Sync

FallingPixelClk == pixelClk /\ pixelClk' = FALSE /\ UNCHANGED <<hc, vc, hs, vs>>

VgaNext == RisingPixelClk \/ FallingPixelClk \/ VgaReset

VgaSpec == VgaInit /\ [][VgaNext]_vgaVars

-----------------------------------------------------------------------------
(* Before the first edge of the pixel clock after a reset both sync        *)
(* signals are low at the first pixel of the picture, and only then.       *)
Fresh == hc = 0 /\ vc = 0

(* "horizontal sync pulse is 96 pixels long at pixels 656-752": the        *)
(* register that computes hs one pixel early delays it by just that pixel. *)
HsyncInPlace == Fresh \/ (~hs <=> hc \in HSYNC .. HSYNCEND - 1)

(* No sync pulse reaches into the picture, at either end of a line or of   *)
(* the frame.                                                              *)
SyncOutsidePicture == Fresh \/ (display => hs /\ vs)

(* "vertical sync pulse is 2 lines(800 pixels) long at line 490-491".      *)
VsyncAtItsLines == Fresh \/ (~vs <=> vc \in {VSYNC, VSYNC + 1})
=============================================================================
