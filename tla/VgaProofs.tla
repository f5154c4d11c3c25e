------------------------------- MODULE VgaProofs -------------------------------
(***************************************************************************)
(* Theorems about the sync signals of Vga, for every timing that satisfies *)
(* the assumption, and about Picture, for every pixel and every place of   *)
(* the actors.                                                             *)
(***************************************************************************)
EXTENDS Vga, Picture, TLAPS

(* vs is low from the second pixel of line VSYNC - 1 to the first of line  *)
(* VSYNC + 1: where the next line was when it was computed.                *)
VsyncWindow ==
  Fresh \/ (~vs <=> \/ hc > 0 /\ vc + 1 \in {VSYNC, VSYNC + 1}
                    \/ hc = 0 /\ vc \in {VSYNC, VSYNC + 1})

VgaInv == VgaTypeOK /\ HsyncInPlace /\ VsyncWindow

(* What the reset leaves fits the invariant.                               *)
LEMMA ResetFits ==
  /\ VgaInit => VgaInv
  /\ VgaReset => VgaInv'
<1>1. 0 \in 0 .. HPIXELS /\ 0 \in 0 .. VLINES
  BY VgaAssumption
<1>2. ASSUME VgaInit PROVE VgaInv
  <2>1. VgaTypeOK
    BY <1>1, <1>2 DEF VgaInit, VgaTypeOK
  <2>2. Fresh
    BY <1>2 DEF VgaInit, Fresh
  <2> QED BY <2>1, <2>2 DEF VgaInv, HsyncInPlace, VsyncWindow
<1>3. ASSUME VgaReset PROVE VgaInv'
  <2>1. VgaTypeOK'
    BY <1>1, <1>3 DEF VgaReset, VgaTypeOK
  <2>2. Fresh'
    BY <1>3 DEF VgaReset, Fresh
  <2> QED BY <2>1, <2>2 DEF VgaInv, HsyncInPlace, VsyncWindow
<1> QED BY <1>2, <1>3

LEMMA VgaInvStep ==
  VgaInv /\ [VgaNext]_vgaVars => VgaInv'
<1>1. SUFFICES ASSUME VgaInv, [VgaNext]_vgaVars
               PROVE  VgaInv'
  OBVIOUS
<1>2. CASE RisingPixelClk
  <2>1. /\ hc \in 0 .. HPIXELS /\ vc \in 0 .. VLINES
        /\ hc' = IF hc = HPIXELS THEN 0 ELSE hc + 1
        /\ vc' = IF hc # HPIXELS THEN vc ELSE IF vc = VLINES THEN 0 ELSE vc + 1
    BY <1>1, <1>2 DEF VgaInv, VgaTypeOK, RisingPixelClk, Count
  <2>2. /\ hs' = ~(hc + 1 >= HSYNC /\ hc + 1 < HSYNCEND)
        /\ vs' = (vc + 1 \notin {VSYNC, VSYNC + 1})
    BY <1>2 DEF RisingPixelClk, Sync
  <2>3. VgaTypeOK'
    <3>1. hc' \in 0 .. HPIXELS /\ vc' \in 0 .. VLINES
      BY <2>1, VgaAssumption
    <3>2. hs' \in BOOLEAN /\ vs' \in BOOLEAN /\ pixelClk' \in BOOLEAN
      BY <1>2, <2>2 DEF RisingPixelClk
    <3> QED BY <3>1, <3>2 DEF VgaTypeOK
  <2>4. HsyncInPlace'
    <3>1. hc' \in HSYNC .. HSYNCEND - 1 <=> hc + 1 >= HSYNC /\ hc + 1 < HSYNCEND
      BY <2>1, VgaAssumption
    <3> QED BY <2>2, <3>1 DEF HsyncInPlace
  <2>5. VsyncWindow'
    <3>1. ~vs' <=> vc + 1 \in {VSYNC, VSYNC + 1}
      BY <2>2
    <3>2. CASE hc # HPIXELS
      <4>1. hc' > 0 /\ vc' = vc /\ ~(hc' = 0)
        BY <2>1, <3>2, VgaAssumption
      <4> QED BY <3>1, <4>1 DEF VsyncWindow
    <3>3. CASE hc = HPIXELS /\ vc # VLINES
      <4>1. hc' = 0 /\ vc' = vc + 1 /\ ~(hc' > 0)
        BY <2>1, <3>3, VgaAssumption
      <4> QED BY <3>1, <4>1 DEF VsyncWindow
    <3>4. CASE hc = HPIXELS /\ vc = VLINES
      BY <2>1, <3>4 DEF VsyncWindow, Fresh
    <3> QED BY <3>2, <3>3, <3>4
  <2> QED BY <2>3, <2>4, <2>5 DEF VgaInv
<1>3. CASE FallingPixelClk
  BY <1>1, <1>3 DEF VgaInv, FallingPixelClk, VgaTypeOK, HsyncInPlace, VsyncWindow, Fresh
<1>4. CASE VgaReset
  BY <1>4, ResetFits
<1>5. CASE UNCHANGED vgaVars
  BY <1>1, <1>5 DEF VgaInv, vgaVars, VgaTypeOK, HsyncInPlace, VsyncWindow, Fresh
<1> QED BY <1>1, <1>2, <1>3, <1>4, <1>5 DEF VgaNext

(* The counters stay within the frame, which ten bits hold.                *)
THEOREM CountersFit == VgaSpec => []VgaTypeOK
<1>1. VgaInv => VgaTypeOK
  BY DEF VgaInv
<1> QED BY <1>1, ResetFits, VgaInvStep, PTL DEF VgaSpec

(* No sync pulse reaches into the picture.                                 *)
THEOREM PictureIsWhole == VgaSpec => []SyncOutsidePicture
<1>1. VgaInv => SyncOutsidePicture
  <2>1. SUFFICES ASSUME VgaInv, ~Fresh, display PROVE hs /\ vs
    BY DEF SyncOutsidePicture
  <2>2. /\ hc \in 0 .. HPIXELS /\ vc \in 0 .. VLINES /\ hs \in BOOLEAN /\ vs \in BOOLEAN
        /\ hc < HDISPLAY /\ vc < VDISPLAY
    BY <2>1 DEF VgaInv, VgaTypeOK, display
  <2>3. hc \notin HSYNC .. HSYNCEND - 1
    BY <2>2, VgaAssumption
  <2>4. vc + 1 \notin {VSYNC, VSYNC + 1} /\ vc \notin {VSYNC, VSYNC + 1}
    BY <2>2, VgaAssumption
  <2> QED BY <2>1, <2>2, <2>3, <2>4 DEF VgaInv, HsyncInPlace, VsyncWindow
<1> QED BY <1>1, ResetFits, VgaInvStep, PTL DEF VgaSpec

(* hs is low at exactly the pixels the comment names.                      *)
THEOREM HsyncIsInPlace == VgaSpec => []HsyncInPlace
<1>1. VgaInv => HsyncInPlace
  BY DEF VgaInv
<1> QED BY <1>1, ResetFits, VgaInvStep, PTL DEF VgaSpec

-----------------------------------------------------------------------------
(* The picture.                                                            *)

PictureTypeOK ==
  /\ DrawX \in 0 .. 799 /\ DrawY \in 0 .. 524
  /\ ball \in (32 .. 384) \X (32 .. 384) /\ ghost \in (32 .. 384) \X (32 .. 384)
  /\ Direction \in 0 .. 3 /\ level \in {1, 2} /\ hasDot \in BOOLEAN

LEMMA PictureType == PictureSpec => []PictureTypeOK
<1>1. PictureInit => PictureTypeOK
  <2>1. SUFFICES ASSUME PictureInit PROVE PictureTypeOK
    OBVIOUS
  <2>2. DrawX \in 0 .. 799 /\ DrawY \in 0 .. 524 /\ Direction \in 0 .. 3
    BY <2>1 DEF PictureInit
  <2>3. <<32, 32>> \in (32 .. 384) \X (32 .. 384)
    OBVIOUS
  <2>4. ball \in (32 .. 384) \X (32 .. 384) /\ ghost \in (32 .. 384) \X (32 .. 384)
    BY <2>1, <2>3, Zenon DEF PictureInit
  <2>5. level \in {1, 2} /\ hasDot \in BOOLEAN
    BY <2>1 DEF PictureInit
  <2> QED BY <2>2, <2>4, <2>5 DEF PictureTypeOK
<1>2. PictureTypeOK /\ [PictureNext]_pictureVars => PictureTypeOK'
  <2>1. SUFFICES ASSUME PictureTypeOK, [PictureNext]_pictureVars PROVE PictureTypeOK'
    OBVIOUS
  <2>2. ASSUME NEW s \in Spots PROVE s \in (32 .. 384) \X (32 .. 384)
    <3>1. ASSUME NEW n \in Places PROVE n \in 32 .. 384
      BY PictureAssumption
    <3> QED BY <3>1 DEF Spots
  <2>3. CASE BeamMoves
    <3>1. DrawX' \in Columns /\ (DrawY' = DrawY \/ DrawY' \in Lines) /\ UNCHANGED shownVars
      BY <2>3 DEF BeamMoves
    <3>2. DrawX' \in 0 .. 799
      BY <3>1, PictureAssumption
    <3>3. DrawY' \in 0 .. 524
      <4>1. DrawY \in 0 .. 524
        BY <2>1 DEF PictureTypeOK
      <4>2. ASSUME NEW n \in Lines PROVE n \in 0 .. 524
        BY PictureAssumption
      <4> QED BY <4>1, <4>2, <3>1, Zenon
    <3> QED BY <2>1, <3>1, <3>2, <3>3 DEF PictureTypeOK, shownVars
  <2>4. CASE ActorsMove
    <3>1. ball' = ball \/ ball' \in Spots
      BY <2>4 DEF ActorsMove
    <3>2. ghost' = ghost \/ ghost' \in Spots
      BY <2>4 DEF ActorsMove
    <3>3. level' = level \/ level' \in {1, 2}
      BY <2>4, PictureAssumption DEF ActorsMove
    <3>4. /\ Direction' = Direction \/ Direction' \in 0 .. 3
          /\ hasDot' = hasDot \/ hasDot' \in BOOLEAN
          /\ DrawX' = DrawX /\ DrawY' = DrawY
      BY <2>4 DEF ActorsMove
    <3>5. ball' \in (32 .. 384) \X (32 .. 384) /\ ghost' \in (32 .. 384) \X (32 .. 384)
      BY <2>1, <2>2, <3>1, <3>2 DEF PictureTypeOK
    <3> QED BY <2>1, <3>3, <3>4, <3>5 DEF PictureTypeOK
  <2>5. CASE UNCHANGED pictureVars
    BY <2>1, <2>5 DEF PictureTypeOK, pictureVars, shownVars
  <2> QED BY <2>1, <2>3, <2>4, <2>5 DEF PictureNext
<1> QED BY <1>1, <1>2, PTL DEF PictureSpec

(* Ten bits hold what they should, and what is less than 0 comes round.    *)
LEMMA TenBits ==
  ASSUME NEW n \in Int
  PROVE  /\ n \in 0 .. 1023 => Ten(n) = n
         /\ n \in -1024 .. -1 => Ten(n) = n + 1024
BY DEF Ten

(* Each line shows a row of the level, and the rows along which walls run  *)
(* come between the rows of cells, clear of the actors in them.            *)
THEOREM WallsAreRight == PictureSpec => []WallsOfTheLevel
<1>1. PictureTypeOK => WallsOfTheLevel
  <2>1. SUFFICES ASSUME PictureTypeOK, wall_on PROVE WallsOfTheLevel
    BY DEF WallsOfTheLevel
  <2>2. DrawY \in 0 .. 400 /\ level \in {1, 2}
    BY <2>1 DEF PictureTypeOK, wall_on
  <2>3. ASSUME NEW k \in Int, NEW n \in {1, 2}, WallRow(wall_addr) = <<n, k>>
        PROVE  /\ WallRow(wall_addr)[1] = n
               /\ Along(WallRow(wall_addr)) <=> k >= 14 /\ (k - 14) % 32 <= 3
    BY ONLY <2>3 DEF Along
  <2>4. CASE level = 1
    <3>1. wall_addr = DrawY + 220
      BY <2>2, <2>4, TenBits DEF wall_addr
    <3>2. WallRow(wall_addr) = <<1, DrawY>>
      BY <2>2, <3>1 DEF WallRow
    <3>3. /\ WallRow(wall_addr)[1] = 1
          /\ Along(WallRow(wall_addr)) <=> DrawY >= 14 /\ (DrawY - 14) % 32 <= 3
      <4>1. DrawY \in Int /\ 1 \in {1, 2}
        BY <2>2
      <4> QED BY ONLY <2>3, <3>2, <4>1
    <3>4. DrawY >= 14 /\ (DrawY - 14) % 32 <= 3 => DrawY % 32 \in 11 .. 20
      BY <2>2
    <3>5. DrawY % 32 = 15 => DrawY >= 14 /\ (DrawY - 14) % 32 <= 3
      BY <2>2
    <3> QED BY <2>4, <3>3, <3>4, <3>5 DEF WallsOfTheLevel
  <2>5. CASE level = 2 /\ DrawY < 400
    <3>1. wall_addr = DrawY + 624
      BY <2>2, <2>5, TenBits DEF wall_addr
    <3>2. WallRow(wall_addr) = <<2, DrawY + 2>>
      BY <2>2, <2>5, <3>1 DEF WallRow
    <3>3. /\ WallRow(wall_addr)[1] = 2
          /\ Along(WallRow(wall_addr)) <=> DrawY >= 12 /\ (DrawY - 12) % 32 <= 3
      <4>1. (DrawY + 2 >= 14 <=> DrawY >= 12) /\ (DrawY + 2) - 14 = DrawY - 12 /\ DrawY + 2 \in Int
        BY <2>2
      <4>2. /\ WallRow(wall_addr)[1] = 2
            /\ Along(WallRow(wall_addr)) <=> DrawY + 2 >= 14 /\ ((DrawY + 2) - 14) % 32 <= 3
        BY ONLY <2>3, <3>2, <4>1
      <4> QED BY <4>1, <4>2
    <3>4. DrawY >= 12 /\ (DrawY - 12) % 32 <= 3 => DrawY % 32 \in 11 .. 20
      BY <2>2
    <3>5. DrawY % 32 = 15 => DrawY >= 12 /\ (DrawY - 12) % 32 <= 3
      BY <2>2
    <3> QED BY <2>5, <3>3, <3>4, <3>5 DEF WallsOfTheLevel
  <2>6. CASE level = 2 /\ DrawY = 400
    <3>1. wall_addr = 0
      BY <2>6 DEF wall_addr, Ten
    <3>2. WallRow(wall_addr) = <<0, 0>>
      BY <3>1 DEF WallRow
    <3>3. ~Along(WallRow(wall_addr))
      BY <3>2 DEF Along
    <3> QED BY <2>6, <3>1, <3>3 DEF WallsOfTheLevel
  <2> QED BY <2>2, <2>4, <2>5, <2>6
<1> QED BY <1>1, PictureType, PTL

(* A dot is looked up in the cell in whose middle it lies.                 *)
THEOREM DotsAreInPlace == PictureSpec => []DotsInTheirCells
<1>1. ASSUME NEW z \in 17 .. 409, Ten((z + 2) - 32) % 32 <= 3
      PROVE  LET c == (Ten((z + 2) - 32) \div 32) + 1
             IN  c \in 1 .. 12 /\ z - 32 * c \in -2 .. 1
  <2>1. CASE z < 30
    <3>1. Ten((z + 2) - 32) = z + 994
      BY <2>1, TenBits
    <3> QED BY <1>1, <2>1, <3>1
  <2>2. CASE z >= 30
    <3>1. Ten((z + 2) - 32) = z - 30
      BY <2>2, TenBits
    <3> QED BY <1>1, <2>2, <3>1
  <2> QED BY <2>1, <2>2
<1>2. PictureTypeOK => DotsInTheirCells
  BY <1>1, SMTT(60) DEF PictureTypeOK, DotsInTheirCells, dot_on, xp2, yp2, DotCell
<1> QED BY <1>2, PictureType, PTL

(* The column of a pixel in the square around an actor.                    *)
LEMMA SquareSplit ==
  ASSUME PictureTypeOK, NEW p \in (32 .. 384) \X (32 .. 384)
  PROVE  /\ InSquare(p) <=> DrawX - p[1] \in -16 .. 16 /\ DrawY - p[2] \in -16 .. 16
         /\ InSquare(p) => Column(p) = DrawX - p[1] + 16
<1>1. ASSUME NEW n \in 32 .. 384
      PROVE  Ten(n - 16) = n - 16 /\ Ten(n + 16) = n + 16
  BY DEF Ten
<1>2. PICK a \in 32 .. 384, b \in 32 .. 384 : p[1] = a /\ p[2] = b
  <2>1. p[1] \in 32 .. 384 /\ p[2] \in 32 .. 384
    OBVIOUS
  <2> QED BY <2>1, Zenon
<1>3. p[1] = a /\ p[2] = b /\ DrawX \in 0 .. 799 /\ DrawY \in 0 .. 524
  BY <1>2 DEF PictureTypeOK
<1>4. /\ Ten(p[1] - 16) = a - 16 /\ Ten(p[1] + 16) = a + 16
      /\ Ten(p[2] - 16) = b - 16 /\ Ten(p[2] + 16) = b + 16
  BY <1>1, <1>3
<1>5. InSquare(p) <=> DrawX - a \in -16 .. 16 /\ DrawY - b \in -16 .. 16
  BY <1>3, <1>4 DEF InSquare
<1>6. ASSUME InSquare(p) PROVE Column(p) = DrawX - a + 16
  <2>1. (DrawX - a) + 16 \in 0 .. 32
    BY <1>3, <1>5, <1>6
  <2>2. ASSUME NEW n \in 0 .. 32 PROVE Ten(n) = n
    BY DEF Ten
  <2>3. Column(p) = Ten((DrawX - a) + 16)
    BY <1>3 DEF Column
  <2> QED BY <2>1, <2>2, <2>3
<1> QED BY <1>3, <1>5, <1>6

(* No picture uses its first rows, or those after its 27th.               *)
LEMMA PictureMargins ==
  \A k \in 0 .. 4 : \A row, column \in Int :
    InPicture(k, row, column) => row \in 5 .. 26 /\ column \in 3 .. 28
BY DEF InPicture, PictureRows, PictureColumns

(* Of picture k the square shows its own pixels, and of the row after it,  *)
(* which is the next picture's first or blank, none.                       *)
LEMMA SquareShows ==
  ASSUME PictureTypeOK, NEW p \in (32 .. 384) \X (32 .. 384), NEW k \in 0 .. 4
  PROVE  Whole(Shows(p, 96 + 32 * k), p, k)
<1> DEFINE x == DrawX - p[1]
           y == DrawY - p[2]
           row == Row(p, 96 + 32 * k)
<1>1. x \in Int /\ y \in Int
  BY SMTT(60) DEF PictureTypeOK
<1>2. ASSUME y \in -16 .. 16, NEW column \in Int
      PROVE  Lit(row, column) <=> InPicture(k, y + 16, column)
  <2>1. CASE y <= 15
    <3>1. row = y + 112 + 32 * k
      BY <1>1, <1>2, <2>1 DEF Row
    <3>2. row >= 96 /\ (row - 96) \div 32 = k /\ (row - 96) % 32 = y + 16
      BY <1>1, <1>2, <2>1, <3>1
    <3> HIDE DEF row, y
    <3> QED BY <3>2 DEF Lit
  <2>2. CASE y = 16
    <3>1. ~InPicture(k, y + 16, column)
      BY <2>2, PictureMargins
    <3>2. CASE k = 4
      <4>1. row = 0
        BY <2>2, <3>2 DEF Row
      <4> QED BY <3>1, <4>1 DEF Lit
    <3>3. CASE k # 4
      <4>1. row = 128 + 32 * k
        BY <2>2, <3>3 DEF Row
      <4>2. (row - 96) \div 32 = k + 1 /\ (row - 96) % 32 = 0 /\ k + 1 \in 0 .. 4
        BY <3>3, <4>1
      <4>3. ~InPicture(k + 1, 0, column)
        BY <4>2, PictureMargins
      <4> HIDE DEF row, y
      <4> QED BY <3>1, <4>2, <4>3 DEF Lit
    <3> QED BY <3>2, <3>3
  <2> QED BY <1>1, <1>2, <2>1, <2>2
<1>3. SUFFICES ASSUME x # 16 PROVE Shows(p, 96 + 32 * k) <=> InPicture(k, y + 16, x + 16)
  BY DEF Whole
<1>4. CASE InSquare(p)
  <2>1. x \in -16 .. 16 /\ y \in -16 .. 16 /\ Column(p) = x + 16
    BY <1>4, SquareSplit
  <2> HIDE DEF x, y
  <2>2. Column(p) # 32 /\ x + 16 \in Int
    BY <1>1, <1>3, <2>1
  <2>3. Lit(row, Column(p)) <=> InPicture(k, y + 16, x + 16)
    BY <1>2, <2>1, <2>2
  <2> QED BY <1>4, <2>2, <2>3 DEF Shows
<1>5. CASE ~InSquare(p)
  <2>1. ~(x \in -16 .. 16 /\ y \in -16 .. 16)
    BY <1>5, SquareSplit
  <2> HIDE DEF x, y
  <2>2. ~InPicture(k, y + 16, x + 16)
    BY <1>1, <2>1, PictureMargins
  <2> QED BY <1>5, <2>2 DEF Shows
<1> QED BY <1>4, <1>5

(* Pac-Man and the ghosts are drawn whole, and nothing beside them.        *)
THEOREM ActorsAreWhole == PictureSpec => []ActorsWhole
<1>1. ASSUME PictureTypeOK PROVE ActorsWhole
  <2>1. /\ ball \in (32 .. 384) \X (32 .. 384) /\ Direction \in 0 .. 4
        /\ ghost \in (32 .. 384) \X (32 .. 384) /\ 4 \in 0 .. 4 /\ 96 + 32 * 4 = 224
    BY <1>1 DEF PictureTypeOK
  <2>2. Whole(PacShows, ball, Direction)
    BY <1>1, <2>1, SquareShows DEF PacShows
  <2>3. Whole(GhostShows, ghost, 4)
    <3>1. Whole(Shows(ghost, 96 + 32 * 4), ghost, 4)
      BY <1>1, <2>1, SquareShows
    <3> QED BY <2>1, <3>1 DEF GhostShows
  <2> QED BY <2>2, <2>3 DEF ActorsWhole
<1> QED BY <1>1, PictureType, PTL
=============================================================================
