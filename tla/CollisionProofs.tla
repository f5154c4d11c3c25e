---------------------------- MODULE CollisionProofs ----------------------------
(***************************************************************************)
(* Theorems about the ghosts, collisions, waiting and the dots: while the  *)
(* game waits the ghosts stay in the pen, in a level they stay on the      *)
(* track; nobody is hit while the game waits, a hit is missed only on an   *)
(* edge that moves both, no dot is passed over, and the pen is never       *)
(* entered again; and that the game implements the game on cells.          *)
(***************************************************************************)
EXTENDS GameProofs

(* Where a ghost can be in state st.  The walls open around it when a      *)
(* level starts, possibly while it is between two cells of the pen; a cell *)
(* it comes to rest on has an exit or is one of the pen's, so that "no     *)
(* options, go up" is only taken from there.                               *)
GhostFits(st, s) ==
  /\ s \in GhostState
  /\ GhostOnTrack(Walls(st), s)
  /\ AtIntersection(s.x, s.y) =>
       \/ <<Cell(s.x), Cell(s.y)>> \in Pen
       \/ Turns(Walls(st), Cell(s.x), Cell(s.y)) # {}
  /\ st \in Waiting => InPen(s)

GhostInv ==
  /\ PacInv
  /\ \A g \in Ghosts : GhostFits(state, ghost[g])

LEMMA PenOnBoard == Pen \subseteq (1 .. N) \X (1 .. N)
BY PreAssumption DEF Board

(* A ghost in the pen fits the maze of any level.                          *)
LEMMA PenFitsLevel ==
  ASSUME NEW st \in States, NEW s, GhostFits(st, s), InPen(s), NEW st2 \in Playing
  PROVE  GhostFits(st2, s)
<1>1. AtIntersection(s.x, s.y) => <<Cell(s.x), Cell(s.y)>> \in Pen
  BY DEF InPen, CellsOf
<1>2. GhostOnTrack(Walls(st2), s)
  BY DEF GhostFits, GhostOnTrack
<1>3. st2 \notin Waiting
  BY DEF Waiting, Playing
<1> QED BY <1>1, <1>2, <1>3 DEF GhostFits

LEMMA HomeFits == \A st \in States : GhostFits(st, HomeGhost)
<1>1. SUFFICES ASSUME NEW st \in States PROVE GhostFits(st, HomeGhost)
  OBVIOUS
<1> DEFINE gx == GhostStart[1]
           gy == GhostStart[2]
<1>2. gx \in Nat /\ gy \in Nat /\ <<gx, gy>> \in Board /\ <<gx, gy>> \in Pen
  BY GhostAssumption, PreAssumption, BoardAssumption DEF Board
<1>3. /\ Cell(BLOCK * gx) = gx /\ Aligned(BLOCK * gx)
      /\ Cell(BLOCK * gy) = gy /\ Aligned(BLOCK * gy)
  BY <1>2, CellOrigin
<1>4. /\ HomeGhost.x = BLOCK * gx /\ HomeGhost.y = BLOCK * gy
  BY DEF HomeGhost
<1>5. InPen(HomeGhost)
  BY <1>2, <1>3, <1>4 DEF InPen, CellsOf
<1>6. GhostOnTrack(Walls(st), HomeGhost)
  BY <1>2, <1>3, <1>4 DEF GhostOnTrack
<1> QED BY <1>2, <1>3, <1>4, <1>5, <1>6, HomeGhostType DEF GhostFits

LEMMA NoExitUp == \A s, px, py, rand : GhostTurn({}, s, px, py, rand) = "U"
<1>1. /\ ~ \E d \in Dir : {} = {d}
      /\ ~ \E d \in Dir : {} = Dir \ {d}
      /\ {} # Dir
  BY DEF Dir
<1> QED BY <1>1, Zenon DEF GhostTurn

(* The two cells a ghost is in after it leaves an intersection.            *)
LEMMA GhostLeaves ==
  ASSUME NEW st \in States, NEW s, GhostFits(st, s), AtIntersection(s.x, s.y),
         NEW px, NEW py, NEW word \in RandomWord
  PROVE  GhostFits(st, NextGhost(s, Walls(st), px, py, word))
<1> DEFINE cx == Cell(s.x)
           cy == Cell(s.y)
           free == Turns(Walls(st), cx, cy)
           d == GhostTurn(free, s, px, py, word[s.rand])
           t == NextGhost(s, Walls(st), px, py, word)
<1>1. /\ s \in GhostState /\ s.x \in Nat /\ s.y \in Nat
      /\ <<cx, cy>> \in Board /\ cx \in 1 .. N /\ cy \in 1 .. N
      /\ Aligned(s.x) /\ Aligned(s.y)
  BY DEF GhostFits, GhostState, GhostOnTrack, Board, AtIntersection, Coord
<1>2. t \in GhostState
  BY <1>1, NextGhostType
<1>3. word[s.rand] \in 0 .. 3 /\ free \in SUBSET Dir
  BY <1>1, TurnsInDir DEF RandomWord, GhostState
<1>4. d \in Dir /\ (free # {} => d \in free)
  BY <1>3, GhostTurnType
<1>5. t.x = Move(s.x, DX(d)) /\ t.y = Move(s.y, DY(d)) /\ t.dir = d
  BY DEF NextGhost
<1>6. Enclosed(Walls(st))
  BY WallsEnclosed
<1>7. SUFFICES GhostFits(st, t)
  OBVIOUS
<1> HIDE DEF d, t
<1>8. /\ d = "L" => Cell(t.x) = cx - 1 /\ ~Aligned(t.x) /\ t.y = s.y
      /\ d = "R" => Cell(t.x) = cx /\ ~Aligned(t.x) /\ t.y = s.y
      /\ d = "U" => Cell(t.y) = cy - 1 /\ ~Aligned(t.y) /\ t.x = s.x
      /\ d = "D" => Cell(t.y) = cy /\ ~Aligned(t.y) /\ t.x = s.x
  BY <1>1, <1>4, <1>5, Leave
<1>9. ~AtIntersection(t.x, t.y)
  BY <1>4, <1>8 DEF AtIntersection, Dir
<1>10. CASE free # {}
  <2>1. d \in free
    BY <1>4, <1>10
  <2>2. /\ d = "L" => cx > 1 /\ "R" \in Turns(Walls(st), cx - 1, cy)
        /\ d = "R" => cx < N /\ "R" \in Turns(Walls(st), cx, cy)
        /\ d = "U" => cy > 1 /\ "D" \in Turns(Walls(st), cx, cy - 1)
        /\ d = "D" => cy < N /\ "D" \in Turns(Walls(st), cx, cy)
    BY <1>1, <1>6, <2>1, FreeSide
  <2>3. GhostOnTrack(Walls(st), t)
    <3>1. CASE d = "L"
      <4>1. <<cx - 1, cy>> \in Board
        BY BoardAssumption, <1>1, <2>2, <3>1 DEF Board
      <4> QED BY <1>1, <1>5, <1>8, <2>2, <3>1, <4>1 DEF GhostOnTrack
    <3>2. CASE d = "R"
      BY <1>1, <1>5, <1>8, <2>2, <3>2 DEF GhostOnTrack
    <3>3. CASE d = "U"
      <4>1. <<cx, cy - 1>> \in Board
        BY BoardAssumption, <1>1, <2>2, <3>3 DEF Board
      <4> QED BY <1>1, <1>5, <1>8, <2>2, <3>3, <4>1 DEF GhostOnTrack
    <3>4. CASE d = "D"
      BY <1>1, <1>5, <1>8, <2>2, <3>4 DEF GhostOnTrack
    <3> QED BY <1>4, <3>1, <3>2, <3>3, <3>4 DEF Dir
  <2>4. ASSUME st \in Waiting PROVE InPen(t)
    <3>1. <<cx, cy>> \in Pen
      BY <2>4 DEF GhostFits, InPen, CellsOf
    <3>2. Walls(st) = PreWalls
      BY <2>4 DEF Walls, isPre
    <3>3. <<cx + DX(d), cy + DY(d)>> \in Pen
      <4>1. \A e \in Turns(PreWalls, <<cx, cy>>[1], <<cx, cy>>[2]) :
              <<(<<cx, cy>>)[1] + DX(e), (<<cx, cy>>)[2] + DY(e)>> \in Pen
        BY <3>1, PreAssumption
      <4> QED BY <2>1, <3>2, <4>1
    <3>4. CASE d = "L"
      <4>1. <<cx - 1, cy>> \in Pen /\ (cx - 1) + 1 = cx
        BY <1>1, <3>3, <3>4 DEF DX, DY
      <4> QED BY <1>1, <1>8, <3>1, <3>4, <4>1 DEF InPen, CellsOf
    <3>5. CASE d = "R"
      <4>1. <<cx + 1, cy>> \in Pen
        BY <1>1, <3>3, <3>5 DEF DX, DY
      <4> QED BY <1>1, <1>8, <3>1, <3>5, <4>1 DEF InPen, CellsOf
    <3>6. CASE d = "U"
      <4>1. <<cx, cy - 1>> \in Pen /\ (cy - 1) + 1 = cy
        BY <1>1, <3>3, <3>6 DEF DX, DY
      <4> QED BY <1>1, <1>8, <3>1, <3>6, <4>1 DEF InPen, CellsOf
    <3>7. CASE d = "D"
      <4>1. <<cx, cy + 1>> \in Pen
        BY <1>1, <3>3, <3>7 DEF DX, DY
      <4> QED BY <1>1, <1>8, <3>1, <3>7, <4>1 DEF InPen, CellsOf
    <3> QED BY <1>4, <3>4, <3>5, <3>6, <3>7 DEF Dir
  <2> QED BY <1>2, <1>9, <2>3, <2>4 DEF GhostFits
<1>11. CASE free = {}
  <2>1. <<cx, cy>> \in Pen
    BY <1>11 DEF GhostFits
  <2>2. st \notin Waiting
    <3>1. Turns(PreWalls, <<cx, cy>>[1], <<cx, cy>>[2]) # {}
      BY <2>1, PreAssumption
    <3> QED BY <1>11, <3>1 DEF Walls, isPre
  <2>3. cy > 1
    <3>1. 1 \in 1 .. 2
      OBVIOUS
    <3>2. \A c \in Pen : c[2] > 1
      BY <3>1, LevelAssumption
    <3> QED BY <2>1, <3>2
  <2>4. d = "U"
    BY <1>11, NoExitUp DEF d
  <2>5. <<cx, cy - 1>> \in Board /\ (cy - 1) + 1 = cy
    BY BoardAssumption, <1>1, <2>3 DEF Board
  <2>6. GhostOnTrack(Walls(st), t)
    BY <1>1, <1>5, <1>8, <2>1, <2>4, <2>5 DEF GhostOnTrack
  <2> QED BY <1>2, <1>9, <2>2, <2>6 DEF GhostFits
<1> QED BY <1>10, <1>11

(* A ghost between two cells stays between them or reaches one of them.    *)
LEMMA GhostBetween ==
  ASSUME NEW st \in States, NEW s, GhostFits(st, s), ~AtIntersection(s.x, s.y),
         NEW px, NEW py, NEW word \in RandomWord
  PROVE  GhostFits(st, NextGhost(s, Walls(st), px, py, word))
<1> DEFINE cx == Cell(s.x)
           cy == Cell(s.y)
           d == s.dir
           t == NextGhost(s, Walls(st), px, py, word)
<1>1. /\ s \in GhostState /\ s.x \in Nat /\ s.y \in Nat
      /\ <<cx, cy>> \in Board /\ cx \in 1 .. N /\ cy \in 1 .. N
  BY DEF GhostFits, GhostState, GhostOnTrack, Board, Coord
<1>2. t \in GhostState
  BY <1>1, NextGhostType
<1>3. t.x = Move(s.x, DX(d)) /\ t.y = Move(s.y, DY(d)) /\ t.dir = d
  BY DEF NextGhost
<1>4. Enclosed(Walls(st))
  BY WallsEnclosed
<1>5. SUFFICES GhostFits(st, t)
  OBVIOUS
<1> HIDE DEF t
<1>6. CASE ~Aligned(s.x)
  <2>1. Aligned(s.y) /\ d \in {"L", "R"} /\ d \in Dir
    BY <1>6 DEF GhostFits, GhostOnTrack, Dir
  <2>2. /\ t.y = s.y
        /\ ~Aligned(t.x) => Cell(t.x) = cx
        /\ Aligned(t.x) => Cell(t.x) \in {cx, cx + 1}
    BY <1>1, <1>3, <1>6, <2>1, Between
  <2>3. \/ "R" \in Turns(Walls(st), cx, cy)
        \/ <<cx, cy>> \in Pen /\ <<cx + 1, cy>> \in Pen
    BY <1>6, <2>1 DEF GhostFits, GhostOnTrack, InPen, CellsOf
  <2>4. <<cx + 1, cy>> \in Board
    <3>1. CASE "R" \in Turns(Walls(st), cx, cy)
      BY BoardAssumption, <1>1, <1>4, <3>1, FreeSide DEF Board
    <3> QED BY <2>3, <3>1, PenOnBoard DEF Board
  <2>5. CellsOf(t.x, t.y) \subseteq CellsOf(s.x, s.y)
    BY <1>6, <2>1, <2>2 DEF CellsOf
  <2>6. InPen(s) => InPen(t)
    BY <2>5 DEF InPen
  <2>7. GhostOnTrack(Walls(st), t)
    <3>1. CASE Aligned(t.x)
      BY <1>1, <2>1, <2>2, <2>4, <3>1 DEF GhostOnTrack
    <3>2. CASE ~Aligned(t.x)
      BY <1>1, <1>3, <1>6, <2>1, <2>2, <2>3, <3>2 DEF GhostOnTrack, InPen, CellsOf
    <3> QED BY <3>1, <3>2
  <2>8. ASSUME AtIntersection(t.x, t.y), <<Cell(t.x), Cell(t.y)>> \notin Pen
        PROVE  Turns(Walls(st), Cell(t.x), Cell(t.y)) # {}
    <3>1. Aligned(t.x) /\ Cell(t.x) \in {cx, cx + 1} /\ Cell(t.y) = cy
      BY <2>2, <2>8 DEF AtIntersection
    <3>2. "R" \in Turns(Walls(st), cx, cy)
      BY <2>3, <2>8, <3>1
    <3>3. "L" \in Turns(Walls(st), cx + 1, cy)
      BY <1>1, <1>4, <3>2, FreeSide
    <3> QED BY <3>1, <3>2, <3>3
  <2> QED BY <1>2, <2>6, <2>7, <2>8 DEF GhostFits
<1>7. CASE ~Aligned(s.y)
  <2>1. Aligned(s.x) /\ d \in {"U", "D"} /\ d \in Dir
    BY <1>7 DEF GhostFits, GhostOnTrack, Dir
  <2>2. /\ t.x = s.x
        /\ ~Aligned(t.y) => Cell(t.y) = cy
        /\ Aligned(t.y) => Cell(t.y) \in {cy, cy + 1}
        /\ d = "U" => Cell(t.y) = cy
    BY <1>1, <1>3, <1>7, <2>1, Between
  <2>3. \/ "D" \in Turns(Walls(st), cx, cy)
        \/ <<cx, cy>> \in Pen /\ <<cx, cy + 1>> \in Pen
        \/ d = "U" /\ <<cx, cy + 1>> \in Pen
    BY <1>7, <2>1 DEF GhostFits, GhostOnTrack, InPen, CellsOf
  <2>4. <<cx, cy + 1>> \in Board
    <3>1. CASE "D" \in Turns(Walls(st), cx, cy)
      BY BoardAssumption, <1>1, <1>4, <3>1, FreeSide DEF Board
    <3> QED BY <2>3, <3>1, PenOnBoard DEF Board
  <2>5. CellsOf(t.x, t.y) \subseteq CellsOf(s.x, s.y)
    BY <1>7, <2>1, <2>2 DEF CellsOf
  <2>6. InPen(s) => InPen(t)
    BY <2>5 DEF InPen
  <2>7. GhostOnTrack(Walls(st), t)
    <3>1. CASE Aligned(t.y)
      BY <1>1, <2>1, <2>2, <2>4, <3>1 DEF GhostOnTrack
    <3>2. CASE ~Aligned(t.y)
      BY <1>1, <1>3, <1>7, <2>1, <2>2, <2>3, <3>2 DEF GhostOnTrack, InPen, CellsOf
    <3> QED BY <3>1, <3>2
  <2>8. ASSUME AtIntersection(t.x, t.y), <<Cell(t.x), Cell(t.y)>> \notin Pen
        PROVE  Turns(Walls(st), Cell(t.x), Cell(t.y)) # {}
    <3>1. Aligned(t.y) /\ Cell(t.y) \in {cy, cy + 1} /\ Cell(t.x) = cx
      BY <2>2, <2>8 DEF AtIntersection
    <3>2. CASE "D" \in Turns(Walls(st), cx, cy)
      <4>1. "U" \in Turns(Walls(st), cx, cy + 1)
        BY <1>1, <1>4, <3>2, FreeSide
      <4> QED BY <3>1, <3>2, <4>1
    <3>3. CASE d = "U" /\ <<cx, cy + 1>> \in Pen /\ ~(<<cx, cy>> \in Pen)
      <4>1. Cell(t.y) = cy /\ (cy + 1) - 1 = cy
        BY <1>1, <2>2, <3>3
      <4>2. st \notin Waiting
        BY <1>7, <2>1, <3>3 DEF GhostFits, InPen, CellsOf
      <4>3. \A i \in 1 .. 2, c \in Pen :
              <<c[1], c[2] - 1>> \in Pen \/ Turns(LevelWalls[i], c[1], c[2] - 1) # {}
        BY LevelAssumption
      <4>4. level(st) \in 1 .. 2 /\ Walls(st) = LevelWalls[level(st)]
        BY <4>2 DEF level, Walls, isPre
      <4> QED BY <3>1, <3>3, <4>1, <4>3, <4>4
    <3> QED BY <2>3, <2>8, <3>1, <3>2, <3>3
  <2> QED BY <1>2, <2>6, <2>7, <2>8 DEF GhostFits
<1> QED BY <1>6, <1>7 DEF AtIntersection

LEMMA GhostMoves ==
  ASSUME NEW st \in States, NEW s, GhostFits(st, s),
         NEW px, NEW py, NEW word \in RandomWord
  PROVE  GhostFits(st, NextGhost(s, Walls(st), px, py, word))
BY GhostLeaves, GhostBetween

-----------------------------------------------------------------------------
(* The invariant of the ghosts.                                            *)

LEMMA GhostInvInit == GameInit => GhostInv
<1>1. ASSUME GameInit PROVE GhostInv
  <2>1. PacInv
    BY <1>1, PacInvInit
  <2>2. state \in States /\ \A g \in Ghosts : ghost[g] = HomeGhost
    BY <1>1, <2>1 DEF GameInit, GhostInit, PacInv, GameTypeOK, ControlTypeOK
  <2> QED BY <2>1, <2>2, HomeFits DEF GhostInv
<1> QED BY <1>1

(* What an edge does to one ghost: it is reset, holds, or moves in the     *)
(* maze of the state before or after the edge.                             *)
LEMMA GhostOnEdge ==
  ASSUME NEW g \in Ghosts, GhostsHold \/ GhostEdge
  PROVE  \/ ghost'[g] = HomeGhost
         \/ ~resetAll' /\ ghost'[g] = ghost[g]
         \/ ~resetAll' /\ \E s \in {state, state'}, p \in {<<pacX, pacY>>, <<pacX', pacY'>>},
                             word \in RandomWord :
               ghost'[g] = NextGhost(ghost[g], Walls(s), p[1], p[2], word)
<1>1. CASE GhostReset
  BY <1>1 DEF GhostReset
<1>2. CASE ~resetAll' /\ UNCHANGED ghost
  BY <1>2
<1>3. CASE ~resetAll' /\ \E s \in {state, state'}, p \in {<<pacX, pacY>>, <<pacX', pacY'>>},
              words \in [Ghosts -> RandomWord] : GhostTick(Walls(s), p[1], p[2], words)
  <2>1. PICK s \in {state, state'}, p \in {<<pacX, pacY>>, <<pacX', pacY'>>},
             words \in [Ghosts -> RandomWord] : GhostTick(Walls(s), p[1], p[2], words)
    BY <1>3
  <2>2. words[g] \in RandomWord
    OBVIOUS
  <2>3. ghost'[g] = NextGhost(ghost[g], Walls(s), p[1], p[2], words[g])
    BY <2>1 DEF GhostTick
  <2> QED BY <1>3, <2>2, <2>3
<1> QED BY <1>1, <1>2, <1>3 DEF GhostsHold, GhostEdge

LEMMA GhostInvStep == GhostInv /\ [GameNext]_gameVars => GhostInv'
<1>1. SUFFICES ASSUME GhostInv, [GameNext]_gameVars PROVE GhostInv'
  OBVIOUS
<1>2. PacInv'
  BY <1>1, PacInvStep DEF GhostInv
<1>3. /\ ControlTypeOK /\ DotsTypeOK /\ state \in States
      /\ state' \in States
  BY <1>1, <1>2 DEF GhostInv, PacInv, GameTypeOK, ControlTypeOK
<1>4. SUFFICES ASSUME NEW g \in Ghosts PROVE GhostFits(state', ghost'[g])
  BY <1>2 DEF GhostInv
<1>5. GhostFits(state, ghost[g])
  BY <1>1 DEF GhostInv
<1>6. ASSUME Registers, GhostsHold \/ GhostEdge
      PROVE  GhostFits(state', ghost'[g])
  <2>1. ~resetAll' => state' = state \/ (state \in Waiting /\ state' \in Playing)
    BY <1>3, <1>6, RegistersStep
  <2>2. CASE ghost'[g] = HomeGhost
    BY <1>3, <2>2, HomeFits
  <2>3. ASSUME state \in Waiting, state' \in Playing, NEW s, GhostFits(state, s)
        PROVE  GhostFits(state', s)
    <3>1. InPen(s)
      BY <2>3 DEF GhostFits
    <3> QED BY <1>3, <2>3, <3>1, PenFitsLevel
  <2>4. CASE ~resetAll' /\ ghost'[g] = ghost[g]
    <3>1. CASE state' = state
      BY <1>5, <2>4, <3>1
    <3>2. CASE state \in Waiting /\ state' \in Playing
      BY <1>5, <2>3, <2>4, <3>2
    <3> QED BY <2>1, <2>4, <3>1, <3>2
  <2>5. ASSUME ~resetAll', NEW s \in {state, state'}, NEW px, NEW py,
               NEW word \in RandomWord,
               ghost'[g] = NextGhost(ghost[g], Walls(s), px, py, word)
        PROVE  GhostFits(state', ghost'[g])
    <3>1. CASE s = state
      <4>1. GhostFits(state, ghost'[g])
        BY <1>3, <1>5, <2>5, <3>1, GhostMoves
      <4>2. CASE state' = state
        BY <4>1, <4>2
      <4>3. CASE state \in Waiting /\ state' \in Playing
        BY <2>3, <4>1, <4>3
      <4> QED BY <2>1, <2>5, <4>2, <4>3
    <3>2. CASE s = state' /\ state \in Waiting /\ state' \in Playing
      <4>1. GhostFits(state', ghost[g])
        BY <1>5, <2>3, <3>2
      <4> QED BY <1>3, <2>5, <3>2, <4>1, GhostMoves
    <3> QED BY <2>1, <2>5, <3>1, <3>2
  <2> QED BY <1>6, <2>2, <2>4, <2>5, GhostOnEdge
<1>7. CASE PushReset
  <2>1. ghost'[g] = HomeGhost
    BY <1>7 DEF PushReset, GhostReset
  <2> QED BY <1>3, <2>1, HomeFits
<1>8. CASE UNCHANGED gameVars
  BY <1>5, <1>8 DEF gameVars
<1> QED BY <1>1, <1>6, <1>7, <1>8
     DEF GameNext, ClkEdge, ClkEdgePac, ClkEdgeGhosts, ClkEdgeBoth

(* A ghost stays on the board and between two cells on one axis only, and  *)
(* crosses a wall only inside the pen or going up out of it, whichever     *)
(* maze a racing edge of ghostClk sampled.                                 *)
THEOREM GhostsStayOnTrack == GameSpec => []GhostsOnTrack
<1>1. GhostInv => GhostsOnTrack
  BY DEF GhostInv, GhostFits, GhostsOnTrack
<1> QED BY <1>1, GhostInvInit, GhostInvStep, PTL DEF GameSpec

-----------------------------------------------------------------------------
(* What the wrapping arithmetic of hitPacman computes on the board.        *)

Distance(a, b) == IF a >= b THEN a - b ELSE b - a

LEMMA SubSign ==
  ASSUME NEW a \in Nat, NEW b \in Nat, 2 * (a + 1) <= WIDTH, 2 * (b + 1) <= WIDTH
  PROVE  /\ a >= b => Sub(a, b) = a - b /\ ~Negative(Sub(a, b))
         /\ a < b => Sub(a, b) = a - b + WIDTH /\ Negative(Sub(a, b))
<1>1. WIDTH \in Nat /\ WIDTH > 0 /\ WIDTH % 2 = 0
  BY BoardAssumption
<1>2. PICK h \in Nat : h = WIDTH \div 2 /\ WIDTH = 2 * h
  BY <1>1
<1>3. a < h /\ b < h
  BY <1>1, <1>2
<1>4. \A v \in Nat : v < WIDTH => v % WIDTH = v
  BY <1>1
<1>5. CASE a >= b
  <2>1. a - b \in Nat /\ a - b < WIDTH /\ a - b < h
    BY <1>2, <1>3, <1>5
  <2> QED BY <1>2, <1>4, <1>5, <2>1 DEF Sub, Negative
<1>6. CASE a < b
  <2>1. /\ a - b \in Int
        /\ (a - b) % WIDTH \in 0 .. WIDTH - 1
        /\ a - b = WIDTH * ((a - b) \div WIDTH) + ((a - b) % WIDTH)
        /\ (a - b) \div WIDTH \in Int
    BY <1>1
  <2>2. PICK q \in Int, r \in 0 .. WIDTH - 1 :
          r = (a - b) % WIDTH /\ a - b = WIDTH * q + r
    BY <2>1
  <2>3. a - b + WIDTH \in 0 .. WIDTH - 1
    BY <1>1, <1>2, <1>3, <1>6
  <2>4. WIDTH * (-1) + (a - b + WIDTH) = WIDTH * q + r
    BY <1>1, <2>2
  <2>5. r = a - b + WIDTH
    BY <1>1, <2>2, <2>3, <2>4, Euclid
  <2>6. a - b + WIDTH >= h
    BY <1>2, <1>3
  <2>7. Sub(a, b) = a - b + WIDTH
    BY <2>2, <2>5 DEF Sub
  <2> QED BY <1>2, <1>6, <2>6, <2>7 DEF Negative
<1> QED BY <1>5, <1>6

LEMMA AbsDiffIsDistance ==
  ASSUME NEW a \in Nat, NEW b \in Nat, 2 * (a + 1) <= WIDTH, 2 * (b + 1) <= WIDTH
  PROVE  /\ AbsDiff(a, b) = Distance(a, b)
         /\ Distance(a, b) \in Nat /\ 2 * (Distance(a, b) + 1) <= WIDTH
<1>1. WIDTH \in Nat
  BY BoardAssumption
<1> QED BY <1>1, SubSign DEF AbsDiff, Distance

(* hitPacman is exactly: one distance is collisionDist, the other is less. *)
LEMMA HitIsRing ==
  ASSUME NEW s, NEW px \in Nat, NEW py \in Nat, s.x \in Nat, s.y \in Nat,
         Cell(s.x) \in 1 .. N, Cell(s.y) \in 1 .. N, Cell(px) \in 1 .. N, Cell(py) \in 1 .. N
  PROVE  /\ HitPacman(s, px, py) <=>
              \/ Distance(s.x, px) = COLLIDE /\ Distance(s.y, py) < COLLIDE
              \/ Distance(s.y, py) = COLLIDE /\ Distance(s.x, px) < COLLIDE
         /\ Overlap(s, px, py) <=>
              Distance(s.x, px) < COLLIDE /\ Distance(s.y, py) < COLLIDE
<1>1. /\ 2 * (s.x + 1) <= WIDTH /\ 2 * (s.y + 1) <= WIDTH
      /\ 2 * (px + 1) <= WIDTH /\ 2 * (py + 1) <= WIDTH /\ px >= BLOCK
  BY BoardCoord
<1>2. PICK dx \in Nat, dy \in Nat :
        /\ dx = Distance(s.x, px) /\ dy = Distance(s.y, py)
        /\ dx = AbsDiff(s.x, px) /\ dy = AbsDiff(s.y, py)
        /\ 2 * (dx + 1) <= WIDTH /\ 2 * (dy + 1) <= WIDTH
  BY <1>1, AbsDiffIsDistance
<1>3. COLLIDE \in Nat /\ WIDTH \in Nat /\ WIDTH > 0 /\ 2 * (COLLIDE + 1) <= WIDTH
  BY <1>1, GhostAssumption, BoardAssumption
<1>4. /\ (Sub(dx, COLLIDE) = 0) <=> dx = COLLIDE
      /\ Negative(Sub(dx, COLLIDE)) <=> dx < COLLIDE
  BY <1>2, <1>3, SubSign
<1>5. /\ (Sub(dy, COLLIDE) = 0) <=> dy = COLLIDE
      /\ Negative(Sub(dy, COLLIDE)) <=> dy < COLLIDE
  BY <1>2, <1>3, SubSign
<1> QED BY <1>2, <1>4, <1>5 DEF HitPacman, Overlap

(* Pac-Man at home and a ghost in the pen are apart.                       *)
LEMMA HomeIsSafe ==
  ASSUME NEW s \in GhostState, InPen(s), NEW px, NEW py,
         px = BLOCK * PacStart[1], py = BLOCK * PacStart[2]
  PROVE  ~HitPacman(s, px, py) /\ ~Overlap(s, px, py)
<1> DEFINE a == PacStart[1]
           b == PacStart[2]
<1>1. /\ BLOCK \in Nat /\ BLOCK >= 2 /\ COLLIDE \in Nat /\ COLLIDE < BLOCK
      /\ a \in Nat /\ b \in Nat /\ a \in 1 .. N /\ b \in 1 .. N
      /\ s.x \in Nat /\ s.y \in Nat
  BY BoardAssumption, GhostAssumption, PacStartAssumption DEF Board, GhostState, Coord
<1>2. px \in Nat /\ Cell(px) = a /\ py \in Nat /\ Cell(py) = b
  BY <1>1, CellOrigin
<1>3. <<Cell(s.x), Cell(s.y)>> \in Pen
  BY DEF InPen, CellsOf
<1>4. Cell(s.x) \in 1 .. N /\ Cell(s.y) \in 1 .. N
  BY <1>3, PenOnBoard
<1>5. Cell(s.x) > a \/ Cell(s.y) > b
  BY <1>3, ApartAssumption
<1>6. ASSUME NEW p \in Nat, NEW c \in Nat, Cell(p) > c
      PROVE  p >= BLOCK * c + BLOCK
  <2>1. PICK q \in Nat, r \in 0 .. BLOCK - 1 : q = Cell(p) /\ p = BLOCK * q + r
    BY <1>1, CellSplit
  <2>2. q >= c + 1
    BY <1>6, <2>1
  <2>3. BLOCK * q >= BLOCK * (c + 1) /\ BLOCK * (c + 1) = BLOCK * c + BLOCK
    BY <1>1, <2>1, <2>2
  <2> QED BY <1>1, <2>1, <2>3
<1>7. Distance(s.x, px) > COLLIDE \/ Distance(s.y, py) > COLLIDE
  BY <1>1, <1>2, <1>5, <1>6 DEF Distance
<1> QED BY <1>1, <1>2, <1>4, <1>7, HitIsRing DEF Distance

-----------------------------------------------------------------------------
(* The invariant: what waiting, a reset and the dots promise, on top of    *)
(* where the actors can be.                                                *)
GameInv ==
  /\ GhostInv
  /\ WaitingAtHome
  /\ ResetClean
  /\ NoDotSkipped

LEMMA NobodyHitAtHome ==
  /\ GhostTypeOK /\ PacHome /\ (\A g \in Ghosts : InPen(ghost[g])) => ~pacManDied
  /\ GhostTypeOK' /\ PacHome' /\ (\A g \in Ghosts : InPen(ghost'[g])) => ~pacManDied'
BY HomeIsSafe DEF GhostTypeOK, PacHome, pacManDied

LEMMA HomeAtIntersection ==
  /\ PacHome => AtIntersection(pacX, pacY) /\ UnderPac(pacX, pacY) = {PacStart}
  /\ PacHome' => AtIntersection(pacX', pacY')
<1>1. /\ PacStart[1] \in Nat /\ PacStart[2] \in Nat
      /\ PacStart \in Board /\ PacStart = <<PacStart[1], PacStart[2]>>
  BY PacStartAssumption, BoardAssumption DEF Board
<1> QED BY <1>1, CellOrigin DEF PacHome, AtIntersection, UnderPac

LEMMA HomeGhostInPen == InPen(HomeGhost)
<1>1. "NEWGAME" \in States /\ "NEWGAME" \in Waiting
  BY DEF States, Waiting
<1> QED BY <1>1, HomeFits DEF GhostFits

(* The two cells around an actor that leaves an intersection include the   *)
(* one it leaves, and do not change while it is between them.              *)
LEMMA CellLeft ==
  ASSUME NEW x \in Nat, NEW y \in Nat, <<Cell(x), Cell(y)>> \in Board,
         AtIntersection(x, y), NEW d \in Motion
  PROVE  <<Cell(x), Cell(y)>> \in CellsOf(Move(x, DX(d)), Move(y, DY(d)))
<1> DEFINE x2 == Move(x, DX(d))
           y2 == Move(y, DY(d))
<1>1. Cell(x) \in 1 .. N /\ Cell(y) \in 1 .. N /\ Cell(x) \in Nat /\ Cell(y) \in Nat
  BY CellSplit DEF Board
<1>2. CASE d = "none"
  <2>1. x2 = x /\ y2 = y
    BY <1>1, <1>2, BoardCoord DEF DX, DY
  <2> QED BY <2>1 DEF CellsOf
<1>3. ASSUME d \in Dir PROVE <<Cell(x), Cell(y)>> \in CellsOf(x2, y2)
  <2>1. /\ d = "L" => Cell(x2) = Cell(x) - 1 /\ ~Aligned(x2) /\ y2 = y
        /\ d = "R" => Cell(x2) = Cell(x) /\ ~Aligned(x2) /\ y2 = y
        /\ d = "U" => Cell(y2) = Cell(y) - 1 /\ ~Aligned(y2) /\ x2 = x
        /\ d = "D" => Cell(y2) = Cell(y) /\ ~Aligned(y2) /\ x2 = x
    BY <1>3, Leave
  <2> HIDE DEF x2, y2
  <2>2. (Cell(x) - 1) + 1 = Cell(x) /\ (Cell(y) - 1) + 1 = Cell(y)
    BY <1>1
  <2> QED BY <1>3, <2>1, <2>2 DEF CellsOf, Dir
<1> QED BY <1>2, <1>3 DEF Motion

LEMMA CellsKept ==
  ASSUME NEW x \in Nat, NEW y \in Nat, <<Cell(x), Cell(y)>> \in Board,
         NEW d \in Dir,
         \/ ~Aligned(x) /\ Aligned(y) /\ d \in {"L", "R"}
         \/ ~Aligned(y) /\ Aligned(x) /\ d \in {"U", "D"},
         ~AtIntersection(Move(x, DX(d)), Move(y, DY(d)))
  PROVE  CellsOf(Move(x, DX(d)), Move(y, DY(d))) = CellsOf(x, y)
<1> DEFINE x2 == Move(x, DX(d))
           y2 == Move(y, DY(d))
<1>1. CASE ~Aligned(x) /\ Aligned(y) /\ d \in {"L", "R"}
  <2>1. y2 = y /\ (~Aligned(x2) => Cell(x2) = Cell(x))
    BY <1>1, Between
  <2> HIDE DEF x2, y2
  <2> QED BY <1>1, <2>1 DEF CellsOf, AtIntersection, x2, y2
<1>2. CASE ~Aligned(y) /\ Aligned(x) /\ d \in {"U", "D"}
  <2>1. x2 = x /\ (~Aligned(y2) => Cell(y2) = Cell(y))
    BY <1>2, Between
  <2> HIDE DEF x2, y2
  <2> QED BY <1>2, <2>1 DEF CellsOf, AtIntersection, x2, y2
<1> QED BY <1>1, <1>2

-----------------------------------------------------------------------------
(* An edge of Clk, seen from Pac-Man: he is reset, holds, or moves in the  *)
(* maze of the state before or after it; he cannot leave home before the   *)
(* edge that starts a level.                                               *)
LEMMA PacOnEdge ==
  ASSUME GameInv, Registers, PacHolds \/ PacEdge
  PROVE  /\ resetAll' => PacReset
         /\ ~resetAll' => \/ UNCHANGED pacVars
                          \/ \E d \in Motion :
                               /\ pacX' = Move(pacX, DX(d))
                               /\ pacY' = Move(pacY, DY(d))
                               /\ ~AtIntersection(pacX, pacY) =>
                                    \/ d = pacDir
                                    \/ pacDir \in Dir /\ d = Opposite[pacDir]
         /\ state \in Waiting /\ state' = state => PacHome'
<1>1. /\ PacInv /\ PacTypeOK /\ ControlTypeOK /\ (state \in Waiting => PacHome)
  BY DEF GameInv, GhostInv, PacInv, GameTypeOK
<1>2. CASE resetAll'
  BY <1>2, ResetTypes DEF PacHolds, PacEdge
<1>3. CASE ~resetAll' /\ UNCHANGED pacVars
  BY <1>1, <1>3 DEF pacVars, PacHome
<1>4. CASE ~resetAll' /\ \E key \in Keys, s \in {state, state'} : PacTick(key, Walls(s))
  <2>1. PICK key \in Keys, s \in {state, state'} : PacTick(key, Walls(s))
    BY <1>4
  <2> DEFINE d == MotionFinal(key, Turns(Walls(s), Cell(pacX), Cell(pacY)))
  <2>2. d \in Motion /\ pacX' = Move(pacX, DX(d)) /\ pacY' = Move(pacY, DY(d))
    BY <1>1, <2>1, MotionFinalType DEF PacTick
  <2>3. ~AtIntersection(pacX, pacY) =>
          d = pacDir \/ (pacDir \in Dir /\ d = Opposite[pacDir])
    BY DEF MotionFinal, PacAtIntersection
  <2>4. ASSUME state \in Waiting, state' = state PROVE PacHome'
    BY <1>1, <2>1, <2>4, PacStaysHome
  <2> HIDE DEF d
  <2> QED BY <1>4, <2>2, <2>3, <2>4
<1> QED BY <1>2, <1>3, <1>4 DEF PacHolds, PacEdge

(* The edge that raises resetAll.                                          *)
LEMMA ResetEdge ==
  ASSUME GameInv, Registers, PacHolds \/ PacEdge,
         GhostsHold \/ GhostEdge, resetAll', GhostInv'
  PROVE  GameInv'
<1>1. PacReset /\ GhostReset
  BY DEF PacHolds, PacEdge, GhostsHold, GhostEdge
<1>2. eaten' = {}
  BY DEF Registers, DotsEdge
<1>3. PacHome' /\ lastTurn' = "none" /\ GhostTypeOK'
  BY <1>1, ResetTypes
<1>4. \A g \in Ghosts : ghost'[g] = HomeGhost /\ InPen(ghost'[g])
  BY <1>1, HomeGhostInPen DEF GhostReset
<1>5. state' \in Waiting
  BY RegistersStep DEF GameInv, GhostInv, PacInv, GameTypeOK
<1>6. ~pacManDied'
  BY <1>3, <1>4, NobodyHitAtHome
<1>7. WaitingAtHome' /\ ResetClean'
  BY <1>2, <1>3, <1>4, <1>5, <1>6 DEF WaitingAtHome, ResetClean
<1>8. NoDotSkipped'
  BY <1>3, HomeAtIntersection DEF NoDotSkipped
<1> QED BY <1>7, <1>8 DEF GameInv

(* An edge that leaves resetAll low.                                       *)
LEMMA QuietEdge ==
  ASSUME GameInv, Registers, PacHolds \/ PacEdge,
         GhostsHold \/ GhostEdge, ~resetAll', GhostInv'
  PROVE  GameInv'
<1>1. /\ PacInv /\ PacTypeOK /\ PacOnTrack /\ ControlTypeOK /\ DotsTypeOK /\ GhostTypeOK'
  BY DEF GameInv, GhostInv, PacInv, GameTypeOK
<1>2. state' = state \/ (state \in Waiting /\ state' \in Playing)
  BY <1>1, RegistersStep
<1>3. eaten' = IF resetAll THEN {} ELSE eaten \cup UnderPac(pacX, pacY)
  <2>1. eaten' = IF resetAll \/ resetAll' THEN {} ELSE eaten \cup UnderPac(pacX, pacY)
    BY DEF Registers, DotsEdge
  <2> QED BY <2>1
<1>4. ResetClean'
  BY DEF ResetClean
<1>5. WaitingAtHome'
  <2>1. SUFFICES ASSUME state' \in Waiting PROVE WaitingAtHome'
    BY DEF WaitingAtHome
  <2>2. state \in Waiting /\ state' \in States
    BY <1>2, <2>1 DEF Waiting, Playing, States
  <2>3. PacHome' /\ PacHome
    BY <1>2, <2>1, <2>2, PacOnEdge DEF GameInv, WaitingAtHome, Waiting, Playing
  <2>4. \A g \in Ghosts : InPen(ghost'[g])
    BY <2>1 DEF GhostInv, GhostFits
  <2>5. eaten' \subseteq {PacStart}
    BY <1>3, <2>2, <2>3, HomeAtIntersection DEF GameInv, WaitingAtHome
  <2>6. ~pacManDied'
    BY <1>1, <2>3, <2>4, NobodyHitAtHome
  <2> QED BY <2>3, <2>4, <2>5, <2>6 DEF WaitingAtHome
<1>6. NoDotSkipped'
  <2>1. SUFFICES ASSUME ~AtIntersection(pacX', pacY')
                 PROVE  CellsOf(pacX', pacY') \cap (eaten' \cup {PacStart}) # {}
    BY DEF NoDotSkipped
  <2>2. /\ ~resetAll => eaten' = eaten \cup UnderPac(pacX, pacY)
        /\ resetAll => PacHome
    BY <1>3 DEF GameInv, ResetClean
  <2>3. pacX \in Nat /\ pacY \in Nat /\ <<Cell(pacX), Cell(pacY)>> \in Board
    BY <1>1 DEF PacTypeOK, Coord, PacOnTrack, OnTrack
  <2>4. ~AtIntersection(pacX, pacY) => ~resetAll
    BY <2>2, HomeAtIntersection
  <2>5. CASE UNCHANGED pacVars
    BY <2>1, <2>2, <2>4, <2>5 DEF pacVars, GameInv, NoDotSkipped
  <2>6. ASSUME NEW d \in Motion,
               pacX' = Move(pacX, DX(d)), pacY' = Move(pacY, DY(d)),
               ~AtIntersection(pacX, pacY) =>
                 d = pacDir \/ (pacDir \in Dir /\ d = Opposite[pacDir])
        PROVE  CellsOf(pacX', pacY') \cap (eaten' \cup {PacStart}) # {}
    <3>1. CASE AtIntersection(pacX, pacY)
      <4>1. <<Cell(pacX), Cell(pacY)>> \in CellsOf(pacX', pacY')
        BY <2>3, <2>6, <3>1, CellLeft
      <4>2. <<Cell(pacX), Cell(pacY)>> \in UnderPac(pacX, pacY)
        BY <2>3, <3>1 DEF UnderPac
      <4>3. resetAll => UnderPac(pacX, pacY) \subseteq {PacStart}
        BY <2>2, HomeAtIntersection
      <4> QED BY <2>2, <4>1, <4>2, <4>3
    <3>2. CASE ~AtIntersection(pacX, pacY)
      <4>1. /\ d \in Dir
            /\ \/ ~Aligned(pacX) /\ Aligned(pacY) /\ d \in {"L", "R"}
               \/ ~Aligned(pacY) /\ Aligned(pacX) /\ d \in {"U", "D"}
        BY <1>1, <2>6, <3>2 DEF PacOnTrack, OnTrack, AtIntersection, Opposite, Dir
      <4>2. CellsOf(pacX', pacY') = CellsOf(pacX, pacY)
        BY <2>1, <2>3, <2>6, <4>1, CellsKept
      <4> QED BY <2>2, <2>4, <3>2, <4>2 DEF GameInv, NoDotSkipped
    <3> QED BY <3>1, <3>2
  <2> QED BY <2>5, <2>6, PacOnEdge
<1> QED BY <1>4, <1>5, <1>6 DEF GameInv

LEMMA GameInvInit == GameInit => GameInv
<1>1. SUFFICES ASSUME GameInit PROVE GameInv
  OBVIOUS
<1>2. GhostInv /\ PacHome /\ lastTurn = "none" /\ eaten = {}
  BY <1>1, GhostInvInit DEF GameInit, PacInit, PacHome, DotsInit
<1>3. \A g \in Ghosts : ghost[g] = HomeGhost /\ InPen(ghost[g])
  BY <1>1, HomeGhostInPen DEF GameInit, GhostInit
<1>4. state \in Waiting
  BY <1>1 DEF GameInit, ControlInit, Waiting
<1>5. ~pacManDied
  BY <1>2, <1>3, NobodyHitAtHome DEF GhostInv, PacInv, GameTypeOK
<1>6. WaitingAtHome /\ ResetClean
  BY <1>2, <1>3, <1>4, <1>5 DEF WaitingAtHome, ResetClean
<1>7. NoDotSkipped
  BY <1>2, HomeAtIntersection DEF NoDotSkipped
<1> QED BY <1>2, <1>6, <1>7 DEF GameInv

LEMMA GameInvStep == GameInv /\ [GameNext]_gameVars => GameInv'
<1>1. SUFFICES ASSUME GameInv, [GameNext]_gameVars PROVE GameInv'
  OBVIOUS
<1>2. GhostInv'
  BY <1>1, GhostInvStep DEF GameInv
<1>3. ASSUME Registers, PacHolds \/ PacEdge,
             GhostsHold \/ GhostEdge
      PROVE  GameInv'
  <2>1. CASE resetAll'
    BY <1>1, <1>2, <1>3, <2>1, ResetEdge
  <2>2. CASE ~resetAll'
    BY <1>1, <1>2, <1>3, <2>2, QuietEdge
  <2> QED BY <2>1, <2>2
<1>4. CASE PushReset
  <2>1. PacHome' /\ lastTurn' = "none" /\ eaten' = {} /\ GhostTypeOK'
    BY <1>4, ResetTypes DEF PushReset
  <2>2. \A g \in Ghosts : ghost'[g] = HomeGhost /\ InPen(ghost'[g])
    BY <1>4, HomeGhostInPen DEF PushReset, GhostReset
  <2>3. state' \in Waiting
    BY <1>4 DEF PushReset, ControlReset, Waiting
  <2>4. ~pacManDied'
    BY <2>1, <2>2, NobodyHitAtHome
  <2>5. WaitingAtHome' /\ ResetClean'
    BY <2>1, <2>2, <2>3, <2>4 DEF WaitingAtHome, ResetClean
  <2>6. NoDotSkipped'
    BY <2>1, HomeAtIntersection DEF NoDotSkipped
  <2> QED BY <1>2, <2>5, <2>6 DEF GameInv
<1>5. CASE UNCHANGED gameVars
  BY <1>1, <1>2, <1>5 DEF gameVars, GameInv, WaitingAtHome, ResetClean, NoDotSkipped,
     PacHome, pacManDied
<1> QED BY <1>1, <1>3, <1>4, <1>5
     DEF GameNext, ClkEdge, ClkEdgePac, ClkEdgeGhosts, ClkEdgeBoth

(* While the game waits Pac-Man is home, the ghosts are in the pen and     *)
(* nobody is hit.                                                          *)
THEOREM WaitingIsSafe == GameSpec => []WaitingAtHome
<1>1. GameInv => WaitingAtHome
  BY DEF GameInv
<1> QED BY <1>1, GameInvInit, GameInvStep, PTL DEF GameSpec

(* No register that resetAll resets escapes it, whichever clocks the edge  *)
(* that raises it raises too.                                              *)
THEOREM ResetIsClean == GameSpec => []ResetClean
<1>1. GameInv => ResetClean
  BY DEF GameInv
<1> QED BY <1>1, GameInvInit, GameInvStep, PTL DEF GameSpec

(* No dot on Pac-Man's way stays uneaten, but for the one he starts on.    *)
THEOREM DotsAreEaten == GameSpec => []NoDotSkipped
<1>1. GameInv => NoDotSkipped
  BY DEF GameInv
<1> QED BY <1>1, GameInvInit, GameInvStep, PTL DEF GameSpec

-----------------------------------------------------------------------------
(* Steps.                                                                  *)

(* When one of two actors moves by a pixel on one axis, it does not get    *)
(* past the distance at which hitPacman looks.                             *)
LEMMA NoSlip ==
  ASSUME NEW s, NEW t, NEW px \in Nat, NEW py \in Nat, NEW qx \in Nat, NEW qy \in Nat,
         s.x \in Nat, s.y \in Nat, t.x \in Nat, t.y \in Nat,
         Cell(s.x) \in 1 .. N, Cell(s.y) \in 1 .. N, Cell(px) \in 1 .. N, Cell(py) \in 1 .. N,
         Cell(t.x) \in 1 .. N, Cell(t.y) \in 1 .. N, Cell(qx) \in 1 .. N, Cell(qy) \in 1 .. N,
         NEW i \in -1 .. 1, NEW j \in -1 .. 1, i = 0 \/ j = 0,
         \/ t.x = s.x /\ t.y = s.y /\ qx = px + i /\ qy = py + j
         \/ qx = px /\ qy = py /\ t.x = s.x + i /\ t.y = s.y + j,
         ~Overlap(s, px, py), Overlap(t, qx, qy)
  PROVE  HitPacman(s, px, py)
<1>1. PICK a \in Nat, b \in Nat, c \in Nat, d \in Nat :
        a = s.x /\ b = s.y /\ c = t.x /\ d = t.y
  OBVIOUS
<1>2. ~(Distance(a, px) < COLLIDE /\ Distance(b, py) < COLLIDE)
  BY <1>1, HitIsRing
<1>3. Distance(c, qx) < COLLIDE /\ Distance(d, qy) < COLLIDE
  BY <1>1, HitIsRing
<1>4. COLLIDE \in Nat
  BY GhostAssumption
<1>5. \/ Distance(a, px) = COLLIDE /\ Distance(b, py) < COLLIDE
      \/ Distance(b, py) = COLLIDE /\ Distance(a, px) < COLLIDE
  BY <1>1, <1>2, <1>3, <1>4 DEF Distance
<1> QED BY <1>1, <1>5, HitIsRing

LEMMA MoveOnBoard ==
  ASSUME NEW p \in Nat, Cell(p) \in 1 .. N, NEW i \in -1 .. 1
  PROVE  Move(p, i) = p + i
BY BoardCoord

LEMMA OneAxis == \A d : DX(d) = 0 \/ DY(d) = 0
BY DEF DX, DY

LEMMA SeenOnEdge ==
  ASSUME GameInv, GameInv', Registers, PacHolds \/ PacEdge,
         GhostsHold \/ GhostEdge, NEW g \in Ghosts,
         ~Overlap(ghost[g], pacX, pacY), Overlap(ghost'[g], pacX', pacY')
  PROVE  <<pacX, pacY>> # <<pacX', pacY'>> /\ ghost[g] # ghost'[g]
<1> DEFINE s == ghost[g]
           t == ghost'[g]
<1>1. /\ s \in GhostState /\ t \in GhostState
      /\ Cell(s.x) \in 1 .. N /\ Cell(s.y) \in 1 .. N
      /\ Cell(t.x) \in 1 .. N /\ Cell(t.y) \in 1 .. N
      /\ s.x \in Nat /\ s.y \in Nat /\ t.x \in Nat /\ t.y \in Nat
  <2>1. GhostFits(state, s) /\ GhostFits(state', t)
    BY DEF GameInv, GhostInv
  <2> HIDE DEF s, t
  <2> QED BY <2>1 DEF GhostFits, GhostOnTrack, Board, GhostState, Coord
<1>2. /\ pacX \in Nat /\ pacY \in Nat /\ pacX' \in Nat /\ pacY' \in Nat
      /\ Cell(pacX) \in 1 .. N /\ Cell(pacY) \in 1 .. N
      /\ Cell(pacX') \in 1 .. N /\ Cell(pacY') \in 1 .. N
  BY DEF GameInv, GhostInv, PacInv, GameTypeOK, PacTypeOK, Coord, PacOnTrack, OnTrack, Board
<1>3. ~resetAll'
  <2>1. SUFFICES ASSUME resetAll' PROVE FALSE
    OBVIOUS
  <2>2. PacHome' /\ InPen(t)
    BY <2>1, HomeGhostInPen DEF GameInv, ResetClean
  <2> QED BY <1>1, <2>2, HomeIsSafe DEF PacHome
<1>4. ~HitPacman(s, pacX, pacY)
  <2>1. SUFFICES ASSUME HitPacman(s, pacX, pacY) PROVE FALSE
    OBVIOUS
  <2>2. pacManDied
    BY <2>1 DEF pacManDied
  <2> QED BY <1>3, <2>2 DEF Registers, ControlEdge, Die
<1>5. \E i \in -1 .. 1, j \in -1 .. 1 :
        (i = 0 \/ j = 0) /\ pacX' = pacX + i /\ pacY' = pacY + j
  <2>1. CASE UNCHANGED pacVars
    <3>1. 0 \in -1 .. 1 /\ pacX' = pacX + 0 /\ pacY' = pacY + 0
      BY <1>2, <2>1 DEF pacVars
    <3> QED BY <3>1
  <2>2. ASSUME NEW d \in Motion, pacX' = Move(pacX, DX(d)), pacY' = Move(pacY, DY(d))
        PROVE  pacX' = pacX + DX(d) /\ pacY' = pacY + DY(d)
    BY <1>2, <2>2, StepType, MoveOnBoard
  <2> QED BY <1>3, <2>1, <2>2, PacOnEdge, StepType, OneAxis
<1>6. \E i \in -1 .. 1, j \in -1 .. 1 :
        (i = 0 \/ j = 0) /\ t.x = s.x + i /\ t.y = s.y + j
  <2>1. CASE GhostsHold
    <3>1. t = s
      BY <1>3, <2>1 DEF GhostsHold
    <3>2. 0 \in -1 .. 1 /\ t.x = s.x + 0 /\ t.y = s.y + 0
      BY <1>1, <3>1
    <3> QED BY <3>2
  <2>2. CASE GhostEdge
    <3>1. PICK r \in {state, state'}, p \in {<<pacX, pacY>>, <<pacX', pacY'>>},
               words \in [Ghosts -> RandomWord] : GhostTick(Walls(r), p[1], p[2], words)
      BY <1>3, <2>2 DEF GhostEdge
    <3>2. t = NextGhost(s, Walls(r), p[1], p[2], words[g])
      BY <3>1 DEF GhostTick
    <3>3. t.x = Move(s.x, DX(t.dir)) /\ t.y = Move(s.y, DY(t.dir))
      BY <3>2 DEF NextGhost
    <3>4. t.x = s.x + DX(t.dir) /\ t.y = s.y + DY(t.dir)
      BY <1>1, <3>3, StepType, MoveOnBoard
    <3> QED BY <3>4, StepType, OneAxis
  <2> QED BY <2>1, <2>2
<1>7. <<pacX, pacY>> # <<pacX', pacY'>>
  <2>1. SUFFICES ASSUME pacX' = pacX, pacY' = pacY PROVE FALSE
    OBVIOUS
  <2> QED BY <1>1, <1>2, <1>4, <1>6, <2>1, NoSlip
<1>8. s # t
  <2>1. SUFFICES ASSUME s = t PROVE FALSE
    OBVIOUS
  <2> QED BY <1>1, <1>2, <1>4, <1>5, <2>1, NoSlip
<1> QED BY <1>7, <1>8

(* The one way past hitPacman is an edge that moves both actors.           *)
THEOREM HitIsSeen == GameSpec => OverlapOnlyWhenBothMove
<1> DEFINE Seen ==
      \A g \in Ghosts :
        ~Overlap(ghost[g], pacX, pacY) /\ Overlap(ghost'[g], pacX', pacY')
          => <<pacX, pacY>> # <<pacX', pacY'>> /\ ghost[g] # ghost'[g]
<1>1. ASSUME GameInv, GameInv', [GameNext]_gameVars PROVE [Seen]_gameVars
  <2>1. ASSUME Registers, PacHolds \/ PacEdge,
               GhostsHold \/ GhostEdge
        PROVE  Seen
    BY <1>1, <2>1, SeenOnEdge
  <2>2. CASE PushReset
    <3>1. \A g \in Ghosts : ghost'[g] = HomeGhost
      BY <2>2 DEF PushReset, GhostReset
    <3>2. PacHome'
      BY <2>2, ResetTypes DEF PushReset
    <3>3. \A g \in Ghosts : ~Overlap(ghost'[g], pacX', pacY')
      BY <3>1, <3>2, HomeGhostType, HomeGhostInPen, HomeIsSafe DEF PacHome
    <3> QED BY <3>3
  <2>3. CASE UNCHANGED gameVars
    BY <2>3
  <2> HIDE DEF Seen
  <2> QED BY <1>1, <2>1, <2>2, <2>3
       DEF GameNext, ClkEdge, ClkEdgePac, ClkEdgeGhosts, ClkEdgeBoth
<1>2. QED
  BY <1>1, GameInvInit, GameInvStep, PTL DEF GameSpec, OverlapOnlyWhenBothMove

(* In a level a cell of the pen has no exit, so the ghost that is not in   *)
(* the pen is not on its way into it either.                               *)
LEMMA PenIsClosed ==
  ASSUME NEW st \in Playing, NEW s, GhostFits(st, s), ~InPen(s),
         NEW px, NEW py, NEW word \in RandomWord
  PROVE  ~InPen(NextGhost(s, Walls(st), px, py, word))
<1> DEFINE cx == Cell(s.x)
           cy == Cell(s.y)
           t == NextGhost(s, Walls(st), px, py, word)
           d == t.dir
<1>1. /\ s \in GhostState /\ s.x \in Nat /\ s.y \in Nat
      /\ <<cx, cy>> \in Board /\ cx \in 1 .. N /\ cy \in 1 .. N
  BY DEF GhostFits, GhostState, GhostOnTrack, Board, Coord
<1>2. st \in States /\ Walls(st) = LevelWalls[level(st)] /\ level(st) \in 1 .. 2
  BY DEF States, Playing, Waiting, Walls, isPre, level
<1>3. t \in GhostState /\ d \in Motion
  BY <1>1, NextGhostType DEF GhostState
<1>4. t.x = Move(s.x, DX(d)) /\ t.y = Move(s.y, DY(d))
  BY DEF NextGhost
<1>5. ASSUME NEW c \in Pen PROVE Turns(Walls(st), c[1], c[2]) = {}
  BY <1>2, LevelAssumption
<1>6. SUFFICES ASSUME InPen(t) PROVE FALSE
  OBVIOUS
<1>7. CASE AtIntersection(s.x, s.y)
  <2>1. <<cx, cy>> \notin Pen
    BY <1>7 DEF InPen, CellsOf, AtIntersection
  <2>2. <<cx, cy>> \in CellsOf(t.x, t.y)
    BY <1>1, <1>3, <1>4, <1>7, CellLeft
  <2> QED BY <1>6, <2>1, <2>2 DEF InPen
<1>8. CASE ~AtIntersection(s.x, s.y)
  <2>1. d = s.dir
    BY <1>8 DEF NextGhost
  <2>2. /\ d \in Dir
        /\ \/ ~Aligned(s.x) /\ Aligned(s.y) /\ d \in {"L", "R"}
           \/ ~Aligned(s.y) /\ Aligned(s.x) /\ d \in {"U", "D"}
    BY <1>8, <2>1 DEF GhostFits, GhostOnTrack, AtIntersection, Dir
  <2>3. CASE ~AtIntersection(t.x, t.y)
    <3>1. CellsOf(t.x, t.y) = CellsOf(s.x, s.y)
      BY <1>1, <1>4, <2>2, <2>3, CellsKept
    <3> QED BY <1>6, <3>1 DEF InPen
  <2>4. CASE AtIntersection(t.x, t.y)
    <3>1. Enclosed(Walls(st))
      BY <1>2, WallsEnclosed
    <3>2. <<Cell(t.x), Cell(t.y)>> \in Pen
      BY <1>6 DEF InPen, CellsOf
    <3>3. Turns(Walls(st), Cell(t.x), Cell(t.y)) = {}
      BY <1>5, <3>2
    <3> HIDE DEF t, d
    <3>4. CASE ~Aligned(s.x)
      <4>1. t.y = s.y /\ Cell(t.x) \in {cx, cx + 1}
        BY <1>1, <1>4, <2>2, <2>4, <3>4, Between DEF AtIntersection
      <4>2. "R" \in Turns(Walls(st), cx, cy)
        BY <1>8, <3>4 DEF GhostFits, GhostOnTrack
      <4>3. "L" \in Turns(Walls(st), cx + 1, cy)
        BY <1>1, <3>1, <4>2, FreeSide
      <4> QED BY <3>3, <4>1, <4>2, <4>3
    <3>5. CASE ~Aligned(s.y)
      <4>1. /\ t.x = s.x /\ Cell(t.y) \in {cy, cy + 1}
            /\ d = "U" => Cell(t.y) = cy
        BY <1>1, <1>4, <2>2, <2>4, <3>5, Between DEF AtIntersection
      <4>2. CASE "D" \in Turns(Walls(st), cx, cy)
        <5>1. "U" \in Turns(Walls(st), cx, cy + 1)
          BY <1>1, <3>1, <4>2, FreeSide
        <5> QED BY <3>3, <4>1, <4>2, <5>1
      <4>3. CASE s.dir = "U" /\ <<cx, cy + 1>> \in Pen
        <5>1. <<cx, cy>> \notin Pen
          BY <2>2, <3>5, <4>3 DEF InPen, CellsOf
        <5> QED BY <2>1, <3>2, <4>1, <4>3, <5>1
      <4> QED BY <3>5, <4>2, <4>3 DEF GhostFits, GhostOnTrack
    <3> QED BY <1>8, <3>4, <3>5 DEF AtIntersection
  <2> QED BY <2>3, <2>4
<1> QED BY <1>7, <1>8

(* A ghost that has left the pen of a level stays out of it.               *)
THEOREM NoReturnToPen == GameSpec => NoWayBackToPen
<1> DEFINE Out == \A g \in Ghosts : InPen(ghost'[g]) => InPen(ghost[g]) \/ state' \in Waiting
<1>1. ASSUME GameInv, GameInv', [GameNext]_gameVars PROVE [Out]_gameVars
  <2>1. ASSUME Registers, GhostsHold \/ GhostEdge,
               NEW g \in Ghosts, ~InPen(ghost[g]), state' \notin Waiting
        PROVE  ~InPen(ghost'[g])
    <3>1. ~resetAll'
      BY <1>1, <2>1 DEF GameInv, ResetClean
    <3>2. state \notin Waiting
      BY <1>1, <2>1 DEF GameInv, WaitingAtHome
    <3>3. state \in Playing /\ state' = state
      <4>1. ControlTypeOK /\ DotsTypeOK
        BY <1>1 DEF GameInv, GhostInv, PacInv, GameTypeOK
      <4> QED BY <2>1, <3>1, <3>2, <4>1, RegistersStep DEF ControlTypeOK, States
    <3>4. GhostFits(state, ghost[g])
      BY <1>1 DEF GameInv, GhostInv
    <3>5. CASE GhostsHold
      BY <2>1, <3>1, <3>5 DEF GhostsHold
    <3>6. CASE GhostEdge
      <4>1. PICK s \in {state, state'}, p \in {<<pacX, pacY>>, <<pacX', pacY'>>},
                 words \in [Ghosts -> RandomWord] : GhostTick(Walls(s), p[1], p[2], words)
        BY <3>1, <3>6 DEF GhostEdge
      <4>2. ghost'[g] = NextGhost(ghost[g], Walls(state), p[1], p[2], words[g])
        BY <3>3, <4>1 DEF GhostTick
      <4> QED BY <2>1, <3>3, <3>4, <4>2, PenIsClosed
    <3> QED BY <2>1, <3>5, <3>6
  <2>2. CASE PushReset
    BY <2>2 DEF PushReset, ControlReset, Waiting
  <2>3. CASE UNCHANGED gameVars
    BY <2>3
  <2> QED BY <1>1, <2>1, <2>2, <2>3
       DEF GameNext, ClkEdge, ClkEdgePac, ClkEdgeGhosts, ClkEdgeBoth
<1>2. QED
  BY <1>1, GameInvInit, GameInvStep, PTL DEF GameSpec, NoWayBackToPen

-----------------------------------------------------------------------------
(* The game on cells.                                                      *)

(* The three ways between two neighbouring cells.                          *)
LEMMA WaysBetween ==
  ASSUME NEW maze, NEW c, NEW d \in Turns(maze, c[1], c[2]),
         NEW n, n = <<c[1] + DX(d), c[2] + DY(d)>>
  PROVE  /\ Walks(maze, {c}, {c, n})
         /\ Walks(maze, {c, n}, {c}) /\ Walks(maze, {c, n}, {n})
<1>1. n \in Neighbours(maze, c)
  BY DEF Neighbours
<1> QED BY <1>1 DEF Walks

(* An actor on the track takes a walk through the maze, cell by cell.      *)
LEMMA StepWalks ==
  ASSUME NEW maze, NEW x \in Coord, NEW y \in Coord, NEW d \in Motion,
         OnTrack(maze, x, y, d),
         AtIntersection(x, y) => d = "none" \/ d \in Turns(maze, Cell(x), Cell(y))
  PROVE  Walks(maze, CellsOf(x, y), CellsOf(Move(x, DX(d)), Move(y, DY(d))))
<1> DEFINE cx == Cell(x)
           cy == Cell(y)
           c == <<cx, cy>>
           nx == Move(x, DX(d))
           ny == Move(y, DY(d))
<1>1. /\ x \in Nat /\ y \in Nat /\ c \in Board
      /\ cx \in 1 .. N /\ cy \in 1 .. N /\ cx \in Nat /\ cy \in Nat
  BY BoardAssumption DEF Coord, OnTrack, Board
<1>2. c[1] = cx /\ c[2] = cy /\ cx + 0 = cx /\ cy + 0 = cy
  BY <1>1
<1>3. CASE d = "none"
  <2>1. nx = x /\ ny = y
    BY <1>1, <1>3, BoardCoord DEF DX, DY
  <2> HIDE DEF nx, ny
  <2>2. Walks(maze, CellsOf(x, y), CellsOf(nx, ny))
    BY <2>1 DEF Walks
  <2> QED BY <2>2 DEF nx, ny
<1>4. CASE d \in Dir /\ AtIntersection(x, y)
  <2> DEFINE n == <<cx + DX(d), cy + DY(d)>>
  <2>1. Aligned(x) /\ Aligned(y) /\ d \in Turns(maze, cx, cy)
    BY <1>4 DEF AtIntersection, Dir
  <2>2. Walks(maze, {c}, {c, n})
    <3> HIDE DEF c, n
    <3> QED BY <1>2, <2>1, WaysBetween DEF n
  <2>3. /\ d = "L" => Cell(nx) = cx - 1 /\ ~Aligned(nx) /\ ny = y
        /\ d = "R" => Cell(nx) = cx /\ ~Aligned(nx) /\ ny = y
        /\ d = "U" => Cell(ny) = cy - 1 /\ ~Aligned(ny) /\ nx = x
        /\ d = "D" => Cell(ny) = cy /\ ~Aligned(ny) /\ nx = x
    BY <1>1, <1>4, Leave
  <2>4. CellsOf(x, y) = {c}
    BY <2>1 DEF CellsOf
  <2> HIDE DEF nx, ny
  <2>5. CellsOf(nx, ny) = {c, n}
    <3>1. (cx - 1) + 1 = cx /\ (cy - 1) + 1 = cy /\ cx - 1 = cx + -1 /\ cy - 1 = cy + -1
      BY <1>1
    <3>2. CASE d = "L"
      BY <1>2, <2>1, <2>3, <3>1, <3>2 DEF CellsOf, DX, DY
    <3>3. CASE d = "R"
      BY <1>2, <2>1, <2>3, <3>3 DEF CellsOf, DX, DY
    <3>4. CASE d = "U"
      BY <1>2, <2>1, <2>3, <3>1, <3>4 DEF CellsOf, DX, DY
    <3>5. CASE d = "D"
      BY <1>2, <2>1, <2>3, <3>5 DEF CellsOf, DX, DY
    <3> QED BY <1>4, <3>2, <3>3, <3>4, <3>5 DEF Dir
  <2> HIDE DEF n, c
  <2>6. Walks(maze, CellsOf(x, y), CellsOf(nx, ny))
    BY <2>2, <2>4, <2>5
  <2> QED BY <2>6 DEF nx, ny
<1>5. CASE ~Aligned(x)
  <2> DEFINE n == <<cx + 1, cy>>
  <2>1. Aligned(y) /\ d \in {"L", "R"} /\ d \in Dir /\ "R" \in Turns(maze, cx, cy)
    BY <1>5 DEF OnTrack, Dir
  <2>2. /\ ny = y
        /\ ~Aligned(nx) => Cell(nx) = cx
        /\ Aligned(nx) => Cell(nx) \in {cx, cx + 1}
    BY <1>1, <1>5, <2>1, Between
  <2>3. Walks(maze, {c, n}, {c}) /\ Walks(maze, {c, n}, {n})
    <3>1. n = <<c[1] + DX("R"), c[2] + DY("R")>>
      BY <1>2 DEF DX, DY
    <3> HIDE DEF c, n
    <3> QED BY <1>2, <2>1, <3>1, WaysBetween
  <2>4. CellsOf(x, y) = {c, n}
    BY <1>5, <2>1 DEF CellsOf
  <2> HIDE DEF nx, ny
  <2>5. CellsOf(nx, ny) \in {{c, n}, {c}, {n}}
    BY <2>1, <2>2 DEF CellsOf
  <2> HIDE DEF n, c
  <2>6. Walks(maze, CellsOf(x, y), CellsOf(nx, ny))
    BY <2>3, <2>4, <2>5 DEF Walks
  <2> QED BY <2>6 DEF nx, ny
<1>6. CASE ~Aligned(y)
  <2> DEFINE n == <<cx, cy + 1>>
  <2>1. Aligned(x) /\ d \in {"U", "D"} /\ d \in Dir /\ "D" \in Turns(maze, cx, cy)
    BY <1>6 DEF OnTrack, Dir
  <2>2. /\ nx = x
        /\ ~Aligned(ny) => Cell(ny) = cy
        /\ Aligned(ny) => Cell(ny) \in {cy, cy + 1}
    BY <1>1, <1>6, <2>1, Between
  <2>3. Walks(maze, {c, n}, {c}) /\ Walks(maze, {c, n}, {n})
    <3>1. n = <<c[1] + DX("D"), c[2] + DY("D")>>
      BY <1>2 DEF DX, DY
    <3> HIDE DEF c, n
    <3> QED BY <1>2, <2>1, <3>1, WaysBetween
  <2>4. CellsOf(x, y) = {c, n}
    BY <1>6, <2>1 DEF CellsOf
  <2> HIDE DEF nx, ny
  <2>5. CellsOf(nx, ny) \in {{c, n}, {c}, {n}}
    BY <2>1, <2>2 DEF CellsOf
  <2> HIDE DEF n, c
  <2>6. Walks(maze, CellsOf(x, y), CellsOf(nx, ny))
    BY <2>3, <2>4, <2>5 DEF Walks
  <2> QED BY <2>6 DEF nx, ny
<1> QED BY <1>3, <1>4, <1>5, <1>6 DEF Motion, AtIntersection

LEMMA HomeCells ==
  /\ PacHome => PacCells = {PacStart}
  /\ PacHome' => PacCells' = {PacStart}
<1>1. /\ PacStart[1] \in Nat /\ PacStart[2] \in Nat /\ PacStart = <<PacStart[1], PacStart[2]>>
  BY PacStartAssumption, BoardAssumption DEF Board
<1>2. /\ Cell(BLOCK * PacStart[1]) = PacStart[1] /\ Aligned(BLOCK * PacStart[1])
      /\ Cell(BLOCK * PacStart[2]) = PacStart[2] /\ Aligned(BLOCK * PacStart[2])
  BY <1>1, CellOrigin
<1>3. CellsOf(BLOCK * PacStart[1], BLOCK * PacStart[2]) = {PacStart}
  BY <1>1, <1>2 DEF CellsOf
<1> QED BY <1>3 DEF PacHome, PacCells

(* The dot under Pac-Man is the one of the cell he is alone in.            *)
LEMMA DotUnderPac ==
  ASSUME PacInv
  PROVE  UnderPac(pacX, pacY) = {c \in PacCells : PacCells = {c}}
<1> DEFINE cx == Cell(pacX)
           cy == Cell(pacY)
<1>1. <<cx, cy>> \in Board /\ cx \in Nat /\ cy \in Nat
  BY BoardAssumption DEF PacInv, PacOnTrack, OnTrack, Board
<1>2. cx + 1 # cx /\ cy + 1 # cy
  BY <1>1
<1> HIDE DEF cx, cy
<1>3. CASE AtIntersection(pacX, pacY)
  <2>1. PacCells = {<<cx, cy>>} /\ UnderPac(pacX, pacY) = {<<cx, cy>>}
    BY <1>1, <1>3 DEF AtIntersection, PacCells, CellsOf, UnderPac, cx, cy
  <2> QED BY <2>1
<1>4. CASE ~AtIntersection(pacX, pacY)
  <2>1. UnderPac(pacX, pacY) = {}
    BY <1>4 DEF UnderPac
  <2>2. \/ <<cx, cy>> \in PacCells /\ <<cx + 1, cy>> \in PacCells
        \/ <<cx, cy>> \in PacCells /\ <<cx, cy + 1>> \in PacCells
    BY <1>4 DEF AtIntersection, PacCells, CellsOf, cx, cy
  <2>3. \A c : PacCells # {c}
    BY <1>2, <2>2
  <2> QED BY <2>1, <2>3
<1> QED BY <1>3, <1>4

(* An edge that leaves a level being played, the one that starts it        *)
(* included, moves Pac-Man in the maze of that level only.                 *)
LEMMA EdgeWalks ==
  ASSUME GameInv, Registers, PacHolds \/ PacEdge, state' \in Playing, ~resetAll'
  PROVE  Walks(LevelWalls[level(state')], PacCells, PacCells')
<1>1. /\ PacInv /\ PacTypeOK /\ PacOnTrack /\ ControlTypeOK /\ DotsTypeOK
      /\ state \in Waiting => PacHome
  BY DEF GameInv, GhostInv, PacInv, GameTypeOK
<1>2. state' = state \/ (state \in Waiting /\ PacHome)
  BY <1>1, RegistersStep
<1>3. CASE UNCHANGED pacVars
  BY <1>3 DEF pacVars, PacCells, CellsOf, Walks
<1>4. CASE \E key \in Keys, s \in {state, state'} : PacTick(key, Walls(s))
  <2>1. PICK key \in Keys, s \in {state, state'} : PacTick(key, Walls(s))
    BY <1>4
  <2>2. CASE s # state'
    <3>1. state \in Waiting /\ PacHome /\ PacHome'
      BY <1>2, <2>1, <2>2, PacStaysHome
    <3> QED BY <3>1, HomeCells DEF Walks
  <2>3. CASE s = state'
    <3> DEFINE maze == LevelWalls[level(state')]
               free == Turns(maze, Cell(pacX), Cell(pacY))
               d == MotionFinal(key, free)
    <3>1. Walls(state') = maze
      BY DEF Walls, isPre, Waiting, Playing
    <3>2. PacTick(key, maze)
      BY <2>1, <2>3, <3>1
    <3>3. OnTrack(maze, pacX, pacY, pacDir)
      BY <1>1, <1>2, <3>1, PacHomeOnTrack DEF PacOnTrack
    <3> HIDE DEF maze
    <3>4. pacDir \in Motion /\ pacX \in Coord /\ pacY \in Coord /\ d \in Motion
      BY <1>1, MotionFinalType DEF PacTypeOK
    <3>5. pacX' = Move(pacX, DX(d)) /\ pacY' = Move(pacY, DY(d))
      BY <3>2 DEF PacTick
    <3>6. AtIntersection(pacX, pacY) => d = "none" \/ d \in free
      BY DEF MotionFinal, PacAtIntersection
    <3>7. OnTrack(maze, pacX, pacY, d)
      <4>1. AtIntersection(pacX, pacY) \/ d = pacDir \/ (pacDir \in Dir /\ d = Opposite[pacDir])
        BY DEF MotionFinal, PacAtIntersection
      <4> QED BY <3>3, <4>1 DEF OnTrack, AtIntersection, Opposite, Dir
    <3> HIDE DEF d
    <3>8. Walks(maze, CellsOf(pacX, pacY), CellsOf(Move(pacX, DX(d)), Move(pacY, DY(d))))
      BY <3>4, <3>6, <3>7, StepWalks
    <3>9. PacCells' = CellsOf(Move(pacX, DX(d)), Move(pacY, DY(d)))
      BY <3>5 DEF PacCells, CellsOf
    <3> QED BY <3>8, <3>9 DEF PacCells, maze
  <2> QED BY <2>2, <2>3
<1> QED BY <1>3, <1>4 DEF PacHolds, PacEdge

(* An edge of Clk in a level that neither ends it nor kills Pac-Man.       *)
LEMMA PlayWalks ==
  ASSUME GameInv, Registers, PacHolds \/ PacEdge,
         state \in Playing, ~resetAll'
  PROVE  PlayOn
<1>1. PacInv /\ ControlTypeOK /\ DotsTypeOK
  BY DEF GameInv, GhostInv, PacInv, GameTypeOK
<1>2. state' = state /\ ~resetAll /\ state \notin Waiting
  BY <1>1, RegistersStep DEF Waiting, Playing, GameInv, ResetClean
<1>3. eaten' = eaten \cup {c \in PacCells : PacCells = {c}}
  <2>1. eaten' = eaten \cup UnderPac(pacX, pacY)
    BY <1>2 DEF Registers, DotsEdge
  <2> QED BY <1>1, <2>1, DotUnderPac
<1>4. Walks(LevelWalls[level(state)], PacCells, PacCells')
  <2>1. Walks(LevelWalls[level(state')], PacCells, PacCells')
    BY <1>2, EdgeWalks
  <2> QED BY <1>2, <2>1 DEF level
<1> QED BY <1>2, <1>3, <1>4 DEF PlayOn

(* Every edge of Clk is a step of the game on cells.                       *)
LEMMA CellStep ==
  ASSUME GameInv, GameInv', Registers, PacHolds \/ PacEdge
  PROVE  CellNext
<1>1. CASE resetAll'
  <2>1. AllHome
    BY <1>1, HomeCells DEF GameInv, ResetClean, AllHome
  <2>2. CASE Die
    BY <2>1, <2>2 DEF Die, Restart, CellNext
  <2>3. CASE \E enter \in BOOLEAN : Wait(enter)
    BY <1>1, <2>3 DEF Wait
  <2>4. CASE Play(anyDotsLeft)
    <3>1. state \in Playing /\ ~anyDotsLeft /\ state' = AfterClear[state]
      BY <1>1, <2>4 DEF Play
    <3>2. DotStarts(state) \subseteq eaten
      BY <3>1 DEF anyDotsLeft, AnyDotsLeft, StillHere
    <3> QED BY <2>1, <3>1, <3>2 DEF ClearLevel, CellNext
  <2> QED BY <2>2, <2>3, <2>4 DEF Registers, ControlEdge
<1>2. CASE ~resetAll' /\ state \in Waiting
  <2>1. PacHome /\ eaten \subseteq {PacStart}
    BY <1>2 DEF GameInv, WaitingAtHome
  <2>2. eaten' \subseteq {PacStart}
    BY <2>1, HomeAtIntersection DEF Registers, DotsEdge
  <2>3. state' = state \/ (state' = AfterEnter[state] /\ state' \in Playing)
    <3>1. state' \in {state, AfterEnter[state]}
      BY <1>2 DEF Registers, ControlEdge, Die, Wait, Play, Waiting, Playing
    <3> QED BY <1>2, <3>1, NextStates
  <2>4. CASE state' = state
    <3>1. PacHome'
      BY <1>2, <2>4, PacOnEdge
    <3> QED BY <1>2, <2>2, <2>4, <3>1, HomeCells DEF WaitForEnter, AllHome, CellNext
  <2>5. CASE state' = AfterEnter[state] /\ state' \in Playing
    <3>1. Walks(LevelWalls[level(state')], PacCells, PacCells')
      BY <1>2, <2>5, EdgeWalks
    <3> QED BY <1>2, <2>1, <2>2, <2>5, <3>1, HomeCells DEF BeginLevel, CellNext
  <2> QED BY <2>3, <2>4, <2>5
<1>3. CASE ~resetAll' /\ state \in Playing
  BY <1>3, PlayWalks DEF CellNext
<1>4. state \in Waiting \/ state \in Playing
  BY DEF GameInv, GhostInv, PacInv, GameTypeOK, ControlTypeOK, States
<1> QED BY <1>1, <1>2, <1>3, <1>4

(* The pixels, the clocks and their races implement the game on cells.     *)
THEOREM GameOnCells == GameSpec => CellSpec
<1>1. GameInit => CellInit
  <2>1. GameInit => PacHome
    BY DEF GameInit, PacInit, PacHome
  <2> QED BY <2>1, HomeCells DEF GameInit, ControlInit, DotsInit, CellInit
<1>2. ASSUME GameInv, GameInv', [GameNext]_gameVars PROVE [CellNext]_cellVars
  <2>1. ASSUME Registers, PacHolds \/ PacEdge PROVE CellNext
    BY <1>2, <2>1, CellStep
  <2>2. CASE PushReset
    <3>1. PacHome' /\ eaten' = {} /\ state' = "NEWGAME"
      BY <2>2, ResetTypes DEF PushReset, ControlReset
    <3> QED BY <3>1, HomeCells DEF Restart, AllHome, CellNext
  <2>3. CASE UNCHANGED gameVars
    BY <2>3 DEF gameVars, cellVars, PacCells, CellsOf
  <2> QED BY <1>2, <2>1, <2>2, <2>3
       DEF GameNext, ClkEdge, ClkEdgePac, ClkEdgeGhosts, ClkEdgeBoth
<1>3. QED
  BY <1>1, <1>2, GameInvInit, GameInvStep, PTL DEF GameSpec, CellSpec
=============================================================================
