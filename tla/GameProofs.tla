----------------------------- MODULE GameProofs -----------------------------
(***************************************************************************)
(* Theorems about the game: its registers keep their types, and Pac-Man    *)
(* stays on the track of the current maze.  Lemmas about the coordinates   *)
(* and the mazes of Maze.tla come first: how the cell and the alignment of *)
(* a coordinate change when an actor takes a step, and that a step along a *)
(* free side stays on the track.                                           *)
(***************************************************************************)
EXTENDS GameProperties, TLAPS

(* A coordinate splits into its cell and its place in the cell.            *)
LEMMA CellSplit ==
  ASSUME NEW p \in Nat
  PROVE  /\ Cell(p) \in Nat
         /\ p % BLOCK \in 0 .. BLOCK - 1
         /\ p = BLOCK * Cell(p) + (p % BLOCK)
BY BoardAssumption DEF Cell

(* Division with remainder has one result.                                 *)
LEMMA Euclid ==
  ASSUME NEW b \in Nat, NEW q1 \in Int, NEW q2 \in Int,
         NEW r1 \in 0 .. b - 1, NEW r2 \in 0 .. b - 1,
         b * q1 + r1 = b * q2 + r2
  PROVE  q1 = q2 /\ r1 = r2
<1>1. ASSUME NEW i \in Int, NEW j \in Int, i < j PROVE b * j >= b * i + b
  <2>1. PICK k \in Nat : j = i + 1 + k
    <3>1. j - i - 1 \in Nat /\ j = i + 1 + (j - i - 1)
      BY <1>1
    <3> QED BY <3>1
  <2>2. b * j = b * i + b + b * k /\ b * k >= 0
    BY <2>1
  <2>3. b * i \in Int /\ b * k \in Int
    BY <2>1
  <2> QED BY <2>2, <2>3
<1>2. b * q1 \in Int /\ b * q2 \in Int
  OBVIOUS
<1>3. ~(q1 < q2)
  <2>1. SUFFICES ASSUME q1 < q2 PROVE FALSE
    OBVIOUS
  <2>2. b * q2 >= b * q1 + b
    BY <1>1, <2>1
  <2> QED BY <1>2, <2>2
<1>4. ~(q2 < q1)
  <2>1. SUFFICES ASSUME q2 < q1 PROVE FALSE
    OBVIOUS
  <2>2. b * q1 >= b * q2 + b
    BY <1>1, <2>1
  <2> QED BY <1>2, <2>2
<1>5. q1 = q2
  BY <1>3, <1>4
<1> QED BY <1>2, <1>5

(* The split is unique.                                                    *)
LEMMA CellUnique ==
  ASSUME NEW p \in Nat, NEW q \in Int, NEW r \in 0 .. BLOCK - 1,
         p = BLOCK * q + r
  PROVE  Cell(p) = q /\ p % BLOCK = r
<1>1. BLOCK \in Nat
  BY BoardAssumption
<1>2. Cell(p) \in Int /\ p % BLOCK \in 0 .. BLOCK - 1 /\ p = BLOCK * Cell(p) + (p % BLOCK)
  BY CellSplit
<1>3. PICK c \in Int, m \in 0 .. BLOCK - 1 : c = Cell(p) /\ m = p % BLOCK
  BY <1>2
<1>4. BLOCK * c + m = BLOCK * q + r
  BY <1>2, <1>3
<1>5. c = q /\ m = r
  BY <1>1, <1>4, Euclid
<1> QED BY <1>3, <1>5

(* A pixel to the right or down.                                           *)
LEMMA StepForward ==
  ASSUME NEW p \in Nat
  PROVE  /\ Aligned(p) => Cell(p + 1) = Cell(p) /\ ~Aligned(p + 1)
         /\ ~Aligned(p) => \/ Aligned(p + 1) /\ Cell(p + 1) = Cell(p) + 1
                           \/ ~Aligned(p + 1) /\ Cell(p + 1) = Cell(p)
<1> DEFINE r == p % BLOCK
<1>1. BLOCK \in Nat /\ BLOCK >= 2
  BY BoardAssumption
<1>2. Cell(p) \in Nat /\ r \in 0 .. BLOCK - 1 /\ p = BLOCK * Cell(p) + r
  BY CellSplit
<1>3. CASE r + 1 < BLOCK
  <2>1. p + 1 = BLOCK * Cell(p) + (r + 1) /\ r + 1 \in 0 .. BLOCK - 1
    BY <1>1, <1>2, <1>3
  <2>2. Cell(p + 1) = Cell(p) /\ (p + 1) % BLOCK = r + 1
    BY <1>2, <2>1, CellUnique
  <2> QED BY <1>1, <1>2, <2>2 DEF Aligned
<1>4. CASE r + 1 = BLOCK
  <2>1. p + 1 = BLOCK * (Cell(p) + 1) + 0
    BY <1>1, <1>2, <1>4
  <2>2. Cell(p + 1) = Cell(p) + 1 /\ (p + 1) % BLOCK = 0
    BY <1>1, <1>2, <2>1, CellUnique
  <2> QED BY <1>1, <1>2, <1>4, <2>2 DEF Aligned
<1> QED BY <1>1, <1>2, <1>3, <1>4

(* A pixel to the left or up, anywhere but in the first cell.              *)
LEMMA StepBack ==
  ASSUME NEW p \in Nat, Cell(p) >= 1
  PROVE  /\ p >= 1
         /\ Aligned(p) => Cell(p - 1) = Cell(p) - 1 /\ ~Aligned(p - 1)
         /\ ~Aligned(p) => Cell(p - 1) = Cell(p)
<1> DEFINE r == p % BLOCK
<1>1. BLOCK \in Nat /\ BLOCK >= 2
  BY BoardAssumption
<1>2. Cell(p) \in Nat /\ r \in 0 .. BLOCK - 1 /\ p = BLOCK * Cell(p) + r
  BY CellSplit
<1>3. BLOCK * Cell(p) >= BLOCK
  BY <1>1, <1>2
<1>4. p >= 1
  BY <1>1, <1>2, <1>3
<1>5. CASE r = 0
  <2>1. p - 1 = BLOCK * (Cell(p) - 1) + (BLOCK - 1)
    BY <1>1, <1>2, <1>5
  <2>2. Cell(p - 1) = Cell(p) - 1 /\ (p - 1) % BLOCK = BLOCK - 1
    BY <1>1, <1>2, <1>4, <2>1, CellUnique
  <2> QED BY <1>1, <1>4, <1>5, <2>2 DEF Aligned
<1>6. CASE r >= 1
  <2>1. p - 1 = BLOCK * Cell(p) + (r - 1) /\ r - 1 \in 0 .. BLOCK - 1
    BY <1>1, <1>2, <1>6
  <2>2. Cell(p - 1) = Cell(p)
    BY <1>2, <1>4, <2>1, CellUnique
  <2> QED BY <1>4, <1>6, <2>2 DEF Aligned
<1> QED BY <1>2, <1>5, <1>6

(* The origin of a cell.                                                   *)
LEMMA CellOrigin ==
  ASSUME NEW c \in Nat
  PROVE  BLOCK * c \in Nat /\ Cell(BLOCK * c) = c /\ Aligned(BLOCK * c)
<1>1. BLOCK \in Nat /\ BLOCK >= 2 /\ BLOCK * c \in Nat /\ BLOCK * c = BLOCK * c + 0
  BY BoardAssumption
<1> QED BY <1>1, CellUnique DEF Aligned

(* On the board a coordinate is one BLOCK away from both ends of the       *)
(* lower half of its register, so a step does not wrap.                    *)
LEMMA BoardCoord ==
  ASSUME NEW p \in Nat, Cell(p) \in 1 .. N
  PROVE  /\ p >= BLOCK /\ 2 * (p + 1) <= WIDTH
         /\ Move(p, 0) = p /\ Move(p, 1) = p + 1 /\ Move(p, -1) = p - 1
<1>1. /\ BLOCK \in Nat /\ BLOCK >= 2
      /\ N \in Nat /\ WIDTH \in Nat /\ 2 * BLOCK * (N + 1) <= WIDTH
  BY BoardAssumption
<1>2. Cell(p) \in Nat /\ p % BLOCK \in 0 .. BLOCK - 1 /\ p = BLOCK * Cell(p) + (p % BLOCK)
  BY CellSplit
<1>3. BLOCK * Cell(p) >= BLOCK
  BY <1>1, <1>2
<1>4. BLOCK * (N + 1) >= BLOCK * (Cell(p) + 1)
  BY <1>1, <1>2
<1>5. p + 1 <= BLOCK * (Cell(p) + 1)
  BY <1>1, <1>2
<1>6. 2 * BLOCK * (N + 1) = 2 * (BLOCK * (N + 1))
  BY <1>1
<1>7. p >= BLOCK /\ 2 * (p + 1) <= WIDTH
  BY <1>1, <1>2, <1>3, <1>4, <1>5, <1>6
<1>8. \A v \in Nat : v < WIDTH => v % WIDTH = v
  BY <1>1
<1>9. p - 1 \in Nat /\ p + 1 \in Nat /\ p + 0 = p /\ p + (-1) = p - 1 /\ p + 1 < WIDTH
  BY <1>1, <1>7
<1> QED BY <1>1, <1>7, <1>8, <1>9 DEF Move

-----------------------------------------------------------------------------
LEMMA TurnsInDir ==
  ASSUME NEW maze, NEW x \in Nat, NEW y \in Nat
  PROVE  Turns(maze, x, y) \subseteq Dir
<1>1. N \in Nat
  BY BoardAssumption
<1> QED BY <1>1 DEF Turns, Dir

LEMMA TurnsOnBoard ==
  ASSUME NEW maze, NEW x \in 1 .. N, NEW y \in 1 .. N
  PROVE  /\ "L" \in Turns(maze, x, y) <=> <<"v", y - 1, x - 1>> \notin maze
         /\ "R" \in Turns(maze, x, y) <=> <<"v", y - 1, x>> \notin maze
         /\ "U" \in Turns(maze, x, y) <=> <<"h", y - 1, x - 1>> \notin maze
         /\ "D" \in Turns(maze, x, y) <=> <<"h", y, x - 1>> \notin maze
<1>1. N \in Nat /\ x \in Nat /\ y \in Nat /\ y # 0 /\ x # 0 /\ ~(y > N) /\ ~(x > N)
  BY BoardAssumption
<1>2. Turns(maze, x, y) = {d \in Dir : Side(x, y)[d] \notin maze}
  BY <1>1 DEF Turns
<1> QED BY <1>2 DEF Side, Dir

(* A free side of a cell leads to a cell of the board, whose opposite side *)
(* is free too.                                                            *)
LEMMA FreeSide ==
  ASSUME NEW maze, Enclosed(maze), NEW x \in 1 .. N, NEW y \in 1 .. N
  PROVE  /\ "L" \in Turns(maze, x, y) => x > 1 /\ "R" \in Turns(maze, x - 1, y)
         /\ "R" \in Turns(maze, x, y) => x < N /\ "L" \in Turns(maze, x + 1, y)
         /\ "U" \in Turns(maze, x, y) => y > 1 /\ "D" \in Turns(maze, x, y - 1)
         /\ "D" \in Turns(maze, x, y) => y < N /\ "U" \in Turns(maze, x, y + 1)
<1>1. N \in Nat /\ x \in Nat /\ y \in Nat
  BY BoardAssumption
<1>2. \A i \in 0 .. N - 1 :
        /\ <<"v", i, 0>> \in maze /\ <<"v", i, N>> \in maze
        /\ <<"h", 0, i>> \in maze /\ <<"h", N, i>> \in maze
  BY DEF Enclosed
<1>3. /\ y - 1 \in 0 .. N - 1 /\ x - 1 \in 0 .. N - 1
      /\ (x + 1) - 1 = x /\ (y + 1) - 1 = y
  BY <1>1
<1>4. /\ <<"v", y - 1, 0>> \in maze /\ <<"v", y - 1, N>> \in maze
      /\ <<"h", 0, x - 1>> \in maze /\ <<"h", N, x - 1>> \in maze
  BY <1>2, <1>3
<1>5. ASSUME "L" \in Turns(maze, x, y) PROVE x > 1 /\ "R" \in Turns(maze, x - 1, y)
  <2>1. <<"v", y - 1, x - 1>> \notin maze
    BY <1>5, TurnsOnBoard
  <2>2. x - 1 # 0
    BY <1>4, <2>1
  <2>3. x - 1 \in 1 .. N
    BY <1>1, <2>2
  <2>4. "R" \in Turns(maze, x - 1, y) <=> <<"v", y - 1, x - 1>> \notin maze
    BY <2>3, TurnsOnBoard
  <2> QED BY <1>1, <2>1, <2>3, <2>4
<1>6. ASSUME "R" \in Turns(maze, x, y) PROVE x < N /\ "L" \in Turns(maze, x + 1, y)
  <2>1. <<"v", y - 1, x>> \notin maze
    BY <1>6, TurnsOnBoard
  <2>2. x # N
    BY <1>4, <2>1
  <2>3. x + 1 \in 1 .. N
    BY <1>1, <2>2
  <2>4. "L" \in Turns(maze, x + 1, y) <=> <<"v", y - 1, (x + 1) - 1>> \notin maze
    BY <2>3, TurnsOnBoard
  <2> QED BY <1>1, <1>3, <2>1, <2>3, <2>4
<1>7. ASSUME "U" \in Turns(maze, x, y) PROVE y > 1 /\ "D" \in Turns(maze, x, y - 1)
  <2>1. <<"h", y - 1, x - 1>> \notin maze
    BY <1>7, TurnsOnBoard
  <2>2. y - 1 # 0
    BY <1>4, <2>1
  <2>3. y - 1 \in 1 .. N
    BY <1>1, <2>2
  <2>4. "D" \in Turns(maze, x, y - 1) <=> <<"h", y - 1, x - 1>> \notin maze
    BY <2>3, TurnsOnBoard
  <2> QED BY <1>1, <2>1, <2>3, <2>4
<1>8. ASSUME "D" \in Turns(maze, x, y) PROVE y < N /\ "U" \in Turns(maze, x, y + 1)
  <2>1. <<"h", y, x - 1>> \notin maze
    BY <1>8, TurnsOnBoard
  <2>2. y # N
    BY <1>4, <2>1
  <2>3. y + 1 \in 1 .. N
    BY <1>1, <2>2
  <2>4. "U" \in Turns(maze, x, y + 1) <=> <<"h", (y + 1) - 1, x - 1>> \notin maze
    BY <2>3, TurnsOnBoard
  <2> QED BY <1>1, <1>3, <2>1, <2>3, <2>4
<1> QED BY <1>5, <1>6, <1>7, <1>8

(* An actor on the track that goes on, or takes a free side at an          *)
(* intersection, or stands there, is on the track afterwards.              *)
LEMMA Advance ==
  ASSUME NEW maze, Enclosed(maze), NEW x \in Coord, NEW y \in Coord, NEW d \in Motion,
         OnTrack(maze, x, y, d),
         AtIntersection(x, y) =>
           d = "none" \/ d \in Turns(maze, Cell(x), Cell(y))
  PROVE  /\ Move(x, DX(d)) \in Coord /\ Move(y, DY(d)) \in Coord
         /\ OnTrack(maze, Move(x, DX(d)), Move(y, DY(d)), d)
<1> DEFINE cx == Cell(x)
           cy == Cell(y)
<1>1. /\ WIDTH \in Nat /\ N \in Nat /\ x \in Nat /\ y \in Nat
      /\ cx \in 1 .. N /\ cy \in 1 .. N
  BY BoardAssumption DEF Coord, OnTrack, Board
<1>2. /\ x >= 1 /\ x + 1 \in Coord /\ x - 1 \in Coord
      /\ y >= 1 /\ y + 1 \in Coord /\ y - 1 \in Coord
  BY <1>1, BoardCoord, BoardAssumption DEF Coord
<1>3. /\ Move(x, 0) = x /\ Move(x, 1) = x + 1 /\ Move(x, -1) = x - 1
      /\ Move(y, 0) = y /\ Move(y, 1) = y + 1 /\ Move(y, -1) = y - 1
  BY <1>1, BoardCoord
<1>4. CASE d = "none"
  <2>1. Move(x, DX(d)) = x /\ Move(y, DY(d)) = y
    BY <1>3, <1>4 DEF DX, DY
  <2> QED BY <2>1
<1>5. CASE d = "L"
  <2>1. Move(x, DX(d)) = x - 1 /\ Move(y, DY(d)) = y /\ Aligned(y)
    BY <1>3, <1>5 DEF DX, DY, OnTrack
  <2>2. CASE Aligned(x)
    <3>1. cx > 1 /\ "R" \in Turns(maze, cx - 1, cy)
      BY <1>1, <1>5, <2>1, <2>2, FreeSide DEF AtIntersection
    <3>2. Cell(x - 1) = cx - 1
      BY <1>1, <2>2, StepBack
    <3>3. <<cx - 1, cy>> \in Board
      BY <1>1, <3>1 DEF Board
    <3> QED BY <1>2, <1>5, <2>1, <3>1, <3>2, <3>3 DEF OnTrack
  <2>3. CASE ~Aligned(x)
    <3>1. Cell(x - 1) = cx
      BY <1>1, <2>3, StepBack
    <3> QED BY <1>2, <1>5, <2>1, <2>3, <3>1 DEF OnTrack
  <2> QED BY <2>2, <2>3
<1>6. CASE d = "R"
  <2>1. Move(x, DX(d)) = x + 1 /\ Move(y, DY(d)) = y /\ Aligned(y)
    BY <1>3, <1>6 DEF DX, DY, OnTrack
  <2>2. "R" \in Turns(maze, cx, cy)
    BY <1>6, <2>1 DEF OnTrack, AtIntersection
  <2>3. <<cx + 1, cy>> \in Board
    BY <1>1, <2>2, FreeSide DEF Board
  <2>4. \/ Cell(x + 1) = cx
        \/ Aligned(x + 1) /\ Cell(x + 1) = cx + 1
    BY <1>1, StepForward
  <2> QED BY <1>2, <1>6, <2>1, <2>2, <2>3, <2>4 DEF OnTrack
<1>7. CASE d = "U"
  <2>1. Move(x, DX(d)) = x /\ Move(y, DY(d)) = y - 1 /\ Aligned(x)
    BY <1>3, <1>7 DEF DX, DY, OnTrack
  <2>2. CASE Aligned(y)
    <3>1. cy > 1 /\ "D" \in Turns(maze, cx, cy - 1)
      BY <1>1, <1>7, <2>1, <2>2, FreeSide DEF AtIntersection
    <3>2. Cell(y - 1) = cy - 1
      BY <1>1, <2>2, StepBack
    <3>3. <<cx, cy - 1>> \in Board
      BY <1>1, <3>1 DEF Board
    <3> QED BY <1>2, <1>7, <2>1, <3>1, <3>2, <3>3 DEF OnTrack
  <2>3. CASE ~Aligned(y)
    <3>1. Cell(y - 1) = cy
      BY <1>1, <2>3, StepBack
    <3> QED BY <1>2, <1>7, <2>1, <2>3, <3>1 DEF OnTrack
  <2> QED BY <2>2, <2>3
<1>8. CASE d = "D"
  <2>1. Move(x, DX(d)) = x /\ Move(y, DY(d)) = y + 1 /\ Aligned(x)
    BY <1>3, <1>8 DEF DX, DY, OnTrack
  <2>2. "D" \in Turns(maze, cx, cy)
    BY <1>8, <2>1 DEF OnTrack, AtIntersection
  <2>3. <<cx, cy + 1>> \in Board
    BY <1>1, <2>2, FreeSide DEF Board
  <2>4. \/ Cell(y + 1) = cy
        \/ Aligned(y + 1) /\ Cell(y + 1) = cy + 1
    BY <1>1, StepForward
  <2> QED BY <1>2, <1>8, <2>1, <2>2, <2>3, <2>4 DEF OnTrack
<1> QED BY <1>4, <1>5, <1>6, <1>7, <1>8 DEF Motion, Dir

(* The same steps, told by the cells they lead to: an actor that leaves an *)
(* intersection, and one that is between two cells.                        *)
LEMMA Leave ==
  ASSUME NEW x \in Nat, NEW y \in Nat, <<Cell(x), Cell(y)>> \in Board,
         AtIntersection(x, y), NEW d \in Dir
  PROVE  /\ d = "L" => /\ Cell(Move(x, DX(d))) = Cell(x) - 1 /\ ~Aligned(Move(x, DX(d)))
                       /\ Move(y, DY(d)) = y
         /\ d = "R" => /\ Cell(Move(x, DX(d))) = Cell(x) /\ ~Aligned(Move(x, DX(d)))
                       /\ Move(y, DY(d)) = y
         /\ d = "U" => /\ Cell(Move(y, DY(d))) = Cell(y) - 1 /\ ~Aligned(Move(y, DY(d)))
                       /\ Move(x, DX(d)) = x
         /\ d = "D" => /\ Cell(Move(y, DY(d))) = Cell(y) /\ ~Aligned(Move(y, DY(d)))
                       /\ Move(x, DX(d)) = x
<1>1. Cell(x) \in 1 .. N /\ Cell(y) \in 1 .. N /\ Cell(x) >= 1 /\ Cell(y) >= 1
  BY DEF Board
<1>2. /\ Move(x, 0) = x /\ Move(x, 1) = x + 1 /\ Move(x, -1) = x - 1
      /\ Move(y, 0) = y /\ Move(y, 1) = y + 1 /\ Move(y, -1) = y - 1
  BY <1>1, BoardCoord
<1>3. /\ Cell(x + 1) = Cell(x) /\ ~Aligned(x + 1)
      /\ Cell(y + 1) = Cell(y) /\ ~Aligned(y + 1)
  BY StepForward DEF AtIntersection
<1>4. /\ Cell(x - 1) = Cell(x) - 1 /\ ~Aligned(x - 1)
      /\ Cell(y - 1) = Cell(y) - 1 /\ ~Aligned(y - 1)
  BY <1>1, StepBack DEF AtIntersection
<1> QED BY <1>2, <1>3, <1>4 DEF DX, DY

LEMMA Between ==
  ASSUME NEW x \in Nat, NEW y \in Nat, <<Cell(x), Cell(y)>> \in Board, NEW d \in Dir
  PROVE  /\ ~Aligned(x) /\ d \in {"L", "R"} =>
              /\ Move(y, DY(d)) = y
              /\ ~Aligned(Move(x, DX(d))) => Cell(Move(x, DX(d))) = Cell(x)
              /\ Aligned(Move(x, DX(d))) => Cell(Move(x, DX(d))) \in {Cell(x), Cell(x) + 1}
              /\ d = "L" => Cell(Move(x, DX(d))) = Cell(x)
         /\ ~Aligned(y) /\ d \in {"U", "D"} =>
              /\ Move(x, DX(d)) = x
              /\ ~Aligned(Move(y, DY(d))) => Cell(Move(y, DY(d))) = Cell(y)
              /\ Aligned(Move(y, DY(d))) => Cell(Move(y, DY(d))) \in {Cell(y), Cell(y) + 1}
              /\ d = "U" => Cell(Move(y, DY(d))) = Cell(y)
<1>1. Cell(x) \in 1 .. N /\ Cell(y) \in 1 .. N /\ Cell(x) >= 1 /\ Cell(y) >= 1
  BY DEF Board
<1>2. /\ Move(x, 0) = x /\ Move(x, 1) = x + 1 /\ Move(x, -1) = x - 1
      /\ Move(y, 0) = y /\ Move(y, 1) = y + 1 /\ Move(y, -1) = y - 1
  BY <1>1, BoardCoord
<1>3. /\ ~Aligned(x) => \/ Aligned(x + 1) /\ Cell(x + 1) = Cell(x) + 1
                        \/ ~Aligned(x + 1) /\ Cell(x + 1) = Cell(x)
      /\ ~Aligned(y) => \/ Aligned(y + 1) /\ Cell(y + 1) = Cell(y) + 1
                        \/ ~Aligned(y + 1) /\ Cell(y + 1) = Cell(y)
  BY StepForward
<1>4. /\ ~Aligned(x) => Cell(x - 1) = Cell(x)
      /\ ~Aligned(y) => Cell(y - 1) = Cell(y)
  BY <1>1, StepBack
<1> QED BY <1>2, <1>3, <1>4 DEF DX, DY

-----------------------------------------------------------------------------
(* Types of the operators.                                                 *)

LEMMA MoveType ==
  ASSUME NEW p \in Coord, NEW s \in -1 .. 1
  PROVE  Move(p, s) \in Coord
<1>1. WIDTH \in Nat /\ WIDTH > 0
  <2>1. /\ BLOCK \in Nat /\ BLOCK >= 2 /\ N \in Nat /\ N >= 1 /\ WIDTH \in Nat
        /\ 2 * BLOCK * (N + 1) <= WIDTH
    BY BoardAssumption
  <2>2. BLOCK * (N + 1) >= 1
    BY <2>1
  <2> QED BY <2>1, <2>2
<1>2. p + s \in Int
  BY <1>1 DEF Coord
<1> QED BY <1>1, <1>2 DEF Move, Coord

LEMMA StepType == \A d : DX(d) \in -1 .. 1 /\ DY(d) \in -1 .. 1
BY DEF DX, DY

LEMMA OppositeType == \A d \in Dir : Opposite[d] \in Dir
BY DEF Opposite, Dir

LEMMA MotionFinalType ==
  ASSUME PacTypeOK, NEW key \in Keys, NEW free
  PROVE  MotionFinal(key, free) \in Motion
BY DEF MotionFinal, PacTypeOK, Motion, Dir

LEMMA GhostTurnType ==
  ASSUME NEW free \in SUBSET Dir, NEW s, NEW px, NEW py, NEW rand \in 0 .. 3
  PROVE  /\ GhostTurn(free, s, px, py, rand) \in Dir
         /\ free # {} => GhostTurn(free, s, px, py, rand) \in free
<1> DEFINE turn == GhostTurn(free, s, px, py, rand)
<1>1. CASE free = {}
  BY <1>1 DEF GhostTurn, Dir
<1>2. CASE \E d \in Dir : free = {d}
  <2>1. PICK d \in Dir : free = {d}
    BY <1>2
  <2>2. (CHOOSE e \in free : TRUE) \in free
    BY <2>1
  <2>3. free # {} /\ free # Dir /\ ~ \E e \in Dir : free = Dir \ {e}
    BY <2>1 DEF Dir
  <2>4. turn = CHOOSE e \in free : TRUE
    BY <2>3, <1>2, Zenon DEF GhostTurn
  <2> QED BY <2>1, <2>2, <2>4
<1>3. CASE \E d \in Dir : free = Dir \ {d}
  <2>1. TurnOfThree(free, s, px, py) \in free
    BY <1>3 DEF TurnOfThree, Preferences, Dir
  <2>2. free # {} /\ ~ \E d \in Dir : free = {d}
    BY <1>3 DEF Dir
  <2>3. turn = TurnOfThree(free, s, px, py)
    BY <2>2, <1>3 DEF GhostTurn
  <2> QED BY <2>1, <2>2, <2>3
<1>4. CASE free = Dir
  <2>1. /\ ~(free = {}) /\ ~(\E d \in Dir : free = {d})
        /\ ~(\E d \in Dir : free = Dir \ {d})
    BY <1>4 DEF Dir
  <2>2. turn = <<"L", "R", "U", "D">>[rand + 1]
    BY <2>1, <1>4 DEF GhostTurn
  <2>3. turn \in Dir
    BY <2>2 DEF Dir
  <2> QED BY <2>3, <1>4
<1>5. CASE /\ ~(free = {}) /\ ~(\E d \in Dir : free = {d})
           /\ ~(\E d \in Dir : free = Dir \ {d}) /\ ~(free = Dir)
  <2>1. turn = TurnOfTwo(free, s.dir, rand)
    BY <1>5 DEF GhostTurn
  <2>2. Pivot(free) \in free
    BY <1>5 DEF Pivot, Dir
  <2>3. \E d \in free : d # Pivot(free)
    BY <1>5, <2>2
  <2>4. (CHOOSE d \in free : d # Pivot(free)) \in free
    BY <2>3
  <2> QED BY <2>1, <2>2, <2>4 DEF TurnOfTwo
<1> QED BY <1>1, <1>2, <1>3, <1>4, <1>5

LEMMA NextGhostType ==
  ASSUME NEW s \in GhostState, NEW maze, NEW px, NEW py, NEW word \in RandomWord
  PROVE  NextGhost(s, maze, px, py, word) \in GhostState
<1> DEFINE free == Turns(maze, Cell(s.x), Cell(s.y))
           here == AtIntersection(s.x, s.y)
           turn == GhostTurn(free, s, px, py, word[s.rand])
           d == IF here THEN turn ELSE s.dir
           rand == IF here THEN (s.rand + 1) % RANDFIELDS ELSE s.rand
<1>1. /\ s.x \in Coord /\ s.y \in Coord /\ s.dir \in Motion
      /\ s.rand \in 0 .. RANDFIELDS - 1
  BY DEF GhostState
<1>2. s.x \in Nat /\ s.y \in Nat
  BY <1>1 DEF Coord
<1>3. Cell(s.x) \in Nat /\ Cell(s.y) \in Nat
  BY <1>2, CellSplit
<1>4. free \in SUBSET Dir
  BY <1>3, TurnsInDir
<1>5. word[s.rand] \in 0 .. 3
  BY <1>1 DEF RandomWord
<1>6. d \in Motion
  BY <1>1, <1>4, <1>5, GhostTurnType DEF Motion
<1>7. rand \in 0 .. RANDFIELDS - 1
  BY <1>1, GhostAssumption
<1>8. Move(s.x, DX(d)) \in Coord /\ Move(s.y, DY(d)) \in Coord
  BY <1>1, MoveType, StepType
<1>9. NextGhost(s, maze, px, py, word)
        = [x |-> Move(s.x, DX(d)), y |-> Move(s.y, DY(d)), dir |-> d, rand |-> rand]
  BY DEF NextGhost
<1> HIDE DEF d, rand
<1> QED BY <1>6, <1>7, <1>8, <1>9 DEF GhostState

LEMMA HomeCoord ==
  ASSUME NEW c \in 1 .. N
  PROVE  BLOCK * c \in Coord
<1>1. BLOCK * c \in Nat /\ Cell(BLOCK * c) = c
  BY BoardAssumption, CellOrigin
<1>2. 2 * (BLOCK * c + 1) <= WIDTH
  BY <1>1, BoardCoord
<1> QED BY BoardAssumption, <1>1, <1>2 DEF Coord

LEMMA HomeGhostType == HomeGhost \in GhostState
<1>1. BLOCK * GhostStart[1] \in Coord /\ BLOCK * GhostStart[2] \in Coord
  BY HomeCoord, GhostAssumption DEF Board
<1>2. 0 \in 0 .. RANDFIELDS - 1 /\ "none" \in Motion
  BY GhostAssumption DEF Motion
<1> QED BY <1>1, <1>2 DEF HomeGhost, GhostState

LEMMA ResetTypes ==
  /\ PacReset => PacTypeOK' /\ PacHome' /\ lastTurn' = "none"
  /\ GhostReset => GhostTypeOK'
<1>1. BLOCK * PacStart[1] \in Coord /\ BLOCK * PacStart[2] \in Coord
  BY HomeCoord, PacStartAssumption DEF Board
<1>2. ASSUME PacReset PROVE PacTypeOK' /\ PacHome' /\ lastTurn' = "none"
  BY <1>1, <1>2 DEF PacReset, PacTypeOK, PacHome, Motion
<1>3. ASSUME GhostReset PROVE GhostTypeOK'
  BY HomeGhostType, <1>3 DEF GhostReset, GhostTypeOK
<1> QED BY <1>2, <1>3

-----------------------------------------------------------------------------
(* One step of each part of the game.                                      *)

LEMMA NextStates ==
  /\ \A s \in Waiting : AfterEnter[s] \in Playing
  /\ \A s \in Playing : AfterClear[s] \in Waiting
<1>1. /\ AfterEnter["NEWGAME"] = "LEVEL1" /\ AfterEnter["BEAT1"] = "LEVEL2"
      /\ AfterEnter["BEAT2"] = "LEVEL1"
      /\ AfterClear["LEVEL1"] = "BEAT1" /\ AfterClear["LEVEL2"] = "BEAT2"
  BY DEF AfterEnter, AfterClear
<1> QED BY <1>1 DEF Waiting, Playing

(* An edge of Clk changes the state only from waiting to playing unless it *)
(* raises resetAll, and then the game waits.                               *)
LEMMA RegistersStep ==
  ASSUME ControlTypeOK, DotsTypeOK, Registers
  PROVE  /\ ControlTypeOK' /\ DotsTypeOK'
         /\ resetAll' => state' \in Waiting
         /\ ~resetAll' => state' = state \/ (state \in Waiting /\ state' \in Playing)
<1> DEFINE Goal == /\ ControlTypeOK'
                   /\ resetAll' => state' \in Waiting
                   /\ ~resetAll' =>
                        state' = state \/ (state \in Waiting /\ state' \in Playing)
<1>1. ASSUME Die PROVE Goal
  BY <1>1 DEF Die, ControlTypeOK, States, Waiting
<1>2. ASSUME NEW enter \in BOOLEAN, Wait(enter) PROVE Goal
  <2>1. /\ state \in Waiting /\ resetAll' = FALSE
        /\ state' = state \/ state' = AfterEnter[state]
    BY <1>2 DEF Wait
  <2>2. state' = state \/ state' \in Playing
    BY <2>1, NextStates
  <2> QED BY <2>1, <2>2 DEF ControlTypeOK, States
<1>3. ASSUME Play(anyDotsLeft) PROVE Goal
  <2>1. CASE anyDotsLeft = TRUE
    BY <1>3, <2>1 DEF Play, ControlTypeOK
  <2>2. CASE anyDotsLeft = FALSE
    BY <1>3, <2>2, NextStates DEF Play, ControlTypeOK, States
  <2>3. anyDotsLeft \in BOOLEAN
    BY DEF anyDotsLeft, AnyDotsLeft
  <2> QED BY <2>1, <2>2, <2>3
<1>4. Die \/ (\E enter \in BOOLEAN : Wait(enter)) \/ Play(anyDotsLeft)
  BY DEF Registers, ControlEdge
<1>5. DotsTypeOK'
  BY DEF Registers, DotsEdge, DotsTypeOK, UnderPac
<1> QED BY <1>1, <1>2, <1>3, <1>4, <1>5

LEMMA WallsEnclosed ==
  ASSUME NEW s \in States
  PROVE  Enclosed(Walls(s))
BY MazeAssumption DEF Walls, isPre, level

(* A tick of Pac-Man in any maze keeps him on the track of that maze.      *)
LEMMA PacStep ==
  ASSUME PacTypeOK, NEW key \in Keys, NEW maze, PacTick(key, maze)
  PROVE  /\ PacTypeOK'
         /\ Enclosed(maze) /\ OnTrack(maze, pacX, pacY, pacDir)
              => OnTrack(maze, pacX', pacY', pacDir')
<1> DEFINE free == Turns(maze, Cell(pacX), Cell(pacY))
           d == MotionFinal(key, free)
<1>1. pacX \in Coord /\ pacY \in Coord /\ pacDir \in Motion /\ lastTurn \in Motion
  BY DEF PacTypeOK
<1>2. d \in Motion
  BY MotionFinalType
<1>3. pacDir' = d /\ pacX' = Move(pacX, DX(d)) /\ pacY' = Move(pacY, DY(d))
  BY DEF PacTick
<1>4. PacTypeOK'
  <2>1. Move(pacX, DX(d)) \in Coord /\ Move(pacY, DY(d)) \in Coord
    BY <1>1, MoveType, StepType
  <2>2. lastTurn' \in Motion
    BY <1>1 DEF PacTick, Motion
  <2> QED BY <1>2, <1>3, <2>1, <2>2 DEF PacTypeOK
<1>5. ASSUME Enclosed(maze), OnTrack(maze, pacX, pacY, pacDir)
      PROVE  OnTrack(maze, pacX', pacY', pacDir')
  <2>1. CASE PacAtIntersection
    <3>1. d = "none" \/ d \in free
      BY <2>1 DEF MotionFinal
    <3>2. OnTrack(maze, pacX, pacY, d)
      BY <1>5, <2>1 DEF OnTrack, PacAtIntersection, AtIntersection
    <3> QED BY <1>1, <1>2, <1>3, <1>5, <3>1, <3>2, Advance
  <2>2. CASE ~PacAtIntersection
    <3>1. d = pacDir \/ (pacDir \in Dir /\ d = Opposite[pacDir])
      BY <2>2 DEF MotionFinal
    <3>2. OnTrack(maze, pacX, pacY, d)
      BY <1>5, <3>1 DEF OnTrack, Opposite, Dir
    <3>3. ~AtIntersection(pacX, pacY)
      BY <2>2 DEF PacAtIntersection
    <3> QED BY <1>1, <1>2, <1>3, <1>5, <3>2, <3>3, Advance
  <2> QED BY <2>1, <2>2
<1> QED BY <1>4, <1>5

LEMMA GhostStep ==
  ASSUME GhostTypeOK, NEW maze, NEW px, NEW py, NEW words \in [Ghosts -> RandomWord],
         GhostTick(maze, px, py, words)
  PROVE  GhostTypeOK'
BY NextGhostType DEF GhostTick, GhostTypeOK

-----------------------------------------------------------------------------
(* The invariant that keeps Pac-Man on the track.  The walls close around  *)
(* him when the game starts to wait, so he must be home by then.           *)
PacInv ==
  /\ GameTypeOK
  /\ PacOnTrack
  /\ state \in Waiting => PacHome

LEMMA HomeOnTrack ==
  ASSUME NEW maze, NEW d
  PROVE  OnTrack(maze, BLOCK * PacStart[1], BLOCK * PacStart[2], d)
<1>1. /\ PacStart[1] \in Nat /\ PacStart[2] \in Nat
      /\ <<PacStart[1], PacStart[2]>> \in Board
  BY PacStartAssumption, BoardAssumption DEF Board
<1>2. /\ Cell(BLOCK * PacStart[1]) = PacStart[1] /\ Aligned(BLOCK * PacStart[1])
      /\ Cell(BLOCK * PacStart[2]) = PacStart[2] /\ Aligned(BLOCK * PacStart[2])
  BY <1>1, CellOrigin
<1> QED BY <1>1, <1>2 DEF OnTrack

LEMMA PacHomeOnTrack ==
  /\ PacHome => \A maze : OnTrack(maze, pacX, pacY, pacDir)
  /\ PacHome' => \A maze : OnTrack(maze, pacX', pacY', pacDir')
BY HomeOnTrack DEF PacHome

(* "pacman can't move": his start has no exit while the game waits.        *)
LEMMA PacStaysHome ==
  ASSUME PacHome, state \in Waiting, NEW key \in Keys, PacTick(key, Walls(state))
  PROVE  PacHome'
<1>1. /\ Cell(pacX) = PacStart[1] /\ Aligned(pacX)
      /\ Cell(pacY) = PacStart[2] /\ Aligned(pacY)
  BY CellOrigin, PacStartAssumption, BoardAssumption DEF PacHome, Board
<1>2. Turns(Walls(state), Cell(pacX), Cell(pacY)) = {}
  BY <1>1, PreAssumption DEF Walls, isPre
<1>3. MotionFinal(key, {}) = "none"
  BY <1>1 DEF MotionFinal, PacAtIntersection, AtIntersection
<1>4. Move(pacX, 0) = pacX /\ Move(pacY, 0) = pacY
  <2>1. pacX \in Nat /\ Cell(pacX) \in 1 .. N /\ pacY \in Nat /\ Cell(pacY) \in 1 .. N
    BY <1>1, PacStartAssumption, BoardAssumption DEF Board, PacHome
  <2> QED BY <2>1, BoardCoord
<1> QED BY <1>2, <1>3, <1>4 DEF PacTick, PacHome, DX, DY

LEMMA PacInvInit == GameInit => PacInv
<1>1. SUFFICES ASSUME GameInit PROVE PacInv
  OBVIOUS
<1>2. BLOCK * PacStart[1] \in Coord /\ BLOCK * PacStart[2] \in Coord
  BY HomeCoord, PacStartAssumption DEF Board
<1>3. PacHome /\ PacTypeOK
  BY <1>1, <1>2 DEF GameInit, PacInit, PacHome, PacTypeOK, Motion
<1>4. GhostTypeOK
  BY <1>1, HomeGhostType DEF GameInit, GhostInit, GhostTypeOK
<1>5. ControlTypeOK /\ DotsTypeOK
  BY <1>1 DEF GameInit, ControlInit, DotsInit, ControlTypeOK, DotsTypeOK, States, Waiting
<1>6. PacOnTrack
  BY <1>3, PacHomeOnTrack DEF PacOnTrack
<1> QED BY <1>3, <1>4, <1>5, <1>6 DEF PacInv, GameTypeOK

(* Every edge of Clk keeps the invariant, whichever clocks it raises.      *)
LEMMA PacInvStep == PacInv /\ [GameNext]_gameVars => PacInv'
<1>1. SUFFICES ASSUME PacInv, [GameNext]_gameVars PROVE PacInv'
  OBVIOUS
<1>2. ControlTypeOK /\ PacTypeOK /\ GhostTypeOK /\ DotsTypeOK
  BY <1>1 DEF PacInv, GameTypeOK
<1>3. ASSUME Registers,
             PacHolds \/ PacEdge, GhostsHold \/ GhostEdge
      PROVE  PacInv'
  <2>1. /\ ControlTypeOK' /\ DotsTypeOK'
        /\ resetAll' => state' \in Waiting
        /\ ~resetAll' => state' = state \/ (state \in Waiting /\ state' \in Playing)
    BY <1>2, <1>3, RegistersStep
  <2>2. GhostTypeOK'
    <3>1. CASE GhostReset
      BY <3>1, ResetTypes
    <3>2. CASE UNCHANGED ghost
      BY <1>2, <3>2 DEF GhostTypeOK
    <3>3. CASE \E s \in {state, state'}, p \in {<<pacX, pacY>>, <<pacX', pacY'>>},
                  words \in [Ghosts -> RandomWord] : GhostTick(Walls(s), p[1], p[2], words)
      BY <1>2, <3>3, GhostStep
    <3> QED BY <1>3, <3>1, <3>2, <3>3 DEF GhostsHold, GhostEdge
  <2>3. CASE PacReset
    <3>1. PacTypeOK' /\ PacHome'
      BY <2>3, ResetTypes
    <3>2. PacOnTrack'
      BY <3>1, PacHomeOnTrack DEF PacOnTrack
    <3> QED BY <2>1, <2>2, <3>1, <3>2 DEF PacInv, GameTypeOK
  <2>4. CASE ~resetAll' /\ UNCHANGED pacVars
    <3>1. PacTypeOK'
      BY <1>2, <2>4 DEF PacTypeOK, pacVars
    <3>2. state' \in Waiting => PacHome'
      BY <1>1, <2>1, <2>4 DEF PacInv, PacHome, pacVars, Waiting, Playing
    <3>3. PacOnTrack'
      <4>1. CASE state' = state
        BY <1>1, <2>4, <4>1 DEF PacInv, PacOnTrack, pacVars, Walls, isPre, level, OnTrack
      <4>2. CASE state \in Waiting
        <5>1. OnTrack(Walls(state'), pacX, pacY, pacDir)
          BY <1>1, <4>2, PacHomeOnTrack DEF PacInv
        <5> QED BY <2>4, <5>1 DEF PacOnTrack, pacVars
      <4> QED BY <2>1, <2>4, <4>1, <4>2
    <3> QED BY <2>1, <2>2, <3>1, <3>2, <3>3 DEF PacInv, GameTypeOK
  <2>5. CASE ~resetAll' /\ \E key \in Keys, s \in {state, state'} : PacTick(key, Walls(s))
    <3>1. PICK key \in Keys, s \in {state, state'} : PacTick(key, Walls(s))
      BY <2>5
    <3>2. s \in States /\ Enclosed(Walls(s))
      BY <1>2, <2>1, <3>1, WallsEnclosed DEF ControlTypeOK
    <3>3. PacTypeOK'
      BY <1>2, <3>1, PacStep
    <3>4. OnTrack(Walls(s), pacX', pacY', pacDir')
      <4>1. OnTrack(Walls(s), pacX, pacY, pacDir)
        <5>1. CASE s = state
          BY <1>1, <5>1 DEF PacInv, PacOnTrack
        <5>2. CASE s # state
          BY <1>1, <2>1, <2>5, <3>1, <5>2, PacHomeOnTrack DEF PacInv
        <5> QED BY <5>1, <5>2
      <4> QED BY <1>2, <3>1, <3>2, <4>1, PacStep
    <3>5. CASE state \in Waiting /\ s = state
      <4>1. PacHome'
        <5>1. PacTick(key, Walls(state)) /\ PacHome
          BY <1>1, <3>1, <3>5 DEF PacInv
        <5> QED BY <3>5, <5>1, PacStaysHome
      <4>2. PacOnTrack'
        BY <4>1, PacHomeOnTrack DEF PacOnTrack
      <4> QED BY <2>1, <2>2, <3>3, <4>1, <4>2 DEF PacInv, GameTypeOK
    <3>6. CASE state \notin Waiting \/ s = state'
      <4>1. s = state' \/ (state' = state /\ s = state)
        BY <2>1, <2>5, <3>1, <3>6
      <4>2. PacOnTrack'
        BY <3>4, <4>1 DEF PacOnTrack
      <4>3. CASE state' \in Waiting
        <5>1. state = state'
          BY <2>1, <2>5, <4>3 DEF Waiting, Playing
        <5> QED BY <3>5, <3>6, <4>1, <4>3, <5>1
      <4>4. CASE state' \notin Waiting
        BY <2>1, <2>2, <3>3, <4>2, <4>4 DEF PacInv, GameTypeOK
      <4> QED BY <4>3, <4>4
    <3> QED BY <3>1, <3>5, <3>6
  <2> QED BY <1>3, <2>3, <2>4, <2>5 DEF PacHolds, PacEdge
<1>4. CASE PushReset
  <2>1. PacTypeOK' /\ PacHome' /\ GhostTypeOK'
    BY <1>4, ResetTypes DEF PushReset
  <2>2. ControlTypeOK' /\ DotsTypeOK'
    BY <1>4 DEF PushReset, ControlReset, ControlTypeOK, DotsTypeOK, States, Waiting
  <2>3. PacOnTrack'
    BY <2>1, PacHomeOnTrack DEF PacOnTrack
  <2> QED BY <2>1, <2>2, <2>3 DEF PacInv, GameTypeOK
<1>5. CASE UNCHANGED gameVars
  BY <1>1, <1>5 DEF gameVars, PacInv, GameTypeOK, ControlTypeOK, PacTypeOK, GhostTypeOK,
     DotsTypeOK, PacOnTrack, PacHome, Walls, isPre, level, OnTrack
<1> QED BY <1>1, <1>3, <1>4, <1>5
     DEF GameNext, ClkEdge, ClkEdgePac, ClkEdgeGhosts, ClkEdgeBoth

(* Every register keeps its type, whatever the keys, the randomness and    *)
(* the order of the clocks.                                                *)
THEOREM TypeCorrect == GameSpec => []GameTypeOK
<1>1. PacInv => GameTypeOK
  BY DEF PacInv
<1> QED BY <1>1, PacInvInit, PacInvStep, PTL DEF GameSpec

(* Pac-Man never enters a wall of the maze that is shown.                  *)
THEOREM PacStaysOnTrack == GameSpec => []PacOnTrack
<1>1. PacInv => PacOnTrack
  BY DEF PacInv
<1> QED BY <1>1, PacInvInit, PacInvStep, PTL DEF GameSpec

-----------------------------------------------------------------------------
(* An area no free side leads out of (Closed) is not left.                 *)
LEMMA CellsIn ==
  ASSUME NEW area, NEW x, NEW y, <<Cell(x), Cell(y)>> \in area,
         ~Aligned(x) => <<Cell(x) + 1, Cell(y)>> \in area,
         ~Aligned(y) => <<Cell(x), Cell(y) + 1>> \in area
  PROVE  CellsOf(x, y) \subseteq area
BY DEF CellsOf

(* An actor whose cells are in such an area stays in it.                   *)
LEMMA StaysInArea ==
  ASSUME NEW maze, NEW area, Closed(maze, area),
         NEW x \in Coord, NEW y \in Coord, NEW d \in Motion,
         OnTrack(maze, x, y, d), CellsOf(x, y) \subseteq area,
         AtIntersection(x, y) => d = "none" \/ d \in Turns(maze, Cell(x), Cell(y))
  PROVE  CellsOf(Move(x, DX(d)), Move(y, DY(d))) \subseteq area
<1> DEFINE cx == Cell(x)
           cy == Cell(y)
           nx == Move(x, DX(d))
           ny == Move(y, DY(d))
<1>1. /\ x \in Nat /\ y \in Nat /\ <<cx, cy>> \in Board
      /\ cx \in 1 .. N /\ cy \in 1 .. N /\ cx \in Nat /\ cy \in Nat
  BY BoardAssumption DEF Coord, OnTrack, Board
<1>2. /\ <<cx, cy>> \in area
      /\ ~Aligned(x) => <<cx + 1, cy>> \in area
      /\ ~Aligned(y) => <<cx, cy + 1>> \in area
  BY DEF CellsOf
<1>3. CASE d = "none"
  <2>1. nx = x /\ ny = y
    BY <1>1, <1>3, BoardCoord DEF DX, DY
  <2> QED BY <2>1
<1>4. CASE d \in Dir /\ AtIntersection(x, y)
  <2>1. Aligned(x) /\ Aligned(y)
    BY <1>4 DEF AtIntersection
  <2>2. <<cx + DX(d), cy + DY(d)>> \in area
    <3>1. <<cx, cy>>[1] = cx /\ <<cx, cy>>[2] = cy
      OBVIOUS
    <3>2. d \in Turns(maze, cx, cy)
      BY <1>4 DEF Dir
    <3> QED BY <1>2, <1>4, <3>1, <3>2 DEF Closed
  <2>3. CASE d = "L"
    <3>1. Cell(nx) = cx - 1 /\ ny = y
      BY <1>1, <1>4, <2>3, Leave
    <3>2. <<cx - 1, cy>> \in area /\ (cx - 1) + 1 = cx
      BY <1>1, <2>2, <2>3 DEF DX, DY
    <3> QED BY <1>2, <2>1, <3>1, <3>2, CellsIn
  <2>4. CASE d = "R"
    <3>1. Cell(nx) = cx /\ ny = y
      BY <1>1, <1>4, <2>4, Leave
    <3>2. <<cx + 1, cy>> \in area
      BY <1>1, <2>2, <2>4 DEF DX, DY
    <3> QED BY <1>2, <2>1, <3>1, <3>2, CellsIn
  <2>5. CASE d = "U"
    <3>1. Cell(ny) = cy - 1 /\ nx = x
      BY <1>1, <1>4, <2>5, Leave
    <3>2. <<cx, cy - 1>> \in area /\ (cy - 1) + 1 = cy
      BY <1>1, <2>2, <2>5 DEF DX, DY
    <3> QED BY <1>2, <2>1, <3>1, <3>2, CellsIn
  <2>6. CASE d = "D"
    <3>1. Cell(ny) = cy /\ nx = x
      BY <1>1, <1>4, <2>6, Leave
    <3>2. <<cx, cy + 1>> \in area
      BY <1>1, <2>2, <2>6 DEF DX, DY
    <3> QED BY <1>2, <2>1, <3>1, <3>2, CellsIn
  <2> QED BY <1>4, <2>3, <2>4, <2>5, <2>6 DEF Dir
<1>5. CASE ~Aligned(x)
  <2>1. Aligned(y) /\ d \in {"L", "R"} /\ d \in Dir
    BY <1>5 DEF OnTrack, Dir
  <2>2. /\ ny = y
        /\ ~Aligned(nx) => Cell(nx) = cx
        /\ Aligned(nx) => Cell(nx) \in {cx, cx + 1}
    BY <1>1, <1>5, <2>1, Between
  <2> QED BY <1>1, <1>2, <1>5, <2>1, <2>2, CellsIn
<1>6. CASE ~Aligned(y)
  <2>1. Aligned(x) /\ d \in {"U", "D"} /\ d \in Dir
    BY <1>6 DEF OnTrack, Dir
  <2>2. /\ nx = x
        /\ ~Aligned(ny) => Cell(ny) = cy
        /\ Aligned(ny) => Cell(ny) \in {cy, cy + 1}
    BY <1>1, <1>6, <2>1, Between
  <2> QED BY <1>1, <1>2, <1>6, <2>1, <2>2, CellsIn
<1> QED BY <1>3, <1>4, <1>5, <1>6 DEF Motion, AtIntersection

LEMMA HomeOverDots ==
  ASSUME DotsClosed
  PROVE  /\ PacHome => \A s : CellsOf(pacX, pacY) \subseteq DotStarts(s)
         /\ PacHome' => \A s : CellsOf(pacX', pacY') \subseteq DotStarts(s)
<1>1. /\ PacStart[1] \in Nat /\ PacStart[2] \in Nat /\ PacStart = <<PacStart[1], PacStart[2]>>
  BY PacStartAssumption, BoardAssumption DEF Board
<1>2. /\ Cell(BLOCK * PacStart[1]) = PacStart[1] /\ Aligned(BLOCK * PacStart[1])
      /\ Cell(BLOCK * PacStart[2]) = PacStart[2] /\ Aligned(BLOCK * PacStart[2])
  BY <1>1, CellOrigin
<1>3. CellsOf(BLOCK * PacStart[1], BLOCK * PacStart[2]) = {PacStart}
  BY <1>1, <1>2 DEF CellsOf
<1>4. \A s : PacStart \in DotStarts(s)
  BY DEF DotsClosed, DotStarts, level
<1> QED BY <1>3, <1>4 DEF PacHome

LEMMA OverDotsStep == DotsClosed /\ PacInv /\ PacInv' /\ OverDots /\ [GameNext]_gameVars => OverDots'
<1>1. SUFFICES ASSUME DotsClosed, PacInv, PacInv', OverDots, [GameNext]_gameVars PROVE OverDots'
  OBVIOUS
<1>2. ControlTypeOK /\ PacTypeOK /\ DotsTypeOK
  BY <1>1 DEF PacInv, GameTypeOK
<1>3. CASE PacHome'
  BY <1>1, <1>3, HomeOverDots DEF OverDots
<1>4. ASSUME Registers, PacHolds \/ PacEdge, ~PacHome'
      PROVE  OverDots'
  <2>1. ~resetAll' /\ state' \notin Waiting
    BY <1>1, <1>4, ResetTypes DEF PacHolds, PacEdge, PacInv
  <2>2. state' = state \/ (state \in Waiting /\ PacHome)
    BY <1>1, <1>2, <1>4, <2>1, RegistersStep DEF PacInv
  <2>3. CellsOf(pacX, pacY) \subseteq DotStarts(state')
    BY <1>1, <2>2, HomeOverDots DEF OverDots
  <2>4. CASE UNCHANGED pacVars
    BY <2>3, <2>4 DEF pacVars, OverDots, CellsOf, DotStarts
  <2>5. CASE \E key \in Keys, s \in {state, state'} : PacTick(key, Walls(s))
    <3>1. PICK key \in Keys, s \in {state, state'} : PacTick(key, Walls(s))
      BY <2>5
    <3>2. s = state'
      <4>1. CASE state \in Waiting /\ s = state
        BY <1>1, <1>4, <3>1, <4>1, PacStaysHome DEF PacInv
      <4> QED BY <2>2, <3>1, <4>1
    <3>3. Walls(s) = LevelWalls[level(s)] /\ Closed(Walls(s), DotStarts(s))
      BY <1>1, <2>1, <3>2 DEF Walls, isPre, DotsClosed, DotStarts, level
    <3>4. OnTrack(Walls(s), pacX, pacY, pacDir)
      BY <1>1, <2>2, <3>2, PacHomeOnTrack DEF PacInv, PacOnTrack
    <3> DEFINE free == Turns(Walls(s), Cell(pacX), Cell(pacY))
               d == MotionFinal(key, free)
    <3>5. pacDir \in Motion /\ pacX \in Coord /\ pacY \in Coord /\ d \in Motion
      BY <1>2, MotionFinalType DEF PacTypeOK
    <3>6. pacX' = Move(pacX, DX(d)) /\ pacY' = Move(pacY, DY(d))
      BY <3>1 DEF PacTick
    <3>7. AtIntersection(pacX, pacY) => d = "none" \/ d \in free
      BY DEF MotionFinal, PacAtIntersection
    <3>8. OnTrack(Walls(s), pacX, pacY, d)
      <4>1. AtIntersection(pacX, pacY) \/ d = pacDir \/ (pacDir \in Dir /\ d = Opposite[pacDir])
        BY DEF MotionFinal, PacAtIntersection
      <4> QED BY <3>4, <4>1 DEF OnTrack, AtIntersection, Opposite, Dir
    <3> HIDE DEF d
    <3>9. CellsOf(Move(pacX, DX(d)), Move(pacY, DY(d))) \subseteq DotStarts(s)
      BY <2>3, <3>2, <3>3, <3>5, <3>7, <3>8, StaysInArea
    <3> QED BY <3>2, <3>6, <3>9 DEF OverDots, CellsOf, DotStarts
  <2> QED BY <1>4, <2>1, <2>4, <2>5 DEF PacHolds, PacEdge
<1>5. CASE PushReset
  BY <1>3, <1>5, ResetTypes DEF PushReset
<1>6. CASE UNCHANGED gameVars
  BY <1>1, <1>6 DEF gameVars, pacVars, controlVars, OverDots, CellsOf, DotStarts, level
<1> QED BY <1>1, <1>3, <1>4, <1>5, <1>6
     DEF GameNext, ClkEdge, ClkEdgePac, ClkEdgeGhosts, ClkEdgeBoth

(* Pac-Man never walks where the level has no dot, and so never leaves the *)
(* part of the maze the dots are in, if the tables agree.                  *)
THEOREM PacStaysOverDots == ASSUME DotsClosed PROVE GameSpec => []OverDots
<1>1. GameInit => OverDots
  <2>1. GameInit => PacHome
    BY DEF GameInit, PacInit, PacHome
  <2> QED BY <2>1, HomeOverDots DEF OverDots
<1> QED BY <1>1, PacInvInit, PacInvStep, OverDotsStep, PTL DEF GameSpec
=============================================================================
