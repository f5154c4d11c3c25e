-------------------------------- MODULE MCTimed --------------------------------
(***************************************************************************)
(* A board of two by two cells, the pen its lower row, under dividers of   *)
(* half periods 3 and 5, the least of the kind of the code's 200001 and    *)
(* 262001 (SameKind of MCClocks).                                          *)
(*                                                                         *)
(*     level       waiting                                                 *)
(*     +-+-+       +-+-+                                                   *)
(*     |P  |       |P| |                                                   *)
(*     +-+-+       +-+-+                                                   *)
(*     |G|G|       |G G|                                                   *)
(*     +-+-+       +-+-+                                                   *)
(***************************************************************************)
EXTENDS TimedGame

MCPacStart == <<1, 1>>
MCGhostStart == <<2, 2>>
MCPen == {<<1, 2>>, <<2, 2>>}

OuterWalls ==
  ({"v"} \X (0 .. N - 1) \X {0, N}) \cup ({"h"} \X {0, N} \X (0 .. N - 1))

PenRoof == {<<"h", 1, 0>>, <<"h", 1, 1>>}

MCLevelWalls ==
  LET walls == OuterWalls \cup PenRoof \cup {<<"v", 1, 1>>} IN <<walls, walls>>

MCPreWalls == OuterWalls \cup PenRoof \cup {<<"v", 0, 1>>}

MCLevelDots == <<{<<1, 1>>, <<2, 1>>}, {<<2, 1>>}>>
=============================================================================
