-------------------------------- MODULE MCGame --------------------------------
(***************************************************************************)
(* A small board for Game: three by three cells, the pen the last two of   *)
(* the bottom row.                                                         *)
(*                                                                         *)
(*     level 1        level 2        waiting                               *)
(*     +-+-+-+        +-+-+-+        +-+-+-+                               *)
(*     |P|   |        |P    |        |P|   |                               *)
(*     + + + +        + +-+ +        +-+ + +                               *)
(*     |     |        |     |        |     |                               *)
(*     + +-+-+        + +-+-+        + +-+-+                               *)
(*     | |G|G|        | |G|G|        | |G G|                               *)
(*     +-+-+-+        +-+-+-+        +-+-+-+                               *)
(***************************************************************************)
EXTENDS GameProperties

MCPacStart == <<1, 1>>
MCGhostStart == <<2, 3>>
MCPen == {<<2, 3>>, <<3, 3>>}

OuterWalls ==
  ({"v"} \X (0 .. N - 1) \X {0, N}) \cup ({"h"} \X {0, N} \X (0 .. N - 1))

Cellar == {<<"v", 2, 1>>, <<"v", 2, 2>>, <<"h", 2, 1>>, <<"h", 2, 2>>}

MCLevelWalls ==
  <<OuterWalls \cup Cellar \cup {<<"v", 0, 1>>},
    OuterWalls \cup Cellar \cup {<<"h", 1, 1>>}>>

MCPreWalls ==
  OuterWalls \cup {<<"v", 0, 1>>, <<"h", 1, 0>>, <<"v", 2, 1>>, <<"h", 2, 1>>, <<"h", 2, 2>>}

MCLevelDots == <<{<<2, 2>>, <<1, 3>>}, {<<1, 1>>, <<1, 2>>}>>
=============================================================================
