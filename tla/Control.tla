------------------------------- MODULE Control -------------------------------
(***************************************************************************)
(* control.sv: the state machine of the game and the registered resetAll,  *)
(* clocked by the 50 MHz Clk.  Its outputs level and isPre select the      *)
(* walls (get_walls.sv) and the dots (getDotStarts.sv).                    *)
(***************************************************************************)
VARIABLES state, resetAll

controlVars == <<state, resetAll>>

Waiting == {"NEWGAME", "BEAT1", "BEAT2"}   \* isPre
Playing == {"LEVEL1", "LEVEL2"}
States == Waiting \cup Playing

ControlTypeOK ==
  /\ state \in States
  /\ resetAll \in BOOLEAN

level(s) == IF s \in {"LEVEL2", "BEAT1"} THEN 2 ELSE 1
isPre(s) == s \in Waiting

ControlInit ==
  /\ state = "NEWGAME"
  /\ resetAll = TRUE

(* The asynchronous reset of the registers.                                *)
ControlReset ==
  /\ state' = "NEWGAME"
  /\ resetAll' = TRUE

AfterEnter == [NEWGAME |-> "LEVEL1", BEAT1 |-> "LEVEL2", BEAT2 |-> "LEVEL1"]
AfterClear == [LEVEL1 |-> "BEAT1", LEVEL2 |-> "BEAT2"]

(* Mutant: a cleared level does not raise resetAll.                        *)
ControlEdgeNoReset(pacManDied, anyDotsLeft) ==
  IF pacManDied
  THEN state' = "NEWGAME" /\ resetAll' = TRUE
  ELSE /\ resetAll' = FALSE
       /\ state' \in IF state \in Waiting THEN {state, AfterEnter[state]}
                     ELSE {IF anyDotsLeft THEN state ELSE AfterClear[state]}

(* One rising edge of Clk.                                                 *)
Die ==
  /\ state' = "NEWGAME"
  /\ resetAll' = TRUE

Wait(enter) ==
  /\ state \in Waiting
  /\ state' = IF enter THEN AfterEnter[state] ELSE state
  /\ resetAll' = FALSE

Play(anyDotsLeft) ==
  /\ state \in Playing
  /\ state' = IF anyDotsLeft THEN state ELSE AfterClear[state]
  /\ resetAll' = ~anyDotsLeft

(* Whether keycode is Enter is up to the player.                           *)
ControlEdge(pacManDied, anyDotsLeft) ==
  \/ pacManDied /\ Die
  \/ ~pacManDied /\ ((\E enter \in BOOLEAN : Wait(enter)) \/ Play(anyDotsLeft))
=============================================================================
