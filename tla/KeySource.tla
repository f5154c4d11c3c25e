------------------------------- MODULE KeySource -------------------------------
(***************************************************************************)
(* What the game may rely on about its keycode input: it shows the latest  *)
(* report of the keyboard, late or not at all, or a word that means        *)
(* nothing to it.  It never shows a command the player has not given, and  *)
(* never goes back from a command to one given earlier.                    *)
(***************************************************************************)
EXTENDS Naturals

CONSTANTS
  Keys,       \* what a keyboard may report
  GameKeys    \* the keycodes the game acts upon

VARIABLES
  pressed,  \* the key the player holds
  shown,    \* the keycode PIO
  latest    \* the word it will show next

sourceVars == <<pressed, shown, latest>>

Harmless(w) == w \in Nat /\ w % 256 \notin GameKeys

SourceInit == pressed \in Keys /\ Harmless(shown) /\ Harmless(latest)

PressKey == pressed' \in Keys /\ UNCHANGED <<shown, latest>>
ReportKey == latest' = pressed /\ UNCHANGED <<pressed, shown>>
Forget == Harmless(latest') /\ UNCHANGED <<pressed, shown>>
Show == shown' = latest % 256 /\ UNCHANGED <<pressed, latest>>

SourceSpec == SourceInit /\ [][PressKey \/ ReportKey \/ Forget \/ Show]_sourceVars
=============================================================================
