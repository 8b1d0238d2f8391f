---------------------------- MODULE MCTurnTaking ----------------------------
(* A small instance of the turn manager for TLC.                           *)
EXTENDS TurnTaking

(* What the configurations differ in, and texts of one turn and the next.  *)
MCConfigs == {"normal", "verification"}
MCTexts == {"hello", "balance"}
=============================================================================
