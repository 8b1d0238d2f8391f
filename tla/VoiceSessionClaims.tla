------------------------- MODULE VoiceSessionClaims -------------------------
(***************************************************************************)
(* What the repository's documents and comments say of a voice session and *)
(* its code does not do.                                                   *)
(***************************************************************************)
EXTENDS VoiceSession

(* docs/PRD.md, FR4: late results are ignored after a turn has been        *)
(* accepted.  _on_turn_finalized closes the turn, but the next utterance   *)
(* opens a turn that takes the late final result of the last one.          *)
OneTurnPerUtterance == Transcript \cap answered = {}
=============================================================================
