--------------------------- MODULE MCVoiceSession ---------------------------
(* A small instance of a voice session for TLC.                            *)
EXTENDS VoiceSessionClaims, VoiceConversation

MCConfigs == {Normal, Verification}
MCTexts == 1 .. MaxUtterances
=============================================================================
