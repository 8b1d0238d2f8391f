-------------------------- MODULE VoiceConversation --------------------------
(***************************************************************************)
(* The voice session carries out the abstract conversation.                *)
(***************************************************************************)
EXTENDS VoiceSession

Stage(g) ==
    IF at[g] \in {"localizing", "sending", "speaking", "draining"}
    THEN IF via[g] = "verified" THEN "confirming" ELSE "replying"
    ELSE at[g]

Conv == INSTANCE Conversation WITH
    MaxTurns <- 3 * MaxUtterances + MaxTyped,
    newest <- generation,
    at <- [g \in Gens |-> Stage(g)]

(* Whatever barge-ins, timers, typed queries and restarts interleave, the  *)
(* response tasks of _respond move as Conversation lets them: a newer turn *)
(* leaves the one in inference alone and ends all others, only the newest  *)
(* turn answers, asks for a code or resumes a request, and a reply to a    *)
(* challenge never gets to the router.                                     *)
ImplementsConversation == Conv!ConversationSpec
=============================================================================
