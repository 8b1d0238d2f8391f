---------------------------- MODULE Conversation ----------------------------
(***************************************************************************)
(* What a voice session promises about its responses, whatever wakes their *)
(* tasks up: which of them may be under way together, when one is dropped, *)
(* who may speak, and who consumes the digits of an identity check.  Turns *)
(* are numbered by generation_id; a confirmed barge-in uses one up.        *)
(***************************************************************************)
EXTENDS Naturals

CONSTANT MaxTurns   \* bound: values of generation_id

ASSUME TurnsAssumption == MaxTurns \in Nat

VARIABLES
    newest,         \* generation_id
    at,             \* where the response task of each turn is
    challenge       \* VerificationState: awaiting_code, locked or neither

conversationVars == <<newest, at, challenge>>

Turns == 1 .. MaxTurns

(* A turn that is confirming says that the identity is verified, and then  *)
(* resumes the request that had asked for it.                              *)
ResponseStages == {"none", "starting", "waiting", "inference", "replying", "confirming"}

ConversationTypeOK ==
    /\ newest \in 0 .. MaxTurns
    /\ at \in [Turns -> ResponseStages]
    /\ challenge \in {"none", "awaiting", "locked"}

ConversationInit ==
    /\ newest = 0
    /\ at = [g \in Turns |-> "none"]
    /\ challenge = "none"

Moves(g, from, to) == at[g] = from /\ at' = [at EXCEPT ![g] = to]

-----------------------------------------------------------------------------
(* Mutation: older turns are left to notice by themselves.                 *)
AcceptCancelsNothing ==
    /\ newest < MaxTurns
    /\ newest' = newest + 1
    /\ at' = [at EXCEPT ![newest + 1] = "starting"]
    /\ UNCHANGED challenge

(* _schedule_response: only what is in inference survives a newer turn.    *)
Accept ==
    /\ newest < MaxTurns
    /\ newest' = newest + 1
    /\ at' = [g \in Turns |-> IF g = newest + 1 THEN "starting"
                              ELSE IF at[g] = "inference" THEN "inference" ELSE "none"]
    /\ UNCHANGED challenge

(* _confirm_barge_in                                                       *)
Interrupt ==
    /\ newest < MaxTurns
    /\ newest' = newest + 1
    /\ UNCHANGED <<at, challenge>>

(* consume_input, while a code is awaited: it matches, it does not, or not *)
(* for the last time.                                                      *)
Verifies(g) ==
    /\ challenge = "awaiting" /\ challenge' = "none"
    /\ Moves(g, "starting", "confirming")
    /\ UNCHANGED newest

Reprompts(g) ==
    /\ challenge = "awaiting"
    /\ Moves(g, "starting", "replying")
    /\ UNCHANGED <<newest, challenge>>

Locks(g) ==
    /\ challenge = "awaiting" /\ challenge' = "locked"
    /\ Moves(g, "starting", "replying")
    /\ UNCHANGED newest

(* Nothing is resumed for a turn that a newer one or a barge-in overtook.  *)
Resumes(g) ==
    /\ g = newest
    /\ Moves(g, "confirming", "starting")
    /\ UNCHANGED <<newest, challenge>>

(* A request is recognised as a duplicate, or goes to the router.          *)
Replies(g) ==
    /\ challenge # "awaiting"
    /\ Moves(g, "starting", "replying")
    /\ UNCHANGED <<newest, challenge>>

Waits(g) ==
    /\ challenge # "awaiting"
    /\ Moves(g, "starting", "waiting")
    /\ UNCHANGED <<newest, challenge>>

(* async with inference_lock                                               *)
Enters(g) ==
    /\ \A h \in Turns : at[h] # "inference"
    /\ Moves(g, "waiting", "inference")
    /\ UNCHANGED <<newest, challenge>>

(* The router's answer: used only when no newer turn or barge-in came.     *)
Answers(g) ==
    /\ g = newest
    /\ Moves(g, "inference", "replying")
    /\ UNCHANGED <<newest, challenge>>

(* Mutation: the code is asked for although the turn is stale.             *)
ChallengesStale(g) ==
    /\ challenge' = IF challenge = "locked" THEN "locked" ELSE "awaiting"
    /\ Moves(g, "inference", "replying")
    /\ UNCHANGED newest

(* begin: a locked session stays locked.                                   *)
Challenges(g) ==
    /\ g = newest
    /\ challenge' = IF challenge = "locked" THEN "locked" ELSE "awaiting"
    /\ Moves(g, "inference", "replying")
    /\ UNCHANGED newest

Discards(g) ==
    /\ g # newest
    /\ Moves(g, "inference", "none")
    /\ UNCHANGED <<newest, challenge>>

(* The response is over: it was said, cancelled, stale, or failed.         *)
Ends(g) ==
    /\ at[g] # "none"
    /\ at' = [at EXCEPT ![g] = "none"]
    /\ UNCHANGED <<newest, challenge>>

(* close_session, and a restart of the process.                            *)
Closes ==
    /\ challenge' = "none"
    /\ UNCHANGED <<newest, at>>

Restarts ==
    /\ challenge' = "none"
    /\ at' = [g \in Turns |-> "none"]
    /\ UNCHANGED newest

-----------------------------------------------------------------------------
ConversationNext ==
    \/ Accept \/ Interrupt \/ Closes \/ Restarts
    \/ \E g \in Turns :
        \/ Verifies(g) \/ Reprompts(g) \/ Locks(g) \/ Resumes(g)
        \/ Replies(g) \/ Waits(g) \/ Enters(g)
        \/ Answers(g) \/ Challenges(g) \/ Discards(g) \/ Ends(g)

ConversationSpec == ConversationInit /\ [][ConversationNext]_conversationVars

-----------------------------------------------------------------------------
(* What the newest turn has left of the others: only one that is still in  *)
(* the router, and there is one at a time (_schedule_response and the      *)
(* inference lock).                                                        *)
OnlyNewestProceeds ==
    /\ newest \in Turns /\ at[newest] # "none" =>
        \A g \in Turns \ {newest} : at[g] \in {"none", "inference"}
    /\ \A g, h \in Turns : at[g] = "inference" /\ at[h] = "inference" => g = h

(* While a code is awaited no turn is in the router or on its way there:   *)
(* the reply is handled locally and never sent to the model (the comment   *)
(* before consume_input in _respond), also when the challenge came out of  *)
(* a turn that others had been queueing behind.                            *)
DigitsStayLocal ==
    challenge = "awaiting" => \A g \in Turns : at[g] \notin {"waiting", "inference"}
=============================================================================
