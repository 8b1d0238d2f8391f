-------------------------- MODULE ConversationProofs --------------------------
(***************************************************************************)
(* For any number of turns: what every session that carries out            *)
(* Conversation keeps to.                                                  *)
(***************************************************************************)
EXTENDS Conversation, TLAPS

(* A turn that was not accepted yet has no response: so a newer turn finds *)
(* no leftovers of its own.                                                *)
FutureIsEmpty == \A g \in Turns : g > newest => at[g] = "none"

(* DigitsStayLocal is not inductive: the turn that begins a challenge must *)
(* be alone in the router and nobody may queue behind it.                  *)
ConversationInv ==
    ConversationTypeOK /\ FutureIsEmpty /\ OnlyNewestProceeds /\ DigitsStayLocal

(* No turn, no challenge.                                                  *)
LEMMA ConversationInitInv == ConversationInit => ConversationInv
  BY TurnsAssumption
  DEF ConversationInit, ConversationInv, ConversationTypeOK, FutureIsEmpty,
      OnlyNewestProceeds, DigitsStayLocal, Turns, ResponseStages

(* A new turn and a barge-in: what they leave is at most in inference.     *)
LEMMA NewerTurnStep ==
    ASSUME ConversationInv, Accept \/ Interrupt
    PROVE  ConversationInv'
  <1> USE TurnsAssumption DEF ConversationInv, ConversationTypeOK, Turns
  <1>1. CASE Accept
    <2>1. ConversationTypeOK'
      BY <1>1 DEF Accept, ResponseStages
    <2>2. FutureIsEmpty'
      BY <1>1 DEF Accept, FutureIsEmpty
    <2>3. OnlyNewestProceeds'
      BY <1>1 DEF Accept, OnlyNewestProceeds
    <2>4. DigitsStayLocal'
      BY <1>1 DEF Accept, DigitsStayLocal
    <2> QED
      BY <2>1, <2>2, <2>3, <2>4
  <1>2. CASE Interrupt
    <2>1. ConversationTypeOK'
      BY <1>2 DEF Interrupt
    <2>2. FutureIsEmpty'
      BY <1>2 DEF Interrupt, FutureIsEmpty
    <2>3. OnlyNewestProceeds'
      BY <1>2 DEF Interrupt, OnlyNewestProceeds, FutureIsEmpty
    <2>4. DigitsStayLocal'
      BY <1>2 DEF Interrupt, DigitsStayLocal
    <2> QED
      BY <2>1, <2>2, <2>3, <2>4
  <1> QED
    BY <1>1, <1>2

(* The steps of one response: it proceeds alone, enters an empty router,   *)
(* and nobody queues when it begins a challenge.                           *)
LEMMA ResponseStep ==
    ASSUME ConversationInv, NEW g \in Turns,
           \/ Verifies(g) \/ Reprompts(g) \/ Locks(g) \/ Resumes(g)
           \/ Replies(g) \/ Waits(g) \/ Enters(g)
           \/ Answers(g) \/ Challenges(g) \/ Discards(g) \/ Ends(g)
    PROVE  ConversationInv'
  <1> USE TurnsAssumption DEF ConversationInv, ConversationTypeOK
  <1> DEFINE Same == newest' = newest /\ \A h \in Turns \ {g} : at'[h] = at[h]
  <1>1. CASE Verifies(g) \/ Reprompts(g) \/ Locks(g) \/ Replies(g)
    <2>1. /\ Same
          /\ at[g] = "starting" /\ at'[g] \in {"confirming", "replying"}
          /\ at' \in [Turns -> ResponseStages]
      BY <1>1 DEF Verifies, Reprompts, Locks, Replies, Moves, ResponseStages
    <2>2. /\ challenge' \in {"none", "awaiting", "locked"}
          /\ challenge' = "awaiting" => challenge = "awaiting"
      BY <1>1 DEF Verifies, Reprompts, Locks, Replies
    <2> QED
      BY <2>1, <2>2 DEF FutureIsEmpty, OnlyNewestProceeds, DigitsStayLocal
  <1>2. CASE Resumes(g)
    <2>1. /\ Same /\ challenge' = challenge
          /\ at[g] = "confirming" /\ at'[g] = "starting"
          /\ at' \in [Turns -> ResponseStages]
      BY <1>2 DEF Resumes, Moves, ResponseStages
    <2> QED
      BY <2>1 DEF FutureIsEmpty, OnlyNewestProceeds, DigitsStayLocal
  <1>3. CASE Waits(g)
    <2>1. /\ Same /\ challenge' = challenge /\ challenge # "awaiting"
          /\ at[g] = "starting" /\ at'[g] = "waiting"
          /\ at' \in [Turns -> ResponseStages]
      BY <1>3 DEF Waits, Moves, ResponseStages
    <2> QED
      BY <2>1 DEF FutureIsEmpty, OnlyNewestProceeds, DigitsStayLocal
  <1>4. CASE Enters(g)
    <2>1. /\ Same /\ challenge' = challenge
          /\ at[g] = "waiting" /\ at'[g] = "inference"
          /\ \A h \in Turns : at[h] # "inference"
          /\ at' \in [Turns -> ResponseStages]
      BY <1>4 DEF Enters, Moves, ResponseStages
    <2>2. challenge # "awaiting"
      BY <2>1 DEF DigitsStayLocal
    <2> QED
      BY <2>1, <2>2 DEF FutureIsEmpty, OnlyNewestProceeds, DigitsStayLocal
  <1>5. CASE Answers(g) \/ Discards(g) \/ Ends(g)
    <2>1. /\ Same /\ challenge' = challenge
          /\ at[g] # "none" /\ at'[g] \in {"none", "replying"}
          /\ at'[g] = "replying" => g = newest
          /\ at' \in [Turns -> ResponseStages]
      BY <1>5 DEF Answers, Discards, Ends, Moves, ResponseStages
    <2> QED
      BY <2>1 DEF FutureIsEmpty, OnlyNewestProceeds, DigitsStayLocal
  <1>6. CASE Challenges(g)
    <2>1. /\ Same /\ g = newest
          /\ at[g] = "inference" /\ at'[g] = "replying"
          /\ at' \in [Turns -> ResponseStages]
          /\ challenge' \in {"awaiting", "locked"}
      BY <1>6 DEF Challenges, Moves, ResponseStages
    <2>2. \A h \in Turns \ {g} : at[h] = "none"
      BY <2>1 DEF OnlyNewestProceeds
    <2> QED
      BY <2>1, <2>2 DEF FutureIsEmpty, OnlyNewestProceeds, DigitsStayLocal
  <1> QED
    BY <1>1, <1>2, <1>3, <1>4, <1>5, <1>6

(* Every step preserves the invariant.                                     *)
LEMMA ConversationStep ==
    ASSUME ConversationInv, [ConversationNext]_conversationVars
    PROVE  ConversationInv'
  <1>1. CASE Accept \/ Interrupt
    BY <1>1, NewerTurnStep
  <1>2. CASE Closes \/ Restarts
    BY <1>2 DEF Closes, Restarts, ConversationInv, ConversationTypeOK, ResponseStages,
       FutureIsEmpty, OnlyNewestProceeds, DigitsStayLocal
  <1>3. CASE \E g \in Turns :
            \/ Verifies(g) \/ Reprompts(g) \/ Locks(g) \/ Resumes(g)
            \/ Replies(g) \/ Waits(g) \/ Enters(g)
            \/ Answers(g) \/ Challenges(g) \/ Discards(g) \/ Ends(g)
    BY <1>3, ResponseStep
  <1>4. CASE UNCHANGED conversationVars
    BY <1>4 DEF conversationVars, ConversationInv, ConversationTypeOK, FutureIsEmpty,
       OnlyNewestProceeds, DigitsStayLocal
  <1> QED
    BY <1>1, <1>2, <1>3, <1>4 DEF ConversationNext

(* The invariant of every conversation.                                    *)
THEOREM ConversationInvariant == ConversationSpec => []ConversationInv
  BY ConversationInitInv, ConversationStep, PTL DEF ConversationSpec

(* What is said while a code is awaited never gets to the router, however  *)
(* many turns, barge-ins and challenges there are (consume_input in        *)
(* _respond).                                                              *)
THEOREM CodesStayLocal == ConversationSpec => []DigitsStayLocal
  BY ConversationInvariant, PTL DEF ConversationInv

(* Besides the newest turn only one in the router is under way, and the    *)
(* router is never shared (_schedule_response, inference_lock).            *)
THEOREM NewestProceeds == ConversationSpec => []OnlyNewestProceeds
  BY ConversationInvariant, PTL DEF ConversationInv
=============================================================================
