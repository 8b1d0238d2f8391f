-------------------------- MODULE VoiceSessionProofs --------------------------
(***************************************************************************)
(* Proofs about the voice session for any number of utterances, typed      *)
(* queries and exits.                                                      *)
(***************************************************************************)
EXTENDS VoiceConversation, TLAPS, FiniteSetTheorems

(* While the session is not being closed: before the silence is over the   *)
(* endpoint timer is alive, afterwards a settle timer that expects exactly *)
(* what is there.                                                          *)
Armed ==
    session \notin {"closing", "gone"} /\ state = "ENDPOINTING" =>
        IF silenceDone THEN settle = Awaited ELSE endpoint # NoTimer

EndingIsSilent == state = "ENDPOINTING" => ~speechActive

TurnInv ==
    TurnTypeOK /\ TimersAreCurrent /\ Armed /\ EndingIsSilent /\ WindowInForce

(* What an utterance may still cost in generations: a barge-in that is not *)
(* confirmed yet costs its own, that of the turn it opens and that of a    *)
(* turn left open before it.                                               *)
TurnDue == IF userTurnOpen \/ speechActive \/ state = "ENDPOINTING" THEN 1 ELSE 0

CandidateDue == IF candidate.active THEN 3 ELSE 0

ConfirmDue ==
    IF confirm.at = "clearing" THEN 2 ELSE IF confirm.at = "announcing" THEN 1 ELSE 0

WithinBudget ==
    generation + TurnDue + CandidateDue + ConfirmDue <= 3 * utterance + typed

ConfirmHasWords == confirm.at # "none" => confirm.text \in Texts

(* A generation that was not given out yet has no response.                *)
FutureIsEmpty == \A g \in Gens : g > generation => at[g] = "none"

(* Next to a response that is not in inference only older ones are left,   *)
(* and these are in inference.                                             *)
OthersAreStale ==
    \A g, h \in Gens :
        at[g] \notin {"none", "inference"} /\ h # g /\ at[h] # "none" =>
            at[h] = "inference" /\ h < g

OneInInference ==
    \A g, h \in Gens : at[g] = "inference" /\ at[h] = "inference" => g = h

(* _current_task is the newest response, and session_phase tells whether   *)
(* it is in inference: what _confirm_barge_in relies on.                   *)
CurrentIsKnown ==
    current # 0 =>
        /\ current <= generation
        /\ \A h \in Gens : h > current => at[h] = "none"
        /\ at[current] = "inference" => phase = "inference"

VerifiedIsReplying ==
    \A g \in Gens :
        via[g] = "verified" => at[g] \in {"localizing", "sending", "speaking", "draining"}

TasksInv ==
    FutureIsEmpty /\ OthersAreStale /\ OneInInference /\ CurrentIsKnown /\ VerifiedIsReplying

LongWindow == challenge = "awaiting" => config = Verification

InterruptedIsOld == interrupted = 0 \/ interrupted < generation

IInv ==
    /\ TypeOK /\ TurnInv
    /\ WithinBudget /\ ConfirmHasWords
    /\ TasksInv
    /\ InterruptedIsOld /\ InterruptedIsSilent /\ LongWindow

-----------------------------------------------------------------------------
(* What a settle timer is started with.                                    *)
LEMMA AwaitedType ==
    ASSUME turnId \in Nat, version \in Nat
    PROVE  /\ Awaited \in Expectation
           /\ Awaited # NoTimer
           /\ Awaited.turn = turnId /\ Awaited.version = version
  BY SessionAssumption DEF Awaited, Expectation

(* What a session lets the turn manager do in one step.                    *)
Feeds == \E u \in Texts, final \in BOOLEAN : Feed(u, final)

TurnMove ==
    \/ UNCHANGED turnVars
    \/ OnSpeechStart
    \/ OnSpeechEnd
    \/ \E c \in Configs : SetConfig(c)
    \/ Feeds /\ UNCHANGED <<turnId, config, state, speechActive, silenceDone, endpoint>>
    \/ Feeds /\ SpeechEnds /\ UNCHANGED <<turnId, config>>
    \/ EndpointAfterSilence
    \/ SettleGivesUp
    \/ ResetForNextTurn
    \/ Shutdown /\ session' = "closing"

(* The words of a transcript change what a settle timer is to expect.      *)
LEMMA FeedStep ==
    ASSUME TurnInv, Feeds, UNCHANGED turnId
    PROVE  /\ finals' \subseteq Texts
           /\ partial' \in Texts \cup {NoText}
           /\ version' \in Nat /\ version <= version'
           /\ settle' = IF AfterSilence THEN Awaited' ELSE settle
           /\ Awaited' \in Expectation /\ Awaited' # NoTimer
           /\ Awaited'.turn = turnId /\ Awaited'.version = version'
  <1> USE DEF TurnInv, TurnTypeOK
  <1> PICK u \in Texts, final \in BOOLEAN : Feed(u, final)
    BY DEF Feeds
  <1>1. version' \in Nat /\ version <= version' /\ turnId' \in Nat
    BY DEF Feed, FinalArrives, PartialArrives
  <1>2. Awaited' \in Expectation /\ Awaited' # NoTimer
        /\ Awaited'.turn = turnId /\ Awaited'.version = version'
    BY <1>1, SessionAssumption DEF Awaited, Expectation
  <1>3. settle' = IF AfterSilence THEN Awaited' ELSE settle
    BY DEF Feed, FinalArrives, PartialArrives, Awaited
  <1>4. finals' \subseteq Texts /\ partial' \in Texts \cup {NoText}
    BY DEF Feed, FinalArrives, PartialArrives
  <1> QED
    BY <1>1, <1>2, <1>3, <1>4

(* Every such step keeps an ending turn armed and its timers current.      *)
LEMMA TurnStep ==
    ASSUME TurnInv, TurnMove,
           session \in {"closing", "gone"} => session' \in {"closing", "gone"}
    PROVE  TurnInv'
  <1> USE TurnAssumption, SessionAssumption, AwaitedType
    DEF TurnInv, TurnTypeOK, TimersAreCurrent, Armed, EndingIsSilent, WindowInForce
  <1>1. CASE UNCHANGED turnVars
    BY <1>1 DEF turnVars, Awaited
  <1>2. CASE OnSpeechStart
    BY <1>2 DEF OnSpeechStart
  <1>3. CASE OnSpeechEnd
    BY <1>3 DEF OnSpeechEnd, SpeechEnds
  <1>4. ASSUME NEW c \in Configs, SetConfig(c) PROVE TurnInv'
    <2>1. Awaited' = Awaited
      BY <1>4 DEF SetConfig, Awaited
    <2> QED
      BY <1>4, <2>1 DEF SetConfig
  <1>5. CASE Feeds /\ UNCHANGED <<turnId, config, state, speechActive, silenceDone, endpoint>>
    <2>1. /\ finals' \subseteq Texts /\ partial' \in Texts \cup {NoText}
          /\ version' \in Nat /\ version <= version'
          /\ settle' = IF AfterSilence THEN Awaited' ELSE settle
          /\ Awaited' \in Expectation /\ Awaited' # NoTimer
          /\ Awaited'.turn = turnId /\ Awaited'.version = version'
      BY <1>5, FeedStep
    <2>2. TurnTypeOK'
      BY <1>5, <2>1
    <2>3. settle # NoTimer => settle.version \in Nat
      BY DEF Expectation
    <2>4. TimersAreCurrent'
      BY <1>5, <2>1, <2>3 DEF AfterSilence
    <2>5. Armed' /\ EndingIsSilent' /\ WindowInForce'
      BY <1>5, <2>1 DEF AfterSilence
    <2> QED
      BY <2>2, <2>4, <2>5
  <1>6. CASE Feeds /\ SpeechEnds /\ UNCHANGED <<turnId, config>>
    <2>1. /\ finals' \subseteq Texts /\ partial' \in Texts \cup {NoText}
          /\ version' \in Nat /\ version <= version'
          /\ settle' = IF AfterSilence THEN Awaited' ELSE settle
          /\ Awaited' \in Expectation /\ Awaited' # NoTimer
          /\ Awaited'.turn = turnId /\ Awaited'.version = version'
      BY <1>6, FeedStep
    <2>2. TurnTypeOK'
      BY <1>6, <2>1 DEF SpeechEnds
    <2>3. settle # NoTimer => settle.version \in Nat
      BY DEF Expectation
    <2>4. TimersAreCurrent'
      BY <1>6, <2>1, <2>3 DEF SpeechEnds, AfterSilence
    <2>5. Armed' /\ EndingIsSilent' /\ WindowInForce'
      BY <1>6, <2>1 DEF SpeechEnds
    <2> QED
      BY <2>2, <2>4, <2>5
  <1>7. CASE EndpointAfterSilence
    <2>1. Awaited' = Awaited
      BY <1>7 DEF EndpointAfterSilence, Awaited
    <2> QED
      BY <1>7, <2>1 DEF EndpointAfterSilence
  <1>8. CASE SettleGivesUp
    <2>1. Awaited' = Awaited
      BY <1>8 DEF SettleGivesUp, Awaited
    <2>2. settle # Awaited
      BY <1>8 DEF SettleGivesUp, SettledAsExpected
    <2> QED
      BY <1>8, <2>1, <2>2 DEF SettleGivesUp
  <1>9. CASE ResetForNextTurn
    <2>1. turnId' \in Nat
      BY <1>9 DEF ResetForNextTurn
    <2> QED
      BY <1>9, <2>1 DEF ResetForNextTurn
  <1>10. CASE Shutdown /\ session' = "closing"
    BY <1>10 DEF Shutdown
  <1> QED
    BY <1>1, <1>2, <1>3, <1>4, <1>5, <1>6, <1>7, <1>8, <1>9, <1>10 DEF TurnMove

-----------------------------------------------------------------------------
(* The response tasks.                                                     *)
Active == {"starting", "waiting", "localizing", "sending", "speaking", "draining"}

Phases == {"idle", "inference", "localizing", "tts"}

TaskTypeOK ==
    /\ generation \in Gens \cup {0} /\ current \in Gens \cup {0}
    /\ phase \in Phases
    /\ at \in [Gens -> Stages] /\ via \in [Gens -> Paths]
    /\ challenge \in {"none", "awaiting", "locked"}

(* Generations are positive numbers.                                     *)
LEMMA GensAreNumbers == Gens \subseteq Nat /\ 0 \notin Gens
  BY SessionAssumption DEF Gens

(* While a response is localized, spoken or waiting, the newest response   *)
(* is not in inference.                                                    *)
LEMMA ActiveIsCurrent ==
    ASSUME TaskTypeOK, TasksInv, NEW g \in Gens, at[g] \in Active
    PROVE  current # 0 => at[current] # "inference"
  <1> SUFFICES ASSUME current \in Gens, at[current] = "inference" PROVE FALSE
    BY DEF TaskTypeOK
  <1>1. g # current /\ at[g] \notin {"none", "inference"}
    BY DEF Active
  <1>2. current < g
    BY <1>1 DEF TasksInv, OthersAreStale
  <1>3. at[g] = "none"
    BY <1>2, GensAreNumbers DEF TasksInv, CurrentIsKnown
  <1> QED
    BY <1>1, <1>3

(* A new response finds only older ones, and leaves those in inference.    *)
LEMMA SchedulesStep ==
    ASSUME TaskTypeOK, TasksInv, ScheduleResponse, generation + 1 \in Gens
    PROVE  /\ TaskTypeOK' /\ TasksInv'
           /\ generation' = generation + 1 /\ challenge' = challenge
  <1> DEFINE new == generation + 1
  <1>1. /\ generation' = new /\ current' = new
        /\ phase' = phase /\ challenge' = challenge
        /\ via' = [g \in Gens |-> "answer"]
        /\ \A g \in Gens : at'[g] = IF g = new THEN "starting"
                                  ELSE IF at[g] = "inference" THEN "inference" ELSE "none"
    BY DEF ScheduleResponse
  <1>2. at' \in [Gens -> Stages]
    BY DEF ScheduleResponse, TaskTypeOK, Stages
  <1>3. TaskTypeOK'
    BY <1>1, <1>2 DEF TaskTypeOK, Paths
  <1>4. \A g \in Gens : at[g] # "none" => g < new
    BY GensAreNumbers DEF TaskTypeOK, TasksInv, FutureIsEmpty
  <1>5. FutureIsEmpty'
    BY <1>1, <1>4, GensAreNumbers DEF FutureIsEmpty, TaskTypeOK
  <1>6. OthersAreStale'
    BY <1>1, <1>4 DEF OthersAreStale
  <1>7. OneInInference'
    BY <1>1 DEF TasksInv, OneInInference
  <1>8. CurrentIsKnown'
    BY <1>1, <1>4, GensAreNumbers DEF CurrentIsKnown, TaskTypeOK
  <1>9. VerifiedIsReplying'
    BY <1>1 DEF VerifiedIsReplying
  <1> QED
    BY <1>1, <1>3, <1>5, <1>6, <1>7, <1>8, <1>9 DEF TasksInv

(* A barge-in takes a generation away from the responses there are.        *)
LEMMA InterruptsStep ==
    ASSUME TaskTypeOK, TasksInv, generation + 1 \in Gens, generation' = generation + 1,
           UNCHANGED <<current, phase, at, via, challenge>>
    PROVE  TaskTypeOK' /\ TasksInv'
  <1>1. TaskTypeOK'
    BY DEF TaskTypeOK
  <1>2. FutureIsEmpty' /\ CurrentIsKnown'
    BY GensAreNumbers DEF TaskTypeOK, TasksInv, FutureIsEmpty, CurrentIsKnown
  <1>3. OthersAreStale' /\ OneInInference' /\ VerifiedIsReplying'
    BY DEF TasksInv, OthersAreStale, OneInInference, VerifiedIsReplying
  <1> QED
    BY <1>1, <1>2, <1>3 DEF TasksInv

(* ... and cancels the newest of them, or none.                            *)
LEMMA CancelsStep ==
    ASSUME TaskTypeOK, TasksInv, NEW S, Cancel(S),
           current' = 0, phase' = "idle", UNCHANGED <<generation, challenge>>
    PROVE  TaskTypeOK' /\ TasksInv'
  <1>1. /\ \A g \in Gens : at'[g] = IF g \in S THEN "none" ELSE at[g]
        /\ \A g \in Gens : via'[g] = IF g \in S THEN "answer" ELSE via[g]
        /\ at' \in [Gens -> Stages] /\ via' \in [Gens -> Paths]
    BY DEF Cancel, TaskTypeOK, Stages, Paths
  <1>2. TaskTypeOK'
    BY <1>1 DEF TaskTypeOK, Phases
  <1>3. FutureIsEmpty' /\ CurrentIsKnown'
    BY <1>1 DEF TasksInv, FutureIsEmpty, CurrentIsKnown
  <1>4. OthersAreStale' /\ OneInInference'
    BY <1>1 DEF TasksInv, OthersAreStale, OneInInference
  <1>5. VerifiedIsReplying'
    BY <1>1 DEF TasksInv, VerifiedIsReplying
  <1> QED
    BY <1>2, <1>3, <1>4, <1>5 DEF TasksInv

(* A response that stays outside inference.                                *)
LEMMA ProceedsStep ==
    ASSUME TaskTypeOK, TasksInv, NEW g \in Gens, NEW s \in Active,
           at[g] \in Active, Goes(g, s),
           phase' \in Phases, challenge' \in {"none", "awaiting", "locked"},
           via' \in [Gens -> Paths],
           \A h \in Gens \ {g} : via'[h] = via[h],
           via'[g] = "verified" => s \in {"localizing", "sending", "speaking", "draining"},
           UNCHANGED <<generation, current>>
    PROVE  TaskTypeOK' /\ TasksInv'
  <1>1. /\ at' \in [Gens -> Stages] /\ at'[g] = s
        /\ \A h \in Gens \ {g} : at'[h] = at[h]
    BY DEF Goes, TaskTypeOK, Stages, Active
  <1>2. /\ at[g] \notin {"none", "inference"} /\ s \notin {"none", "inference"}
    BY DEF Active
  <1>3. TaskTypeOK'
    BY <1>1 DEF TaskTypeOK
  <1>4. FutureIsEmpty'
    BY <1>1, <1>2 DEF TasksInv, FutureIsEmpty
  <1>5. OthersAreStale' /\ OneInInference'
    BY <1>1, <1>2 DEF TasksInv, OthersAreStale, OneInInference
  <1>6. CurrentIsKnown'
    <2>1. current' # 0 => at'[current'] # "inference"
      BY <1>1, <1>2, ActiveIsCurrent DEF TaskTypeOK
    <2>2. current' # 0 => \A h \in Gens : h > current' => at'[h] = "none"
      BY <1>1, <1>2 DEF TasksInv, CurrentIsKnown
    <2> QED
      BY <2>1, <2>2 DEF TasksInv, CurrentIsKnown
  <1>7. VerifiedIsReplying'
    BY <1>1 DEF TasksInv, VerifiedIsReplying
  <1> QED
    BY <1>3, <1>4, <1>5, <1>6, <1>7 DEF TasksInv

(* A response that ends.                                                   *)
LEMMA EndsStep ==
    ASSUME TaskTypeOK, TasksInv, NEW g \in Gens, NEW ph \in Phases,
           at[g] # "none", Ends(g, ph), ph = phase \/ at[g] = "inference"
    PROVE  TaskTypeOK' /\ TasksInv'
  <1>1. /\ at' \in [Gens -> Stages] /\ at'[g] = "none"
        /\ \A h \in Gens \ {g} : at'[h] = at[h]
        /\ via' \in [Gens -> Paths] /\ via'[g] = "answer"
        /\ \A h \in Gens \ {g} : via'[h] = via[h]
        /\ phase' = IF g = generation THEN "idle" ELSE ph
        /\ current' = IF current = g THEN 0 ELSE current
        /\ UNCHANGED <<generation, challenge>>
    BY DEF Ends, Goes, TaskTypeOK, Stages, Paths
  <1>2. TaskTypeOK'
    BY <1>1, GensAreNumbers DEF TaskTypeOK, Phases
  <1>3. FutureIsEmpty'
    BY <1>1 DEF TasksInv, FutureIsEmpty
  <1>4. OthersAreStale' /\ OneInInference'
    BY <1>1 DEF TasksInv, OthersAreStale, OneInInference
  <1>5. CurrentIsKnown'
    <2> SUFFICES ASSUME current' # 0 PROVE CurrentIsKnown'
      BY DEF CurrentIsKnown
    <2>1. current' = current /\ current # g /\ current \in Gens /\ at'[current] = at[current]
      BY <1>1 DEF TaskTypeOK
    <2>2. at[current] = "inference" => g # generation
      BY <2>1, GensAreNumbers DEF TasksInv, CurrentIsKnown, TaskTypeOK
    <2>3. at[current] = "inference" => at[g] # "inference"
      BY <2>1 DEF TasksInv, OneInInference
    <2> QED
      BY <1>1, <2>1, <2>2, <2>3 DEF TasksInv, CurrentIsKnown
  <1>6. VerifiedIsReplying'
    BY <1>1 DEF TasksInv, VerifiedIsReplying
  <1> QED
    BY <1>2, <1>3, <1>4, <1>5, <1>6 DEF TasksInv

(* A response that gets the lock finds itself alone.                       *)
LEMMA EntersStep ==
    ASSUME TaskTypeOK, TasksInv, NEW g \in Gens, EntersInference(g)
    PROVE  TaskTypeOK' /\ TasksInv'
  <1>1. /\ at[g] = "waiting" /\ at'[g] = "inference"
        /\ at' \in [Gens -> Stages]
        /\ \A h \in Gens \ {g} : at'[h] = at[h]
        /\ \A h \in Gens : at[h] # "inference"
        /\ phase' = "inference" /\ UNCHANGED <<generation, current, via, challenge>>
    BY DEF EntersInference, Goes, TaskTypeOK, Stages
  <1>2. \A h \in Gens \ {g} : at'[h] = "none"
    BY <1>1 DEF TasksInv, OthersAreStale
  <1>3. TaskTypeOK'
    BY <1>1 DEF TaskTypeOK, Phases
  <1>4. FutureIsEmpty'
    BY <1>1, <1>2 DEF TasksInv, FutureIsEmpty
  <1>5. OthersAreStale' /\ OneInInference'
    BY <1>1, <1>2 DEF OthersAreStale, OneInInference
  <1>6. CurrentIsKnown'
    BY <1>1, <1>2 DEF TasksInv, CurrentIsKnown
  <1>7. VerifiedIsReplying'
    BY <1>1 DEF TasksInv, VerifiedIsReplying
  <1> QED
    BY <1>3, <1>4, <1>5, <1>6, <1>7 DEF TasksInv

(* A result that is still waited for finds its response alone.             *)
LEMMA AnswersStep ==
    ASSUME TaskTypeOK, TasksInv, NEW g \in Gens, LeavesInference(g), g = generation
    PROVE  TaskTypeOK' /\ TasksInv'
  <1>1. /\ at[g] = "inference" /\ at'[g] = "localizing"
        /\ at' \in [Gens -> Stages]
        /\ \A h \in Gens \ {g} : at'[h] = at[h]
        /\ phase' = "localizing" /\ UNCHANGED <<generation, current>>
    BY DEF LeavesInference, Goes, TaskTypeOK, Stages
  <1>2. /\ via' \in [Gens -> Paths] /\ challenge' \in {"none", "awaiting", "locked"}
        /\ \A h \in Gens \ {g} : via'[h] = via[h]
    BY DEF LeavesInference, Challenges, TaskTypeOK, Paths
  <1>3. \A h \in Gens \ {g} : at[h] = "none"
    <2> SUFFICES ASSUME NEW h \in Gens \ {g}, at[h] # "none" PROVE FALSE
      OBVIOUS
    <2>1. at[h] # "inference"
      BY <1>1 DEF TasksInv, OneInInference
    <2>2. g < h
      BY <1>1, <2>1 DEF TasksInv, OthersAreStale
    <2> QED
      BY <2>2, GensAreNumbers DEF TasksInv, FutureIsEmpty
  <1>4. TaskTypeOK'
    BY <1>1, <1>2 DEF TaskTypeOK, Phases
  <1>5. FutureIsEmpty'
    BY <1>1, <1>3 DEF TasksInv, FutureIsEmpty
  <1>6. OthersAreStale' /\ OneInInference'
    BY <1>1, <1>3 DEF OthersAreStale, OneInInference
  <1>7. CurrentIsKnown'
    BY <1>1, <1>3 DEF TasksInv, CurrentIsKnown, TaskTypeOK
  <1>8. VerifiedIsReplying'
    BY <1>1, <1>2 DEF TasksInv, VerifiedIsReplying
  <1> QED
    BY <1>4, <1>5, <1>6, <1>7, <1>8 DEF TasksInv

-----------------------------------------------------------------------------
(* The invariant in the parts that the steps below preserve.               *)
InputTypeOK ==
    /\ session \in {"off", "on", "stopping", "hangup", "closing", "gone"}
    /\ speaking \in BOOLEAN /\ userTurnOpen \in BOOLEAN /\ expiry \in BOOLEAN
    /\ utterance \in 0 .. MaxUtterances
    /\ unheard \in 1 .. MaxUtterances + 1
    /\ candidate \in [active : BOOLEAN, ended : BOOLEAN]
    /\ confirm \in [at : {"none", "clearing", "announcing"}, text : Texts \cup {NoText},
                    final : BOOLEAN, ended : BOOLEAN]
    /\ playing \in Gens \cup {0} /\ interrupted \in Gens \cup {0}
    /\ typed \in 0 .. MaxTyped /\ exits \in 0 .. MaxExits
    /\ answered \subseteq Texts

TurnPart == TurnInv /\ LongWindow

TaskPart == TaskTypeOK /\ TasksInv

BudgetPart == InputTypeOK /\ WithinBudget /\ ConfirmHasWords

AudioPart == InterruptedIsOld /\ InterruptedIsSilent

(* The parts make up the invariant, before a step and after it.          *)
LEMMA Parts == IInv <=> TurnPart /\ TaskPart /\ BudgetPart /\ AudioPart
  BY DEF IInv, TypeOK, TurnPart, TaskPart, BudgetPart, AudioPart, TurnInv, TaskTypeOK,
         InputTypeOK, Phases

LEMMA PartsNext == IInv' <=> TurnPart' /\ TaskPart' /\ BudgetPart' /\ AudioPart'
  BY DEF IInv, TypeOK, TurnPart, TaskPart, BudgetPart, AudioPart, TurnInv, TaskTypeOK,
         InputTypeOK, Phases

(* What the budget counts.                                               *)
LEMMA Numbers ==
    ASSUME InputTypeOK, TaskTypeOK
    PROVE  generation \in Nat /\ utterance \in Nat /\ typed \in Nat
  BY GensAreNumbers, SessionAssumption DEF InputTypeOK, TaskTypeOK

(* A step that takes no generation and owes no more than before.           *)
LEMMA BudgetKept ==
    ASSUME InputTypeOK, TaskTypeOK, WithinBudget,
           UNCHANGED <<generation, utterance, typed>>,
           TurnDue' + CandidateDue' + ConfirmDue' <= TurnDue + CandidateDue + ConfirmDue
    PROVE  WithinBudget'
  <1>1. generation \in Nat /\ utterance \in Nat /\ typed \in Nat
    BY Numbers
  <1>2. 3 * utterance + typed \in Nat
    BY <1>1
  <1> QED
    BY <1>1, <1>2 DEF WithinBudget, TurnDue, CandidateDue, ConfirmDue

(* What a step that moves no response, and plays no audio, leaves alone.   *)
LEMMA TasksKept ==
    ASSUME TaskPart, AudioPart, UNCHANGED <<taskVars, interrupted>>,
           playing' = playing \/ playing' = 0
    PROVE  TaskPart' /\ AudioPart'
  <1>1. TaskPart'
    BY DEF TaskPart, taskVars, TaskTypeOK, TasksInv, FutureIsEmpty, OthersAreStale,
           OneInInference, CurrentIsKnown, VerifiedIsReplying
  <1>2. AudioPart'
    BY DEF AudioPart, taskVars, InterruptedIsOld, InterruptedIsSilent
  <1> QED
    BY <1>1, <1>2

(* ... and a step that leaves the turn manager alone.                    *)
LEMMA TurnKept ==
    ASSUME TurnPart, UNCHANGED <<turnVars, challenge>>,
           session \in {"closing", "gone"} => session' \in {"closing", "gone"}
    PROVE  TurnPart'
  <1>1. TurnInv'
    BY TurnStep DEF TurnPart, TurnMove
  <1> QED
    BY <1>1 DEF TurnPart, LongWindow, turnVars

(* The client and the end of the session.                                  *)
LEMMA ClientStep ==
    ASSUME IInv,
           StartSession \/ RestartSession \/ StopSession \/ HangUp \/ StopStt
    PROVE  IInv'
  <1> USE Parts
  <1>1. /\ UNCHANGED <<turnVars, taskVars, interrupted>>
        /\ playing' = playing \/ playing' = 0
        /\ session \in {"closing", "gone"} => session' \in {"closing", "gone"}
    BY DEF StartSession, RestartSession, StopSession, HangUp, StopStt, history
  <1>2. TurnPart'
    BY <1>1, TurnKept DEF taskVars
  <1>3. TaskPart' /\ AudioPart'
    BY <1>1, TasksKept
  <1>4. BudgetPart'
    <2> USE SessionAssumption DEF BudgetPart, InputTypeOK
    <2>1. InputTypeOK'
      <3>0. exits < MaxExits /\ exits' = exits + 1 => exits' \in 0 .. MaxExits
        OBVIOUS
      <3>1. CASE StartSession
        BY <3>1 DEF StartSession, history, bargeVars
      <3>2. CASE RestartSession
        <4>1. unheard' \in 1 .. MaxUtterances + 1
          BY <3>2 DEF RestartSession
        <4> QED
          BY <3>2, <3>0, <4>1 DEF RestartSession, history, NotConfirming
      <3>3. CASE StopSession
        BY <3>3, <3>0 DEF StopSession, history, ClearBargeCandidate, NoCandidate
      <3>4. CASE HangUp
        BY <3>4, <3>0 DEF HangUp, history, ClearBargeCandidate, NoCandidate
      <3>5. CASE StopStt
        BY <3>5 DEF StopStt, history, NotConfirming
      <3> QED
        BY <3>1, <3>2, <3>3, <3>4, <3>5
    <2>2. ConfirmHasWords'
      BY DEF StartSession, RestartSession, StopSession, HangUp, StopStt, bargeVars,
             NotConfirming, ConfirmHasWords
    <2>3. /\ TurnDue' <= TurnDue /\ CandidateDue' <= CandidateDue /\ ConfirmDue' <= ConfirmDue
          /\ UNCHANGED <<generation, utterance, typed>>
      BY <1>1 DEF StartSession, RestartSession, StopSession, HangUp, StopStt, bargeVars,
             ClearBargeCandidate, NoCandidate, NotConfirming, turnVars, taskVars,
             TurnDue, CandidateDue, ConfirmDue
    <2>4. WithinBudget'
      <3>1. TurnDue' + CandidateDue' + ConfirmDue' <= TurnDue + CandidateDue + ConfirmDue
        BY <2>3 DEF TurnDue, CandidateDue, ConfirmDue
      <3> QED
        BY <2>3, <3>1, BudgetKept DEF TaskPart
    <2> QED
      BY <2>1, <2>2, <2>4
  <1> QED
    BY <1>2, <1>3, <1>4, PartsNext

(* The values a barge-in candidate takes.                                *)
LEMMA CandidateType ==
    /\ NoCandidate \in [active : BOOLEAN, ended : BOOLEAN]
    /\ [active |-> TRUE, ended |-> FALSE] \in [active : BOOLEAN, ended : BOOLEAN]
    /\ candidate \in [active : BOOLEAN, ended : BOOLEAN] =>
          [candidate EXCEPT !.ended = TRUE] \in [active : BOOLEAN, ended : BOOLEAN]
  BY DEF NoCandidate

(* Steps of the audio path that move neither a turn nor a response.        *)
LEMMA AudioStep ==
    ASSUME IInv,
           \/ CandidateSpeechEnds \/ ExpireBargeCandidate \/ HeardNothing \/ PlaybackEnds
           \/ \E u \in Texts, final \in BOOLEAN : TranscriptIgnored(u, final)
    PROVE  IInv'
  <1> USE Parts
  <1> DEFINE Quiet ==
        /\ UNCHANGED <<turnVars, taskVars, interrupted, session, confirm>>
        /\ UNCHANGED <<utterance, typed, exits, userTurnOpen, answered>>
        /\ playing' = playing \/ playing' = 0
        /\ speaking' \in {speaking, FALSE}
        /\ \/ unheard' = unheard
           \/ unheard <= utterance /\ unheard' = unheard + 1
        /\ \/ UNCHANGED <<candidate, expiry>>
           \/ ClearBargeCandidate
           \/ /\ candidate' = [candidate EXCEPT !.ended = TRUE]
              /\ candidate.active /\ expiry' = TRUE
  <1>1. Quiet
    <2>1. CASE CandidateSpeechEnds
      BY <2>1 DEF CandidateSpeechEnds, history
    <2>2. CASE ExpireBargeCandidate
      BY <2>2 DEF ExpireBargeCandidate, history, inputVars
    <2>3. CASE HeardNothing
      BY <2>3 DEF HeardNothing, history, bargeVars
    <2>4. CASE PlaybackEnds
      BY <2>4 DEF PlaybackEnds, history, inputVars, bargeVars
    <2>5. ASSUME NEW u \in Texts, NEW final \in BOOLEAN, TranscriptIgnored(u, final)
          PROVE  Quiet
      BY <2>5 DEF TranscriptIgnored, Heard, Returned, history, bargeVars
    <2> QED
      BY <2>1, <2>2, <2>3, <2>4, <2>5
  <1>3. TurnPart'
    BY <1>1, TurnKept DEF taskVars
  <1>4. TaskPart' /\ AudioPart'
    BY <1>1, TasksKept
  <1>5. InputTypeOK'
    <2> USE SessionAssumption DEF BudgetPart, InputTypeOK
    <2>1. unheard' \in 1 .. MaxUtterances + 1
      BY <1>1
    <2>2. candidate' \in [active : BOOLEAN, ended : BOOLEAN]
      BY <1>1, CandidateType DEF ClearBargeCandidate
    <2>3. expiry' \in BOOLEAN /\ speaking' \in BOOLEAN
      BY <1>1 DEF ClearBargeCandidate
    <2>4. playing' \in Gens \cup {0}
      BY <1>1
    <2>5. UNCHANGED <<session, userTurnOpen, utterance, confirm, interrupted, typed, exits,
                      answered>>
      BY <1>1
    <2> HIDE DEF Quiet
    <2> QED
      BY <2>1, <2>2, <2>3, <2>4, <2>5
  <1>6. CandidateDue' <= CandidateDue
    BY <1>1 DEF CandidateDue, ClearBargeCandidate, NoCandidate, BudgetPart, InputTypeOK
  <1>7. TurnDue' + CandidateDue' + ConfirmDue' <= TurnDue + CandidateDue + ConfirmDue
    BY <1>1, <1>6 DEF TurnDue, CandidateDue, ConfirmDue, turnVars
  <1>8. WithinBudget'
    BY <1>1, <1>7, BudgetKept DEF TaskPart, BudgetPart, taskVars
  <1>9. ConfirmHasWords'
    BY <1>1 DEF BudgetPart, ConfirmHasWords
  <1> QED
    BY <1>3, <1>4, <1>5, <1>8, <1>9, PartsNext DEF BudgetPart

(* The caller speaks, the recogniser is heard, a timer runs: steps of the  *)
(* turn manager that give out no generation.                               *)
LEMMA TurnKeeps ==
    ASSUME IInv, TurnMove, UNCHANGED <<taskVars, interrupted, playing>>,
           session \in {"closing", "gone"} => session' \in {"closing", "gone"},
           config' = config
    PROVE  TurnPart' /\ TaskPart' /\ AudioPart'
  <1> USE Parts
  <1>1. TurnPart'
    BY TurnStep DEF TurnPart, LongWindow, taskVars
  <1>2. TaskPart' /\ AudioPart'
    BY TasksKept
  <1> QED
    BY <1>1, <1>2

(* shutdown cancels the timers of a session that is being closed.        *)
LEMMA ShutdownStep ==
    ASSUME IInv, ShutdownTimers
    PROVE  IInv'
  <1> USE Parts
  <1>1. TurnPart' /\ TaskPart' /\ AudioPart'
    BY TurnKeeps DEF ShutdownTimers, Shutdown, TurnMove, history
  <1>2. InputTypeOK' /\ ConfirmHasWords'
    BY DEF ShutdownTimers, BudgetPart, InputTypeOK, ConfirmHasWords, bargeVars, history
  <1>3. TurnDue' + CandidateDue' + ConfirmDue' <= TurnDue + CandidateDue + ConfirmDue
    BY DEF ShutdownTimers, Shutdown, TurnDue, CandidateDue, ConfirmDue, bargeVars
  <1>4. WithinBudget'
    BY <1>3, BudgetKept DEF ShutdownTimers, TaskPart, BudgetPart, taskVars
  <1> QED
    BY <1>1, <1>2, <1>4, PartsNext DEF BudgetPart

(* A new utterance pays for the barge-in, or the turn, it may become.      *)
LEMMA SpeechStartStep ==
    ASSUME IInv, SpeechStart
    PROVE  IInv'
  <1> USE Parts
  <1>1. TurnMove /\ config' = config
    BY DEF SpeechStart, TurnMove, turnVars, OnSpeechStart
  <1>2. TurnPart' /\ TaskPart' /\ AudioPart'
    BY <1>1, TurnKeeps DEF SpeechStart, history
  <1>3. /\ UNCHANGED <<session, unheard, typed, exits, confirm, playing, answered,
                      interrupted, generation>>
        /\ speaking' = TRUE /\ utterance < MaxUtterances /\ utterance' = utterance + 1
    BY DEF SpeechStart, taskVars, history
  <1>4. InputTypeOK'
    <2>1. utterance' \in 0 .. MaxUtterances
      BY <1>3, SessionAssumption DEF BudgetPart, InputTypeOK
    <2>2. userTurnOpen' \in BOOLEAN /\ expiry' \in BOOLEAN
      BY DEF SpeechStart, BudgetPart, InputTypeOK
    <2>3. candidate' \in [active : BOOLEAN, ended : BOOLEAN]
      BY CandidateType DEF SpeechStart, BudgetPart, InputTypeOK
    <2> QED
      BY <1>3, <2>1, <2>2, <2>3 DEF BudgetPart, InputTypeOK
  <1>5. TurnDue' + CandidateDue' + ConfirmDue' <= TurnDue + CandidateDue + ConfirmDue + 3
    BY <1>3 DEF SpeechStart, TurnDue, CandidateDue, ConfirmDue, turnVars
  <1>6. WithinBudget'
    <2>1. generation \in Nat /\ utterance \in Nat /\ typed \in Nat
      BY Numbers DEF TaskPart, BudgetPart
    <2> QED
      BY <1>3, <1>5, <2>1 DEF BudgetPart, WithinBudget, TurnDue, CandidateDue, ConfirmDue
  <1>7. ConfirmHasWords'
    BY <1>3 DEF BudgetPart, ConfirmHasWords
  <1> QED
    BY <1>2, <1>4, <1>6, <1>7, PartsNext DEF BudgetPart

(* The end of an utterance, words for an open turn, a timer that does not  *)
(* finalize: what was owed for the turn is still owed.                     *)
LEMMA TurnOnlyStep ==
    ASSUME IInv, TurnMove, config' = config,
           UNCHANGED <<taskVars, bargeVars, session, utterance, typed, exits, userTurnOpen,
                       playing, history>>,
           speaking' \in BOOLEAN, unheard' \in 1 .. MaxUtterances + 1,
           TurnDue' <= TurnDue
    PROVE  IInv'
  <1> USE Parts
  <1>1. TurnPart' /\ TaskPart' /\ AudioPart'
    BY TurnKeeps DEF history
  <1>2. InputTypeOK' /\ ConfirmHasWords'
    BY DEF BudgetPart, InputTypeOK, ConfirmHasWords, bargeVars, history
  <1>3. TurnDue' + CandidateDue' + ConfirmDue' <= TurnDue + CandidateDue + ConfirmDue
    BY DEF TurnDue, CandidateDue, ConfirmDue, bargeVars
  <1>4. WithinBudget'
    BY <1>3, BudgetKept DEF TaskPart, BudgetPart, taskVars
  <1> QED
    BY <1>1, <1>2, <1>4, PartsNext DEF BudgetPart

(* The end of an utterance that is no barge-in candidate.                *)
LEMMA SpeechEndStep ==
    ASSUME IInv, SpeechEnd
    PROVE  IInv'
  <1>1. TurnMove /\ config' = config /\ TurnDue' <= TurnDue
    BY DEF SpeechEnd, TurnMove, turnVars, OnSpeechEnd, SpeechEnds, TurnDue
  <1>2. /\ UNCHANGED <<taskVars, bargeVars, session, utterance, typed, exits, userTurnOpen,
                       playing, history>>
        /\ speaking' \in BOOLEAN /\ unheard' = unheard
    BY DEF SpeechEnd
  <1>3. unheard' \in 1 .. MaxUtterances + 1
    BY <1>2, Parts DEF BudgetPart, InputTypeOK
  <1> QED
    BY <1>1, <1>2, <1>3, TurnOnlyStep

(* Which words the recogniser returns next.                                *)
LEMMA HeardStep ==
    ASSUME IInv, NEW u \in Texts, NEW final \in BOOLEAN, Heard(u, final)
    PROVE  unheard' \in 1 .. MaxUtterances + 1
  BY Parts, SessionAssumption DEF Heard, Returned, BudgetPart, InputTypeOK

(* A transcript for an open turn.                                        *)
LEMMA TranscriptFeedsStep ==
    ASSUME IInv, NEW u \in Texts, NEW final \in BOOLEAN, TranscriptFeeds(u, final)
    PROVE  IInv'
  <1>1. TurnMove /\ config' = config
    BY DEF TranscriptFeeds, TurnMove, Feeds
  <1>2. TurnDue' <= TurnDue
    BY DEF TranscriptFeeds, TurnDue
  <1>3. /\ UNCHANGED <<taskVars, bargeVars, session, utterance, typed, exits, userTurnOpen,
                       playing, history>>
        /\ speaking' \in BOOLEAN
    BY Parts DEF TranscriptFeeds, Heard, Returned, BudgetPart, InputTypeOK
  <1>4. unheard' \in 1 .. MaxUtterances + 1
    BY HeardStep DEF TranscriptFeeds
  <1> QED
    BY <1>1, <1>2, <1>3, <1>4, TurnOnlyStep

(* A timer that finds nothing to finalize.                               *)
LEMMA TimerRunsStep ==
    ASSUME IInv, TimerRuns
    PROVE  IInv'
  <1>1. TurnMove /\ config' = config
    BY DEF TimerRuns, TurnMove, IgnoreEmptyTurn, EndpointAfterSilence, SettleGivesUp,
           ResetForNextTurn
  <1>2. TurnDue' <= TurnDue
    BY DEF TimerRuns, TurnDue, IgnoreEmptyTurn, EndpointAfterSilence, SettleGivesUp,
           ResetForNextTurn
  <1>3. UNCHANGED <<taskVars, bargeVars, inputVars, userTurnOpen, playing, history>>
    BY DEF TimerRuns, bargeVars
  <1>4. /\ UNCHANGED <<session, utterance, typed, exits>>
        /\ speaking' \in BOOLEAN /\ unheard' \in 1 .. MaxUtterances + 1
    BY <1>3, Parts DEF inputVars, BudgetPart, InputTypeOK
  <1> QED
    BY <1>1, <1>2, <1>3, <1>4, TurnOnlyStep

-----------------------------------------------------------------------------
(* There is a generation left for whatever asks for one.                   *)
LEMMA GenerationLeft ==
    ASSUME IInv, \/ typed < MaxTyped
                 \/ TurnDue + CandidateDue + ConfirmDue >= 1
    PROVE  generation + 1 \in Gens
  <1>1. generation \in Nat /\ utterance \in Nat /\ typed \in Nat
    BY Numbers, Parts DEF TaskPart, BudgetPart
  <1>2. utterance <= MaxUtterances /\ typed <= MaxTyped
        /\ MaxUtterances \in Nat /\ MaxTyped \in Nat
    BY Parts, SessionAssumption DEF BudgetPart, InputTypeOK
  <1>3. generation + 1 <= 3 * MaxUtterances + MaxTyped
    BY <1>1, <1>2 DEF IInv, WithinBudget, TurnDue, CandidateDue, ConfirmDue
  <1> QED
    BY <1>1, <1>2, <1>3 DEF Gens

(* A typed query and a turn that is over.                                  *)
LEMMA AudioNewer ==
    ASSUME TaskTypeOK, AudioPart, generation' = generation + 1, interrupted' = interrupted,
           InputTypeOK, playing' = playing
    PROVE  AudioPart'
  <1>1. generation \in Nat /\ interrupted \in Nat
    BY GensAreNumbers DEF TaskTypeOK, InputTypeOK
  <1> QED
    BY <1>1 DEF AudioPart, InterruptedIsOld, InterruptedIsSilent

(* A typed query pays for its own generation.                            *)
LEMMA TextQueryStep ==
    ASSUME IInv, TextQuery
    PROVE  IInv'
  <1> USE Parts
  <1>1. generation + 1 \in Gens
    BY GenerationLeft DEF TextQuery
  <1>2. /\ TaskTypeOK' /\ TasksInv'
        /\ generation' = generation + 1 /\ challenge' = challenge
    BY <1>1, SchedulesStep DEF TextQuery, TaskPart
  <1>3. TurnPart'
    BY <1>2, TurnKept DEF TextQuery
  <1>4. AudioPart'
    BY <1>2, AudioNewer DEF TextQuery, TaskPart, BudgetPart, history
  <1>5. InputTypeOK' /\ ConfirmHasWords'
    <2>1. typed' \in 0 .. MaxTyped
      BY SessionAssumption DEF TextQuery, BudgetPart, InputTypeOK
    <2> QED
      BY <2>1 DEF TextQuery, BudgetPart, InputTypeOK, ConfirmHasWords, bargeVars, history
  <1>6. WithinBudget'
    <2>1. generation \in Nat /\ utterance \in Nat /\ typed \in Nat
      BY Numbers DEF TaskPart, BudgetPart
    <2> QED
      BY <1>2, <2>1
      DEF TextQuery, BudgetPart, WithinBudget, TurnDue, CandidateDue, ConfirmDue, bargeVars,
          turnVars
  <1> QED
    BY <1>2, <1>3, <1>4, <1>5, <1>6, PartsNext DEF TaskPart, BudgetPart

(* A turn that is over pays with what it was owed.                       *)
LEMMA OnTurnFinalizedStep ==
    ASSUME IInv, OnTurnFinalized
    PROVE  IInv'
  <1> USE Parts
  <1>1. settle # NoTimer /\ state = "ENDPOINTING"
    BY AwaitedType
    DEF OnTurnFinalized, FinalizeTurn, SettledAsExpected, TurnPart, TurnInv, TurnTypeOK,
        TimersAreCurrent
  <1>2. TurnDue = 1 /\ TurnDue' = 0
    BY <1>1 DEF OnTurnFinalized, FinalizeTurn, ResetForNextTurn, TurnDue
  <1>3. generation + 1 \in Gens
    BY <1>2, GenerationLeft DEF CandidateDue, ConfirmDue
  <1>4. /\ TaskTypeOK' /\ TasksInv'
        /\ generation' = generation + 1 /\ challenge' = challenge
    BY <1>3, SchedulesStep DEF OnTurnFinalized, TaskPart
  <1>5. TurnInv'
    BY TurnStep DEF OnTurnFinalized, FinalizeTurn, TurnMove, TurnPart, inputVars
  <1>6. TurnPart'
    BY <1>4, <1>5
    DEF OnTurnFinalized, FinalizeTurn, ResetForNextTurn, TurnPart, LongWindow
  <1>7. AudioPart'
    BY <1>4, AudioNewer DEF OnTurnFinalized, TaskPart, BudgetPart
  <1>8. InputTypeOK' /\ ConfirmHasWords'
    <2>1. answered' \subseteq Texts
      BY DEF OnTurnFinalized, Transcript, BudgetPart, InputTypeOK, TurnPart, TurnInv, TurnTypeOK
    <2>2. /\ UNCHANGED <<session, speaking, expiry, utterance, unheard, candidate, confirm,
                         playing, interrupted, typed, exits>>
          /\ userTurnOpen' = FALSE
      BY DEF OnTurnFinalized, bargeVars, inputVars
    <2>3. InputTypeOK'
      <3>1. InputTypeOK
        BY DEF BudgetPart
      <3>2. userTurnOpen' \in BOOLEAN
        BY <2>2
      <3> HIDE Parts
      <3> QED
        BY <2>1, <2>2, <3>1, <3>2 DEF InputTypeOK
    <2>4. ConfirmHasWords'
      BY <2>2 DEF BudgetPart, ConfirmHasWords
    <2> QED
      BY <2>3, <2>4
  <1>9. WithinBudget'
    <2>1. generation \in Nat /\ utterance \in Nat /\ typed \in Nat
      BY Numbers DEF TaskPart, BudgetPart
    <2>2. UNCHANGED <<utterance, typed, candidate, confirm>>
      BY DEF OnTurnFinalized, inputVars, bargeVars
    <2> QED
      BY <1>2, <1>4, <2>1, <2>2
      DEF BudgetPart, WithinBudget, TurnDue, CandidateDue, ConfirmDue
  <1> QED
    BY <1>4, <1>6, <1>7, <1>8, <1>9, PartsNext DEF TaskPart, BudgetPart

-----------------------------------------------------------------------------
(* A barge-in: what it confirms, cancels and passes on.                    *)
LEMMA ConfirmsBargeInStep ==
    ASSUME IInv, NEW u \in Texts, NEW final \in BOOLEAN, TranscriptConfirmsBargeIn(u, final)
    PROVE  IInv'
  <1> USE Parts
  <1>1. /\ candidate.active /\ confirm.at = "none" /\ ClearBargeCandidate
        /\ confirm' = [at |-> "clearing", text |-> u, final |-> final, ended |-> candidate.ended]
        /\ generation' = generation + 1 /\ interrupted' = generation /\ playing' = 0
        /\ UNCHANGED <<turnVars, session, speaking, utterance, typed, exits, userTurnOpen,
                       answered>>
        /\ UNCHANGED <<current, phase, at, via, challenge>>
    BY DEF TranscriptConfirmsBargeIn, Heard, Returned
  <1>2. generation + 1 \in Gens
    BY <1>1, GenerationLeft DEF TurnDue, CandidateDue, ConfirmDue
  <1>3. TaskTypeOK' /\ TasksInv'
    BY <1>1, <1>2, InterruptsStep DEF TaskPart
  <1>4. TurnPart'
    BY <1>1, TurnKept
  <1>5. AudioPart'
    <2>1. generation \in Nat
      BY Numbers DEF TaskPart, BudgetPart
    <2> QED
      BY <1>1, <2>1 DEF AudioPart, InterruptedIsOld, InterruptedIsSilent
  <1>6. InputTypeOK' /\ ConfirmHasWords'
    <2>1. unheard' \in 1 .. MaxUtterances + 1
      BY HeardStep DEF TranscriptConfirmsBargeIn
    <2>2. candidate' \in [active : BOOLEAN, ended : BOOLEAN] /\ expiry' \in BOOLEAN
      BY <1>1, CandidateType DEF ClearBargeCandidate
    <2>3. confirm' \in [at : {"none", "clearing", "announcing"}, text : Texts \cup {NoText},
                        final : BOOLEAN, ended : BOOLEAN]
      BY <1>1 DEF BudgetPart, InputTypeOK
    <2>4. playing' \in Gens \cup {0} /\ interrupted' \in Gens \cup {0}
      BY <1>1 DEF TaskPart, TaskTypeOK
    <2>5. InputTypeOK'
      BY <1>1, <2>1, <2>2, <2>3, <2>4 DEF BudgetPart, InputTypeOK
    <2>6. ConfirmHasWords'
      BY <1>1 DEF ConfirmHasWords
    <2> QED
      BY <2>5, <2>6
  <1>7. WithinBudget'
    <2>1. generation \in Nat /\ utterance \in Nat /\ typed \in Nat
      BY Numbers DEF TaskPart, BudgetPart
    <2>2. TurnDue' = TurnDue /\ CandidateDue' = 0 /\ ConfirmDue' = 2
      BY <1>1 DEF TurnDue, CandidateDue, ConfirmDue, ClearBargeCandidate, NoCandidate, turnVars
    <2> QED
      BY <1>1, <2>1, <2>2 DEF BudgetPart, WithinBudget, TurnDue, CandidateDue, ConfirmDue
  <1> QED
    BY <1>3, <1>4, <1>5, <1>6, <1>7, PartsNext DEF TaskPart, BudgetPart

(* The barge-in cancels the current response and opens a turn.           *)
LEMMA ConfirmCancelsStep ==
    ASSUME IInv, ConfirmCancels
    PROVE  IInv'
  <1> USE Parts
  <1>1. /\ confirm.at = "clearing" /\ confirm' = [confirm EXCEPT !.at = "announcing"]
        /\ \E S : Cancel(S)
        /\ current' = 0 /\ phase' = "idle" /\ userTurnOpen' = TRUE
        /\ OnSpeechStart
        /\ UNCHANGED <<generation, challenge, candidate, expiry, playing>>
        /\ UNCHANGED <<session, speaking, utterance, unheard, typed, exits>>
        /\ UNCHANGED <<answered, interrupted>>
    BY DEF ConfirmCancels, inputVars, history
  <1>2. TaskTypeOK' /\ TasksInv'
    BY <1>1, CancelsStep DEF TaskPart
  <1>3. TurnPart'
    BY <1>1, TurnStep DEF TurnMove, TurnPart, OnSpeechStart, LongWindow
  <1>4. AudioPart'
    BY <1>1 DEF AudioPart, InterruptedIsOld, InterruptedIsSilent
  <1>5. confirm' \in [at : {"none", "clearing", "announcing"}, text : Texts \cup {NoText},
                      final : BOOLEAN, ended : BOOLEAN]
        /\ confirm'.text = confirm.text /\ confirm'.at = "announcing"
    BY <1>1 DEF BudgetPart, InputTypeOK
  <1>6. InputTypeOK' /\ ConfirmHasWords'
    BY <1>1, <1>5 DEF BudgetPart, InputTypeOK, ConfirmHasWords
  <1>7. WithinBudget'
    <2>1. CandidateDue' = CandidateDue /\ ConfirmDue = 2 /\ ConfirmDue' = 1
      BY <1>1, <1>5 DEF CandidateDue, ConfirmDue
    <2>2. TurnDue' + CandidateDue' + ConfirmDue' <= TurnDue + CandidateDue + ConfirmDue
      BY <2>1 DEF TurnDue, CandidateDue, ConfirmDue
    <2> QED
      BY <1>1, <2>2, BudgetKept DEF TaskPart, BudgetPart
  <1> QED
    BY <1>2, <1>3, <1>4, <1>6, <1>7, PartsNext DEF TaskPart, BudgetPart

(* The barge-in's words are fed, and its speech ended if it had ended.   *)
LEMMA ConfirmFeedsStep ==
    ASSUME IInv, ConfirmFeeds
    PROVE  IInv'
  <1> USE Parts
  <1>1. /\ confirm.at = "announcing" /\ confirm' = NotConfirming
        /\ UNCHANGED <<taskVars, candidate, expiry, userTurnOpen, playing, history>>
        /\ UNCHANGED <<session, speaking, utterance, unheard, typed, exits, turnId, config>>
    BY DEF ConfirmFeeds, inputVars
  <1>2. Feeds
    BY DEF ConfirmFeeds, Feeds, BudgetPart, ConfirmHasWords, InputTypeOK
  <1>3. TurnMove
    BY <1>2 DEF ConfirmFeeds, TurnMove
  <1>4. TurnPart' /\ TaskPart' /\ AudioPart'
    BY <1>1, <1>3, TurnKeeps DEF history
  <1>5. InputTypeOK' /\ ConfirmHasWords'
    BY <1>1 DEF BudgetPart, InputTypeOK, ConfirmHasWords, NotConfirming, history
  <1>6. WithinBudget'
    <2>1. CandidateDue' = CandidateDue /\ ConfirmDue = 1 /\ ConfirmDue' = 0
      BY <1>1 DEF CandidateDue, ConfirmDue, NotConfirming
    <2>2. TurnDue' + CandidateDue' + ConfirmDue' <= TurnDue + CandidateDue + ConfirmDue
      BY <2>1 DEF TurnDue, CandidateDue, ConfirmDue
    <2> QED
      BY <1>1, <2>2, BudgetKept DEF TaskPart, BudgetPart, taskVars
  <1> QED
    BY <1>4, <1>5, <1>6, PartsNext DEF BudgetPart

-----------------------------------------------------------------------------
(* A response task, from one await to the next.                            *)
ResponseMoves(g) == Responds(g) \/ Speaks(g) \/ ResumesRequest(g) \/ GivesUp(g)

(* What it does to the turn manager: a window, if anything.                *)
LEMMA ResponseTurn ==
    ASSUME IInv, NEW g \in Gens, ResponseMoves(g)
    PROVE  TurnPart' /\ TurnDue' = TurnDue
  <1> USE Parts
  <1> DEFINE Window ==
        \/ UNCHANGED turnVars /\ (challenge' = "awaiting" => challenge = "awaiting")
        \/ SetConfig(Normal) /\ challenge' # "awaiting"
        \/ SetConfig(Verification)
  <1>1. Window
    <2>1. CASE RepliesToVerification(g)
      BY <2>1 DEF RepliesToVerification
    <2>2. CASE LeavesInference(g)
      BY <2>2 DEF LeavesInference, Discards, Ends, Challenges
    <2>3. CASE RepliesToDuplicate(g) \/ WaitsForInference(g) \/ EntersInference(g)
      BY <2>3 DEF RepliesToDuplicate, WaitsForInference, EntersInference
    <2>4. CASE Localized(g) \/ StartsSpeaking(g) \/ StreamEnds(g) \/ Finishes(g)
      BY <2>4 DEF Localized, StartsSpeaking, StreamEnds, Finishes, Ends
    <2>5. CASE Speaks(g) \/ ResumesRequest(g) \/ GivesUp(g)
      BY <2>5 DEF Speaks, ResumesRequest, GivesUp, Ends, taskVars
    <2> QED
      BY <2>1, <2>2, <2>3, <2>4, <2>5 DEF ResponseMoves, Responds
  <1>2. session' = session /\ userTurnOpen' = userTurnOpen
    BY DEF ResponseMoves, Responds, RepliesToVerification, RepliesToDuplicate,
           WaitsForInference, EntersInference, LeavesInference, Localized, StartsSpeaking,
           StreamEnds, Finishes, Speaks, ResumesRequest, GivesUp, sessionOnly, inputVars
  <1>3. TurnMove
    BY <1>1, SessionAssumption DEF TurnMove
  <1>4. TurnInv'
    BY <1>2, <1>3, TurnStep DEF TurnPart
  <1>5. LongWindow'
    BY <1>1 DEF SetConfig, turnVars, TurnPart, LongWindow
  <1>6. TurnDue' = TurnDue
    BY <1>1, <1>2 DEF SetConfig, turnVars, TurnDue
  <1> QED
    BY <1>4, <1>5, <1>6 DEF TurnPart

(* What it does to the responses.                                          *)
LEMMA ResponseTasks ==
    ASSUME TaskTypeOK, TasksInv, NEW g \in Gens, ResponseMoves(g)
    PROVE  TaskTypeOK' /\ TasksInv' /\ generation' = generation
  <1> USE DEF Active, Phases
  <1>1. CASE RepliesToVerification(g) \/ RepliesToDuplicate(g)
    <2>1. /\ at[g] \in Active /\ Goes(g, "localizing")
          /\ challenge' \in {"none", "awaiting", "locked"}
          /\ UNCHANGED <<generation, current, phase>>
      BY <1>1 DEF RepliesToVerification, RepliesToDuplicate, TaskTypeOK
    <2>2. via' \in [Gens -> Paths] /\ \A h \in Gens \ {g} : via'[h] = via[h]
      BY <1>1 DEF RepliesToVerification, RepliesToDuplicate, TaskTypeOK, Paths
    <2> QED
      BY <2>1, <2>2, ProceedsStep DEF TaskTypeOK
  <1>2. CASE WaitsForInference(g) \/ StreamEnds(g)
    <2>1. /\ at[g] \in Active /\ UNCHANGED <<generation, current, phase, via, challenge>>
          /\ \E s \in Active :
                /\ Goes(g, s)
                /\ via[g] = "verified" => s \in {"localizing", "sending", "speaking", "draining"}
      BY <1>2 DEF WaitsForInference, StreamEnds, TasksInv, VerifiedIsReplying
    <2> QED
      BY <2>1, ProceedsStep DEF TaskTypeOK
  <1>3. CASE EntersInference(g)
    BY <1>3, EntersStep DEF EntersInference
  <1>4. CASE LeavesInference(g)
    <2>1. CASE g = generation
      BY <1>4, <2>1, AnswersStep DEF LeavesInference
    <2>2. CASE g # generation
      BY <1>4, <2>2, EndsStep DEF LeavesInference, Discards, Ends
    <2> QED
      BY <2>1, <2>2
  <1>5. CASE Localized(g)
    <2>1. CASE g = generation \/ via[g] = "duplicate"
      <3>1. /\ at[g] \in Active /\ Goes(g, "sending")
            /\ UNCHANGED <<generation, current, phase, via, challenge>>
        BY <1>5, <2>1 DEF Localized
      <3> QED
        BY <3>1, ProceedsStep DEF TaskTypeOK
    <2>2. CASE ~(g = generation \/ via[g] = "duplicate")
      <3>1. at[g] # "none" /\ Ends(g, phase)
        BY <1>5, <2>2 DEF Localized
      <3> QED
        BY <3>1, EndsStep DEF TaskTypeOK, Ends
    <2> QED
      BY <2>1, <2>2
  <1>9. CASE StartsSpeaking(g)
    <2>1. /\ at[g] \in Active /\ Goes(g, "speaking") /\ phase' = "tts"
          /\ UNCHANGED <<generation, current, via, challenge>>
      BY <1>9 DEF StartsSpeaking
    <2> QED
      BY <2>1, ProceedsStep DEF TaskTypeOK
  <1>6. CASE Finishes(g) \/ GivesUp(g)
    <2>1. at[g] # "none" /\ Ends(g, phase)
      BY <1>6 DEF Finishes, GivesUp
    <2> QED
      BY <2>1, EndsStep DEF TaskTypeOK, Ends
  <1>7. CASE Speaks(g)
    <2>1. CASE g = generation
      BY <1>7, <2>1
      DEF Speaks, taskVars, TaskTypeOK, TasksInv, FutureIsEmpty, OthersAreStale,
          OneInInference, CurrentIsKnown, VerifiedIsReplying
    <2>2. CASE g # generation
      <3>1. at[g] # "none" /\ Ends(g, phase)
        BY <1>7, <2>2 DEF Speaks
      <3> QED
        BY <3>1, EndsStep DEF TaskTypeOK, Ends
    <2> QED
      BY <2>1, <2>2
  <1>8. CASE ResumesRequest(g)
    <2>1. /\ at[g] \in Active /\ Goes(g, "starting") /\ phase' = "idle"
          /\ via' = [via EXCEPT ![g] = "resumed"]
          /\ UNCHANGED <<generation, current, challenge>>
      BY <1>8 DEF ResumesRequest
    <2>2. /\ via' \in [Gens -> Paths] /\ via'[g] = "resumed"
          /\ \A h \in Gens \ {g} : via'[h] = via[h]
      BY <2>1 DEF TaskTypeOK, Paths
    <2> QED
      BY <2>1, <2>2, ProceedsStep DEF TaskTypeOK
  <1> QED
    BY <1>1, <1>2, <1>3, <1>4, <1>5, <1>6, <1>7, <1>8, <1>9 DEF ResponseMoves, Responds

(* A response task preserves the invariant.                              *)
LEMMA ResponseStep ==
    ASSUME IInv, NEW g \in Gens, ResponseMoves(g)
    PROVE  IInv'
  <1> USE Parts
  <1>1. TurnPart' /\ TurnDue' = TurnDue
    BY ResponseTurn
  <1>2. TaskTypeOK' /\ TasksInv' /\ generation' = generation
    BY ResponseTasks DEF TaskPart
  <1>3. UNCHANGED <<inputVars, bargeVars, userTurnOpen, history>>
    BY DEF ResponseMoves, Responds, RepliesToVerification, RepliesToDuplicate,
           WaitsForInference, EntersInference, LeavesInference, Localized, StartsSpeaking,
           StreamEnds, Finishes, Speaks, ResumesRequest, GivesUp, sessionOnly
  <1>4. playing' = playing \/ (playing' = g /\ g = generation)
    BY DEF ResponseMoves, Responds, RepliesToVerification, RepliesToDuplicate,
           WaitsForInference, EntersInference, LeavesInference, Localized, StartsSpeaking,
           StreamEnds, Finishes, Speaks, ResumesRequest, GivesUp, sessionOnly
  <1>5. AudioPart'
    <2>1. generation \in Nat /\ g \in Nat /\ g # 0
      BY Numbers, GensAreNumbers DEF TaskPart, BudgetPart
    <2> QED
      BY <1>2, <1>3, <1>4, <2>1 DEF AudioPart, InterruptedIsOld, InterruptedIsSilent, history
  <1>6. InputTypeOK' /\ ConfirmHasWords'
    BY <1>3, <1>4 DEF BudgetPart, InputTypeOK, ConfirmHasWords, inputVars, bargeVars, history
  <1>7. WithinBudget'
    <2>1. TurnDue' + CandidateDue' + ConfirmDue' <= TurnDue + CandidateDue + ConfirmDue
      BY <1>1, <1>3 DEF TurnDue, CandidateDue, ConfirmDue, bargeVars
    <2> QED
      BY <1>2, <1>3, <2>1, BudgetKept DEF TaskPart, BudgetPart, inputVars
  <1> QED
    BY <1>1, <1>2, <1>5, <1>6, <1>7, PartsNext DEF TaskPart, BudgetPart

-----------------------------------------------------------------------------
(* A session that was not started: no turn, no response.                   *)
THEOREM InitInv == Init => IInv
  <1> SUFFICES ASSUME Init PROVE IInv
    OBVIOUS
  <1> USE SessionAssumption DEF Init
  <1>1. TurnPart
    BY DEF TurnInit, TurnPart, TurnInv, TurnTypeOK, TimersAreCurrent, Armed, EndingIsSilent,
           WindowInForce, LongWindow
  <1>2. TaskPart
    BY GensAreNumbers
    DEF TaskPart, TaskTypeOK, TasksInv, FutureIsEmpty, OthersAreStale, OneInInference,
        CurrentIsKnown, VerifiedIsReplying, Stages, Paths, Phases
  <1>3. AudioPart
    BY DEF AudioPart, InterruptedIsOld, InterruptedIsSilent
  <1>4. InputTypeOK /\ ConfirmHasWords
    <2>1. utterance \in 0 .. MaxUtterances /\ unheard \in 1 .. MaxUtterances + 1
      OBVIOUS
    <2>2. typed \in 0 .. MaxTyped /\ exits \in 0 .. MaxExits
      OBVIOUS
    <2>3. confirm \in [at : {"none", "clearing", "announcing"}, text : Texts \cup {NoText},
                       final : BOOLEAN, ended : BOOLEAN]
      BY DEF NotConfirming
    <2>4. InputTypeOK
      BY <2>1, <2>2, <2>3, CandidateType DEF InputTypeOK
    <2>5. ConfirmHasWords
      BY DEF ConfirmHasWords, NotConfirming
    <2> QED
      BY <2>4, <2>5
  <1>5. WithinBudget
    BY DEF TurnInit, WithinBudget, TurnDue, CandidateDue, ConfirmDue, NoCandidate, NotConfirming
  <1> QED
    BY <1>1, <1>2, <1>3, <1>4, <1>5, Parts DEF BudgetPart

(* IInv is inductive.                                                      *)
THEOREM StepInv == IInv /\ [Next]_vars => IInv'
  <1> SUFFICES ASSUME IInv, [Next]_vars PROVE IInv'
    OBVIOUS
  <1>1. CASE Client
    BY <1>1, ClientStep, TextQueryStep DEF Client
  <1>2. CASE Closing
    BY <1>2, ClientStep, ShutdownStep DEF Closing
  <1>3. CASE SpeechStart \/ SpeechEnd
    BY <1>3, SpeechStartStep, SpeechEndStep
  <1>4. CASE CandidateSpeechEnds \/ ExpireBargeCandidate \/ PlaybackEnds
    BY <1>4, AudioStep
  <1>5. CASE Recogniser
    BY <1>5, AudioStep, ConfirmsBargeInStep, TranscriptFeedsStep DEF Recogniser
  <1>6. CASE Confirming
    BY <1>6, ConfirmCancelsStep, ConfirmFeedsStep DEF Confirming
  <1>7. CASE Timers
    BY <1>7, TimerRunsStep, OnTurnFinalizedStep DEF Timers
  <1>8. ASSUME NEW g \in Gens, ResponseMoves(g) PROVE IInv'
    BY <1>8, ResponseStep
  <1>9. CASE UNCHANGED vars
    <2>1. TurnPart'
      BY <1>9, Parts, TurnKept DEF vars, taskVars, inputVars
    <2>2. TaskPart' /\ AudioPart'
      BY <1>9, Parts, TasksKept DEF vars, history
    <2>3. BudgetPart'
      BY <1>9, Parts
      DEF vars, BudgetPart, InputTypeOK, WithinBudget, ConfirmHasWords, TurnDue, CandidateDue,
          ConfirmDue, turnVars, inputVars, bargeVars, taskVars, history
    <2> QED
      BY <2>1, <2>2, <2>3, PartsNext
  <1> QED
    BY <1>1, <1>2, <1>3, <1>4, <1>5, <1>6, <1>7, <1>8, <1>9 DEF Next, ResponseMoves

(* IInv holds throughout.                                                  *)
THEOREM Invariance == Spec => []IInv
  BY InitInv, StepInv, PTL DEF Spec

(* Every reachable state of a session is well typed: in particular no      *)
(* caller gets more generations out of it than was accounted for.          *)
THEOREM TypeCorrect == Spec => []TypeOK
  <1>1. IInv => TypeOK
    BY DEF IInv
  <1> QED
    BY <1>1, Invariance, PTL

(* A turn that is ending has a timer that will end it, until the session   *)
(* is closed (turn_manager.py's timers under runtime.py's callers).        *)
THEOREM TurnsAreEnded == Spec => []NoTurnAbandoned
  <1>1. IInv => NoTurnAbandoned
    BY DEF IInv, TurnInv, Armed, NoTurnAbandoned, EndingIsArmed
  <1> QED
    BY <1>1, Invariance, PTL

(* Besides what is in inference at most one response is under way: each    *)
(* newer turn ends the others (_schedule_response).                        *)
THEOREM OneAtATime == Spec => []OneResponse
  <1>1. ASSUME IInv PROVE OneResponse
    <2> DEFINE S == {g \in Gens : at[g] \notin {"none", "inference"}}
    <2>1. ASSUME NEW g \in S, NEW h \in S PROVE g = h
      BY <1>1 DEF IInv, TasksInv, OthersAreStale
    <2>2. CASE S = {}
      BY <2>2, FS_EmptySet DEF OneResponse
    <2>3. CASE S # {}
      <3>1. PICK g \in S : S = {g}
        BY <2>1, <2>3
      <3>2. Cardinality(S) = 1
        BY <3>1, FS_Singleton
      <3> QED
        BY <3>2 DEF OneResponse
    <2> QED
      BY <2>2, <2>3
  <1> QED
    BY <1>1, Invariance, PTL

(* Once a barge-in is confirmed nothing of the interrupted response is     *)
(* played, whatever its TTS stream still yields (_confirm_barge_in).       *)
THEOREM InterruptionSilences == Spec => []InterruptedIsSilent
  <1>1. IInv => InterruptedIsSilent
    BY DEF IInv
  <1> QED
    BY <1>1, Invariance, PTL

(* While digits are awaited the turn manager, and the timer of a turn that *)
(* was ending already, wait by the longer window (set_config in _respond). *)
THEOREM DigitsAreWaitedFor == Spec => []DigitsGetTime
  <1>1. IInv => DigitsGetTime
    BY DEF IInv, TurnInv, WindowInForce, LongWindow, DigitsGetTime
  <1> QED
    BY <1>1, Invariance, PTL

-----------------------------------------------------------------------------
(* The words in use: those of the open turn and of the turns accepted.     *)
Used == Transcript \cup answered

(* Results come in order, and one call of on_transcript at a time: nothing *)
(* in use is newer than what the recogniser returns next, nor than what a  *)
(* barge-in that is being confirmed has in hand.                           *)
InOrder ==
    /\ unheard <= utterance + 1
    /\ \A t \in Used : t <= unheard
    /\ confirm.at # "none" =>
        /\ confirm.text <= unheard
        /\ \A t \in Used : t <= confirm.text

OrderInv == InOrder /\ OnlyTheLastIsLate

(* Words and utterances are numbers.                                       *)
LEMMA WordsAreNumbers ==
    ASSUME TypeOK
    PROVE  /\ Used \subseteq Nat /\ Texts \subseteq Nat
           /\ unheard \in Nat /\ utterance \in Nat
           /\ Transcript \subseteq Texts /\ answered \subseteq Texts
  <1>1. Texts \subseteq Nat
    BY SessionAssumption
  <1>2. Transcript \subseteq Texts /\ answered \subseteq Texts
    BY DEF TypeOK, TurnTypeOK, Transcript
  <1>3. unheard \in Nat /\ utterance \in Nat
    BY SessionAssumption DEF TypeOK
  <1> QED
    BY <1>1, <1>2, <1>3 DEF Used

(* Nothing is heard, fed or accepted; results may be lost, the barge-in    *)
(* may go on or be dropped.                                                *)
LEMMA OrderKept ==
    ASSUME TypeOK, TypeOK', OrderInv,
           Transcript' \subseteq Transcript, answered' = answered,
           unheard <= unheard', unheard' <= utterance' + 1,
           \/ confirm'.at = "none"
           \/ confirm.at # "none" /\ confirm.text \in Texts /\ confirm'.text = confirm.text
    PROVE  OrderInv'
  <1> USE WordsAreNumbers DEF OrderInv, InOrder, OnlyTheLastIsLate
  <1>1. unheard' \in Nat /\ Used' \subseteq Used
    BY SessionAssumption DEF TypeOK, Used
  <1>2. \A t \in Used' : t <= unheard'
    BY <1>1
  <1>3. confirm'.at # "none" =>
            confirm'.text <= unheard' /\ \A t \in Used' : t <= confirm'.text
    BY <1>1
  <1>4. OnlyTheLastIsLate'
    OBVIOUS
  <1> QED
    BY <1>2, <1>3, <1>4

(* Words that are not older than any in use are added to the turn.         *)
LEMMA OrderFed ==
    ASSUME TypeOK, OrderInv, NEW u \in Texts,
           \A t \in Used : t <= u,
           u <= unheard', unheard' <= utterance' + 1, unheard' \in Nat,
           Transcript' \subseteq Transcript \cup {u}, answered' = answered,
           confirm'.at = "none"
    PROVE  OrderInv'
  <1> USE WordsAreNumbers DEF OrderInv, InOrder, OnlyTheLastIsLate
  <1>1. \A t \in Used' : t <= u
    BY DEF Used
  <1>2. \A t \in Used' : t <= unheard'
    BY <1>1 DEF Used
  <1>3. OnlyTheLastIsLate'
    BY DEF Used
  <1> QED
    BY <1>2, <1>3

(* What a step of the client or the turn manager leaves of all that.       *)
LEMMA WordsKept ==
    ASSUME UNCHANGED <<finals, partial>>
    PROVE  Transcript' = Transcript
  BY DEF Transcript

LEMMA WordsFed ==
    ASSUME NEW u, NEW final, Feed(u, final)
    PROVE  Transcript' \subseteq Transcript \cup {u}
  BY DEF Feed, FinalArrives, PartialArrives, Transcript

LEMMA WordsReset ==
    ASSUME ResetForNextTurn
    PROVE  Transcript' = {}
  BY DEF ResetForNextTurn, Transcript

(* The recogniser: what it returns is not older than anything in use.      *)
LEMMA RecogniserOrder ==
    ASSUME IInv, IInv', OrderInv, Recogniser
    PROVE  OrderInv'
  <1> USE WordsAreNumbers
  <1>1. TypeOK /\ TypeOK' /\ unheard' \in Nat
    BY SessionAssumption DEF IInv, TypeOK
  <1>2. CASE HeardNothing
    <2>1. Transcript' = Transcript
      BY <1>2, WordsKept DEF HeardNothing, turnVars
    <2>2. answered' = answered /\ confirm'.at = "none"
      BY <1>2 DEF HeardNothing, bargeVars, history
    <2>3. unheard <= unheard' /\ unheard' <= utterance' + 1
      BY <1>1, <1>2 DEF HeardNothing
    <2> QED
      BY <1>1, <2>1, <2>2, <2>3, OrderKept
  <1>3. ASSUME NEW u \in Texts, NEW final \in BOOLEAN, Heard(u, final)
        PROVE  /\ unheard = u /\ u <= unheard' /\ unheard' <= utterance' + 1
               /\ confirm.at = "none" /\ \A t \in Used : t <= u
    BY <1>1, <1>3 DEF Heard, Returned, OrderInv, InOrder
  <1>4. ASSUME NEW u \in Texts, NEW final \in BOOLEAN, TranscriptConfirmsBargeIn(u, final)
        PROVE  OrderInv'
    <2>1. Heard(u, final)
      BY <1>4 DEF TranscriptConfirmsBargeIn
    <2>2. Transcript' = Transcript /\ answered' = answered /\ Used' = Used
      BY <1>4, WordsKept DEF TranscriptConfirmsBargeIn, turnVars, Used
    <2>3. confirm'.text = u
      BY <1>4 DEF TranscriptConfirmsBargeIn
    <2>4. \A t \in Used : t <= unheard'
      BY <1>1, <1>3, <2>1
    <2> QED
      BY <1>1, <1>3, <2>1, <2>2, <2>3, <2>4 DEF OrderInv, InOrder, OnlyTheLastIsLate
  <1>5. ASSUME NEW u \in Texts, NEW final \in BOOLEAN, TranscriptIgnored(u, final)
        PROVE  OrderInv'
    <2>1. Heard(u, final)
      BY <1>5 DEF TranscriptIgnored
    <2>2. Transcript' = Transcript /\ answered' = answered /\ confirm' = confirm
      BY <1>5, WordsKept DEF TranscriptIgnored, turnVars, bargeVars, history
    <2>3. unheard <= unheard' /\ unheard' <= utterance' + 1 /\ confirm'.at = "none"
      BY <1>3, <2>1, <2>2
    <2> QED
      BY <1>1, <2>1, <2>2, <2>3, OrderKept
  <1>6. ASSUME NEW u \in Texts, NEW final \in BOOLEAN, TranscriptFeeds(u, final)
        PROVE  OrderInv'
    <2>1. Heard(u, final)
      BY <1>6 DEF TranscriptFeeds
    <2>2. Transcript' \subseteq Transcript \cup {u}
      BY <1>6, WordsFed DEF TranscriptFeeds
    <2>3. answered' = answered /\ confirm' = confirm
      BY <1>6 DEF TranscriptFeeds, bargeVars, history
    <2> QED
      BY <1>1, <1>3, <2>1, <2>2, <2>3, OrderFed
  <1> QED
    BY <1>2, <1>4, <1>5, <1>6 DEF Recogniser

(* Every step keeps the order.                                             *)
LEMMA OrderStep ==
    ASSUME IInv, IInv', OrderInv, [Next]_vars
    PROVE  OrderInv'
  <1> DEFINE Listens ==
        /\ UNCHANGED <<finals, partial, answered>>
        /\ \/ UNCHANGED <<unheard, confirm>> /\ utterance' \in {utterance, utterance + 1}
           \/ unheard' = utterance + 1 /\ utterance' = utterance /\ confirm' = NotConfirming
  <1> USE WordsAreNumbers
  <1>1. TypeOK /\ TypeOK' /\ unheard' \in Nat /\ ConfirmHasWords
    BY SessionAssumption DEF IInv, TypeOK
  <1>2. ASSUME Listens PROVE OrderInv'
    <2>1. Transcript' = Transcript
      BY <1>2, WordsKept
    <2>2. unheard <= unheard' /\ unheard' <= utterance' + 1
      BY <1>1, <1>2 DEF OrderInv, InOrder
    <2>3. \/ confirm'.at = "none"
          \/ confirm.at # "none" /\ confirm.text \in Texts /\ confirm'.text = confirm.text
      BY <1>1, <1>2 DEF ConfirmHasWords, NotConfirming
    <2> QED
      BY <1>1, <1>2, <2>1, <2>2, <2>3, OrderKept
  <1>3. CASE Client
    <2>1. CASE StartSession \/ RestartSession \/ StopSession \/ HangUp
      <3>1. Listens
        BY <2>1
        DEF StartSession, RestartSession, StopSession, HangUp, turnVars, bargeVars, history
      <3> QED
        BY <1>2, <3>1
    <2>2. CASE TextQuery
      <3>1. Listens
        BY <2>2 DEF TextQuery, turnVars, bargeVars, history
      <3> QED
        BY <1>2, <3>1
    <2> QED
      BY <1>3, <2>1, <2>2 DEF Client
  <1>4. CASE Closing
    <2>1. Listens
      BY <1>4 DEF Closing, ShutdownTimers, StopStt, Shutdown, turnVars, bargeVars, history
    <2> QED
      BY <1>2, <2>1
  <1>5. CASE SpeechStart \/ SpeechEnd \/ CandidateSpeechEnds \/ ExpireBargeCandidate \/ PlaybackEnds
    <2>1. Listens
      BY <1>5
      DEF SpeechStart, SpeechEnd, CandidateSpeechEnds, ExpireBargeCandidate, PlaybackEnds,
          OnSpeechStart, OnSpeechEnd, turnVars, inputVars, bargeVars, history
    <2> QED
      BY <1>2, <2>1
  <1>6. CASE Recogniser
    BY <1>6, RecogniserOrder
  <1>7. CASE ConfirmCancels
    <2>1. Transcript' = Transcript
      BY <1>7, WordsKept DEF ConfirmCancels, OnSpeechStart
    <2>2. /\ answered' = answered /\ unheard' = unheard /\ utterance' = utterance
          /\ confirm.at # "none" /\ confirm'.text = confirm.text
      BY <1>1, <1>7 DEF ConfirmCancels, inputVars, history, TypeOK
    <2>3. unheard <= unheard' /\ unheard' <= utterance' + 1 /\ confirm.text \in Texts
      BY <1>1, <2>2 DEF OrderInv, InOrder, ConfirmHasWords
    <2> QED
      BY <1>1, <2>1, <2>2, <2>3, OrderKept
  <1>8. CASE ConfirmFeeds
    <2>1. confirm.at # "none" /\ confirm.text \in Texts
      BY <1>1, <1>8 DEF ConfirmFeeds, ConfirmHasWords
    <2>2. Transcript' \subseteq Transcript \cup {confirm.text}
      BY <1>8, WordsFed DEF ConfirmFeeds
    <2>3. /\ answered' = answered /\ unheard' = unheard /\ utterance' = utterance
          /\ confirm'.at = "none"
      BY <1>8 DEF ConfirmFeeds, inputVars, history, NotConfirming
    <2>4. \A t \in Used : t <= confirm.text
      BY <2>1 DEF OrderInv, InOrder
    <2>5. confirm.text <= unheard' /\ unheard' <= utterance' + 1
      BY <2>1, <2>3 DEF OrderInv, InOrder
    <2> QED
      BY <1>1, <2>1, <2>2, <2>3, <2>4, <2>5, OrderFed
  <1>9. CASE TimerRuns
    <2>1. Transcript' \subseteq Transcript
      BY <1>9, WordsKept, WordsReset
      DEF TimerRuns, EndpointAfterSilence, SettleGivesUp, IgnoreEmptyTurn
    <2>2. UNCHANGED <<answered, unheard, utterance, confirm>>
      BY <1>9 DEF TimerRuns, inputVars, bargeVars, history
    <2>3. unheard <= unheard' /\ unheard' <= utterance' + 1
      BY <1>1, <2>2 DEF OrderInv, InOrder
    <2>4. \/ confirm'.at = "none"
          \/ confirm.at # "none" /\ confirm.text \in Texts /\ confirm'.text = confirm.text
      BY <1>1, <2>2 DEF ConfirmHasWords
    <2> QED
      BY <1>1, <2>1, <2>2, <2>3, <2>4, OrderKept
  <1>10. CASE OnTurnFinalized
    <2>1. Transcript' = {} /\ answered' = answered \cup Transcript /\ Used' = Used
      BY <1>10, WordsReset DEF OnTurnFinalized, FinalizeTurn, Used
    <2>2. UNCHANGED <<unheard, utterance, confirm>>
      BY <1>10 DEF OnTurnFinalized, inputVars, bargeVars
    <2> QED
      BY <2>1, <2>2 DEF OrderInv, InOrder, OnlyTheLastIsLate
  <1>11. ASSUME NEW g \in Gens, ResponseMoves(g) PROVE OrderInv'
    <2>1. Listens
      BY <1>11
      DEF ResponseMoves, Responds, RepliesToVerification, RepliesToDuplicate,
          WaitsForInference, EntersInference, LeavesInference, Discards, Challenges,
          Localized, StartsSpeaking, StreamEnds, Finishes, Speaks, ResumesRequest, GivesUp,
          sessionOnly, SetConfig, turnVars, inputVars, bargeVars, history
    <2> QED
      BY <1>2, <2>1
  <1>12. CASE UNCHANGED vars
    BY <1>2, <1>12 DEF vars, turnVars, inputVars, bargeVars, history
  <1> QED
    BY <1>3, <1>4, <1>5, <1>6, <1>7, <1>8, <1>9, <1>10, <1>11, <1>12
    DEF Next, Confirming, Timers, ResponseMoves

(* Of all answered utterances only the last can still get words into a     *)
(* turn, although on_transcript suspends twice with words in hand          *)
(* (runtime.py's on_transcript, awaited by the recogniser's receiver).     *)
THEOREM LateWordsAreTheLast == Spec => []OnlyTheLastIsLate
  <1>1. Init => OrderInv
    <2> SUFFICES ASSUME Init PROVE OrderInv
      OBVIOUS
    <2>1. Used = {} /\ answered = {} /\ confirm.at = "none"
      BY DEF Init, TurnInit, Used, Transcript, NotConfirming
    <2> QED
      BY <2>1 DEF Init, OrderInv, InOrder, OnlyTheLastIsLate
  <1>2. IInv /\ IInv' /\ OrderInv /\ [Next]_vars => OrderInv'
    BY OrderStep
  <1>3. OrderInv => OnlyTheLastIsLate
    BY DEF OrderInv
  <1> QED
    BY <1>1, <1>2, <1>3, Invariance, PTL DEF Spec

-----------------------------------------------------------------------------
(* Which steps move a response.                                            *)
LEMMA StepKinds ==
    ASSUME [Next]_vars
    PROVE  \/ TextQuery \/ OnTurnFinalized
           \/ \E u \in Texts, final \in BOOLEAN : TranscriptConfirmsBargeIn(u, final)
           \/ ConfirmCancels
           \/ \E g \in Gens : ResponseMoves(g)
           \/ UNCHANGED taskVars
  <1>1. CASE Client \/ Closing
    BY <1>1
    DEF Client, Closing, StartSession, RestartSession, StopSession, HangUp, ShutdownTimers,
        StopStt
  <1>2. CASE SpeechStart \/ SpeechEnd \/ CandidateSpeechEnds \/ ExpireBargeCandidate
             \/ PlaybackEnds
    BY <1>2 DEF SpeechStart, SpeechEnd, CandidateSpeechEnds, ExpireBargeCandidate, PlaybackEnds
  <1>3. CASE Recogniser
    BY <1>3 DEF Recogniser, HeardNothing, TranscriptIgnored, TranscriptFeeds
  <1>4. CASE Confirming \/ Timers
    BY <1>4 DEF Confirming, ConfirmFeeds, Timers, TimerRuns
  <1>5. CASE UNCHANGED vars
    BY <1>5 DEF vars
  <1> QED
    BY <1>1, <1>2, <1>3, <1>4, <1>5 DEF Next, ResponseMoves

(* What is in inference stays there unless its own task moves on: a newer  *)
(* turn keeps it, and a barge-in cancels the current task only when the    *)
(* phase, which is that of the task in the lock, is another.               *)
LEMMA OnlyItsTaskMoves ==
    ASSUME IInv, [Next]_vars, NEW g \in Gens, at[g] = "inference", at'[g] # "inference"
    PROVE  LeavesInference(g) \/ GivesUp(g)
  <1> USE Parts
  <1>1. CASE TextQuery \/ OnTurnFinalized
    <2>1. g # generation + 1
      BY GensAreNumbers, Numbers DEF TaskPart, BudgetPart, TasksInv, FutureIsEmpty
    <2> QED
      BY <1>1, <2>1 DEF TextQuery, OnTurnFinalized, ScheduleResponse
  <1>2. CASE ConfirmCancels
    <2>1. at[current] # "inference" \/ phase = "inference" \/ current = 0
      BY DEF TaskPart, TasksInv, CurrentIsKnown
    <2> QED
      BY <1>2, <2>1, GensAreNumbers DEF ConfirmCancels, Cancel
  <1>3. ASSUME NEW u \in Texts, NEW final \in BOOLEAN, TranscriptConfirmsBargeIn(u, final)
        PROVE  FALSE
    BY <1>3 DEF TranscriptConfirmsBargeIn
  <1>4. ASSUME NEW h \in Gens, ResponseMoves(h)
        PROVE  h = g \/ at'[g] = at[g]
    BY <1>4
    DEF ResponseMoves, Responds, RepliesToVerification, RepliesToDuplicate,
        WaitsForInference, EntersInference, LeavesInference, Discards, Localized,
        StartsSpeaking, StreamEnds, Finishes, Speaks, ResumesRequest, GivesUp, Ends, Goes,
        taskVars, TaskPart, TaskTypeOK
  <1>5. ResponseMoves(g) => LeavesInference(g) \/ GivesUp(g)
    BY DEF ResponseMoves, Responds, RepliesToVerification, RepliesToDuplicate,
           WaitsForInference, EntersInference, Localized, StartsSpeaking, StreamEnds,
           Finishes, Speaks, ResumesRequest
  <1> QED
    BY <1>1, <1>2, <1>3, <1>4, <1>5, StepKinds DEF taskVars

(* A request in inference is never cancelled, neither by a newer turn nor  *)
(* by a barge-in (the comment at the head of _schedule_response).          *)
THEOREM InferenceIsNotCancelled == Spec => InferenceRunsToEnd
  <1>1. ASSUME IInv, [Next]_vars
        PROVE  [\A g \in Gens : at[g] = "inference" /\ at'[g] # "inference" =>
                    LeavesInference(g) \/ GivesUp(g)]_vars
    BY <1>1, OnlyItsTaskMoves
  <1> QED
    BY <1>1, Invariance, PTL DEF Spec, InferenceRunsToEnd

-----------------------------------------------------------------------------
(* The session carries out Conversation: what each step means there.       *)
LEMMA AbstractTurns == Conv!Turns = Gens
  BY DEF Conv!Turns, Gens

(* A session that was not started is an empty conversation.              *)
LEMMA RefinesInit == Init => Conv!ConversationInit
  BY AbstractTurns DEF Init, Conv!ConversationInit, Stage

(* A step that moves only response g moves only its abstract stage.        *)
LEMMA StageMoves ==
    ASSUME NEW g \in Gens, \A h \in Gens \ {g} : at'[h] = at[h] /\ via'[h] = via[h]
    PROVE  /\ Conv!Moves(g, Stage(g), Stage(g)')
           /\ Stage(g)' = Stage(g) =>
                [h \in Gens |-> Stage(h)]' = [h \in Gens |-> Stage(h)]
  BY DEF Conv!Moves, Stage

(* A new turn is accepted.                                               *)
LEMMA SchedulesRefines ==
    ASSUME ScheduleResponse, generation + 1 \in Gens, TaskTypeOK
    PROVE  Conv!Accept
  <1>1. generation < 3 * MaxUtterances + MaxTyped
    BY GensAreNumbers, SessionAssumption DEF Gens, TaskTypeOK
  <1>2. \A g \in Gens :
            Stage(g)' = IF g = generation + 1 THEN "starting"
                        ELSE IF Stage(g) = "inference" THEN "inference" ELSE "none"
    BY DEF ScheduleResponse, Stage
  <1> QED
    BY <1>1, <1>2, AbstractTurns DEF ScheduleResponse, Conv!Accept

(* A cancelled response ends; there may be none.                         *)
LEMMA CancelsRefines ==
    ASSUME ConfirmCancels, TaskTypeOK
    PROVE  (\E g \in Gens : Conv!Ends(g)) \/ UNCHANGED Conv!conversationVars
  <1>1. UNCHANGED <<generation, challenge>>
    BY DEF ConfirmCancels
  <1>2. ASSUME NEW g \in Gens, g = current, at[g] # "none", phase # "inference"
        PROVE  Conv!Ends(g)
    <2>1. \A h \in Gens \ {g} : at'[h] = at[h] /\ via'[h] = via[h]
      BY <1>2 DEF ConfirmCancels, Cancel
    <2>2. Stage(g)' = "none" /\ Stage(g) # "none"
      BY <1>2 DEF ConfirmCancels, Cancel, Stage
    <2> QED
      BY <1>1, <1>2, <2>1, <2>2, StageMoves DEF Conv!Ends, Conv!Moves
  <1>3. CASE ~(current \in Gens /\ at[current] # "none" /\ phase # "inference")
    <2>1. \A h \in Gens : Stage(h)' = Stage(h)
      BY <1>3 DEF ConfirmCancels, Cancel, Stage
    <2> QED
      BY <1>1, <2>1 DEF Conv!conversationVars
  <1> QED
    BY <1>2, <1>3

(* The finally block ends a response.                                    *)
LEMMA EndsRefines ==
    ASSUME TaskTypeOK, NEW g \in Gens, NEW ph, at[g] # "none", Ends(g, ph)
    PROVE  Conv!Ends(g)
  <1>1. \A h \in Gens \ {g} : at'[h] = at[h] /\ via'[h] = via[h]
    BY DEF Ends, Goes, TaskTypeOK
  <1>2. Stage(g)' = "none" /\ Stage(g) # "none"
    BY DEF Ends, Goes, TaskTypeOK, Stage
  <1> QED
    BY <1>1, <1>2, StageMoves DEF Ends, Conv!Ends, Conv!Moves

(* Each stretch of a response is a transition there, or none.            *)
LEMMA ResponseRefines ==
    ASSUME TaskTypeOK, TasksInv, NEW g \in Gens, ResponseMoves(g)
    PROVE  Conv!ConversationNext \/ UNCHANGED Conv!conversationVars
  <1> USE AbstractTurns
  <1>0. ASSUME generation' = generation, challenge' = challenge, Stage(g)' = Stage(g),
               \A h \in Gens \ {g} : at'[h] = at[h] /\ via'[h] = via[h]
        PROVE  UNCHANGED Conv!conversationVars
    BY <1>0, StageMoves DEF Conv!conversationVars
  <1>1. CASE RepliesToVerification(g)
    <2>1. /\ generation' = generation /\ challenge = "awaiting"
          /\ \A h \in Gens \ {g} : at'[h] = at[h] /\ via'[h] = via[h]
          /\ Stage(g) = "starting"
          /\ \/ challenge' = "none" /\ Stage(g)' = "confirming"
             \/ challenge' \in {"awaiting", "locked"} /\ Stage(g)' = "replying"
      BY <1>1 DEF RepliesToVerification, Goes, TaskTypeOK, Stage
    <2>2. Conv!Moves(g, Stage(g), Stage(g)')
      BY <2>1, StageMoves
    <2> QED
      BY <2>1, <2>2 DEF Conv!ConversationNext, Conv!Verifies, Conv!Reprompts, Conv!Locks
  <1>2. CASE RepliesToDuplicate(g) \/ WaitsForInference(g)
    <2>1. /\ UNCHANGED <<generation, challenge>> /\ challenge # "awaiting"
          /\ \A h \in Gens \ {g} : at'[h] = at[h] /\ via'[h] = via[h]
          /\ Stage(g) = "starting" /\ Stage(g)' \in {"replying", "waiting"}
      BY <1>2 DEF RepliesToDuplicate, WaitsForInference, Goes, TaskTypeOK, Stage
    <2>2. Conv!Moves(g, Stage(g), Stage(g)')
      BY <2>1, StageMoves
    <2> QED
      BY <2>1, <2>2 DEF Conv!ConversationNext, Conv!Replies, Conv!Waits
  <1>3. CASE EntersInference(g)
    <2>1. /\ UNCHANGED <<generation, challenge>>
          /\ \A h \in Gens \ {g} : at'[h] = at[h] /\ via'[h] = via[h]
          /\ Stage(g) = "waiting" /\ Stage(g)' = "inference"
          /\ \A h \in Gens : Stage(h) # "inference"
      BY <1>3 DEF EntersInference, Goes, TaskTypeOK, Stage
    <2>2. Conv!Moves(g, "waiting", "inference")
      BY <2>1, StageMoves
    <2> QED
      BY <2>1, <2>2 DEF Conv!ConversationNext, Conv!Enters
  <1>4. CASE LeavesInference(g) /\ g = generation
    <2>1. /\ generation' = generation
          /\ \A h \in Gens \ {g} : at'[h] = at[h] /\ via'[h] = via[h]
          /\ Stage(g) = "inference"
          /\ \/ challenge' = challenge
             \/ challenge' = IF challenge = "locked" THEN "locked" ELSE "awaiting"
      BY <1>4 DEF LeavesInference, Challenges, Goes, TaskTypeOK, Stage
    <2>2. Stage(g)' = "replying"
      BY <1>4 DEF LeavesInference, Challenges, Goes, TaskTypeOK, TasksInv, VerifiedIsReplying,
                  Stage
    <2>3. Conv!Moves(g, "inference", "replying")
      BY <2>1, <2>2, StageMoves
    <2> QED
      BY <1>4, <2>1, <2>3 DEF Conv!ConversationNext, Conv!Answers, Conv!Challenges
  <1>5. CASE LeavesInference(g) /\ g # generation
    <2>1. at[g] # "none" /\ Ends(g, "localizing")
      BY <1>5 DEF LeavesInference, Discards
    <2> QED
      BY <2>1, EndsRefines DEF Conv!ConversationNext
  <1>6. CASE Localized(g) \/ StartsSpeaking(g) \/ StreamEnds(g)
    <2>1. CASE at[g] # "none" /\ Ends(g, phase)
      BY <2>1, EndsRefines DEF Conv!ConversationNext
    <2>2. CASE ~(at[g] # "none" /\ Ends(g, phase))
      <3>1. /\ UNCHANGED <<generation, challenge, via>>
            /\ \A h \in Gens \ {g} : at'[h] = at[h]
            /\ at[g] \in {"localizing", "sending", "speaking"}
            /\ at'[g] \in {"sending", "speaking", "draining"}
        BY <1>6, <2>2 DEF Localized, StartsSpeaking, StreamEnds, Goes, TaskTypeOK
      <3>2. Stage(g)' = Stage(g)
        BY <3>1 DEF Stage
      <3> QED
        BY <1>0, <3>1, <3>2
    <2> QED
      BY <2>1, <2>2
  <1>7. CASE Finishes(g) \/ GivesUp(g)
    <2>1. at[g] # "none" /\ Ends(g, phase)
      BY <1>7 DEF Finishes, GivesUp
    <2> QED
      BY <2>1, EndsRefines DEF Conv!ConversationNext
  <1>8. CASE Speaks(g)
    <2>1. CASE at[g] # "none" /\ Ends(g, phase)
      BY <2>1, EndsRefines DEF Conv!ConversationNext
    <2>2. CASE UNCHANGED taskVars
      <3>1. UNCHANGED <<generation, challenge, via, at>>
        BY <2>2 DEF taskVars
      <3>2. Stage(g)' = Stage(g)
        BY <3>1 DEF Stage
      <3> QED
        BY <1>0, <3>1, <3>2
    <2> QED
      BY <1>8, <2>1, <2>2 DEF Speaks
  <1>9. CASE ResumesRequest(g)
    <2>1. /\ UNCHANGED <<generation, challenge>> /\ g = generation
          /\ \A h \in Gens \ {g} : at'[h] = at[h] /\ via'[h] = via[h]
          /\ Stage(g) = "confirming" /\ Stage(g)' = "starting"
      BY <1>9 DEF ResumesRequest, Goes, TaskTypeOK, Stage
    <2>2. Conv!Moves(g, "confirming", "starting")
      BY <2>1, StageMoves
    <2> QED
      BY <2>1, <2>2 DEF Conv!ConversationNext, Conv!Resumes
  <1> QED
    BY <1>1, <1>2, <1>3, <1>4, <1>5, <1>6, <1>7, <1>8, <1>9 DEF ResponseMoves, Responds

(* Every step of the session is one there, or none.                      *)
LEMMA RefinesStep ==
    ASSUME IInv, [Next]_vars
    PROVE  [Conv!ConversationNext]_(Conv!conversationVars)
  <1> USE Parts
  <1>1. CASE TextQuery \/ OnTurnFinalized
    <2>1. generation + 1 \in Gens
      <3>1. CASE TextQuery
        BY <3>1, GenerationLeft DEF TextQuery
      <3>2. CASE OnTurnFinalized
        <4>1. generation' \in Gens \cup {0}
          BY <3>2, OnTurnFinalizedStep, PartsNext DEF TaskPart, TaskTypeOK
        <4>2. generation' = generation + 1 /\ generation \in Nat
          BY <3>2, Numbers DEF OnTurnFinalized, ScheduleResponse, TaskPart, BudgetPart
        <4> QED
          BY <4>1, <4>2
      <3> QED
        BY <1>1, <3>1, <3>2
    <2> QED
      BY <1>1, <2>1, SchedulesRefines DEF TextQuery, OnTurnFinalized, TaskPart, Conv!ConversationNext
  <1>2. ASSUME NEW u \in Texts, NEW final \in BOOLEAN, TranscriptConfirmsBargeIn(u, final)
        PROVE  Conv!Interrupt
    <2>1. generation + 1 \in Gens
      BY <1>2, GenerationLeft DEF TranscriptConfirmsBargeIn, TurnDue, CandidateDue, ConfirmDue
    <2>2. generation < 3 * MaxUtterances + MaxTyped
      BY <2>1, Numbers, SessionAssumption DEF Gens, TaskPart, BudgetPart
    <2>3. \A g \in Gens : Stage(g)' = Stage(g)
      BY <1>2 DEF TranscriptConfirmsBargeIn, Stage
    <2> QED
      BY <1>2, <2>2, <2>3 DEF TranscriptConfirmsBargeIn, Conv!Interrupt
  <1>3. CASE ConfirmCancels
    BY <1>3, CancelsRefines, AbstractTurns DEF TaskPart, Conv!ConversationNext
  <1>4. ASSUME NEW g \in Gens, ResponseMoves(g)
        PROVE  Conv!ConversationNext \/ UNCHANGED Conv!conversationVars
    BY <1>4, ResponseRefines DEF TaskPart
  <1>5. CASE UNCHANGED taskVars
    <2>1. UNCHANGED <<generation, challenge>> /\ \A g \in Gens : Stage(g)' = Stage(g)
      BY <1>5 DEF taskVars, Stage
    <2> QED
      BY <2>1 DEF Conv!conversationVars
  <1> QED
    BY <1>1, <1>2, <1>3, <1>4, <1>5, StepKinds DEF Conv!ConversationNext

(* The session carries out Conversation, for any number of utterances,     *)
(* typed queries, barge-ins and exits (_schedule_response, _respond).      *)
THEOREM Refinement == Spec => ImplementsConversation
  <1>1. Init => Conv!ConversationInit
    BY RefinesInit
  <1>2. IInv /\ [Next]_vars => [Conv!ConversationNext]_(Conv!conversationVars)
    BY RefinesStep
  <1> QED
    BY <1>1, <1>2, Invariance, PTL DEF Spec, ImplementsConversation, Conv!ConversationSpec

(* Conversation's DigitsStayLocal, of the session itself: while a code is  *)
(* awaited no response is in the router or on its way there.               *)
CodesStayLocal ==
    challenge = "awaiting" => \A g \in Gens : at[g] \notin {"waiting", "inference"}

(* A turn that asks for a code is alone in the router and nobody waits.  *)
LEMMA CodesStep ==
    ASSUME IInv, CodesStayLocal, [Next]_vars
    PROVE  CodesStayLocal'
  <1> USE Parts DEF CodesStayLocal
  <1>1. CASE TextQuery \/ OnTurnFinalized
    BY <1>1 DEF TextQuery, OnTurnFinalized, ScheduleResponse
  <1>2. ASSUME NEW u \in Texts, NEW final \in BOOLEAN, TranscriptConfirmsBargeIn(u, final)
        PROVE  CodesStayLocal'
    BY <1>2 DEF TranscriptConfirmsBargeIn
  <1>3. CASE ConfirmCancels
    BY <1>3 DEF ConfirmCancels, Cancel
  <1>4. ASSUME NEW g \in Gens, ResponseMoves(g)
        PROVE  CodesStayLocal'
    <2>1. CASE LeavesInference(g) /\ g = generation
      <3>1. \A h \in Gens \ {g} : at[h] # "inference"
        BY <2>1 DEF LeavesInference, TaskPart, TasksInv, OneInInference
      <3>2. \A h \in Gens \ {g} : at[h] # "waiting"
        BY <2>1, GensAreNumbers
        DEF LeavesInference, TaskPart, TasksInv, OthersAreStale, FutureIsEmpty
      <3>3. \A h \in Gens : at'[h] = IF h = g THEN "localizing" ELSE at[h]
        BY <2>1 DEF LeavesInference, Goes, TaskPart, TaskTypeOK
      <3> QED
        BY <3>1, <3>2, <3>3
    <2>2. CASE ~(LeavesInference(g) /\ g = generation)
      <3>1. /\ challenge' = "awaiting" => challenge = "awaiting"
            /\ \A h \in Gens \ {g} : at'[h] = at[h]
            /\ \/ at'[g] \notin {"waiting", "inference"}
               \/ at'[g] = at[g]
               \/ at[g] = "waiting" \/ challenge # "awaiting"
        BY <1>4, <2>2
        DEF ResponseMoves, Responds, RepliesToVerification, RepliesToDuplicate,
            WaitsForInference, EntersInference, LeavesInference, Discards, Localized,
            StartsSpeaking, StreamEnds, Finishes, Speaks, ResumesRequest, GivesUp, Ends,
            Goes, taskVars, TaskPart, TaskTypeOK
      <3> QED
        BY <3>1
    <2> QED
      BY <2>1, <2>2
  <1>5. CASE UNCHANGED taskVars
    BY <1>5 DEF taskVars
  <1> QED
    BY <1>1, <1>2, <1>3, <1>4, <1>5, StepKinds

(* Nothing that is said while a code is awaited reaches the router (the    *)
(* comment before consume_input in _respond).                              *)
THEOREM CodesNeverReachRouter == Spec => []CodesStayLocal
  <1>1. Init => CodesStayLocal
    BY DEF Init, CodesStayLocal
  <1>2. IInv /\ CodesStayLocal /\ [Next]_vars => CodesStayLocal'
    BY CodesStep
  <1> QED
    BY <1>1, <1>2, Invariance, PTL DEF Spec

-----------------------------------------------------------------------------
(* The current task is alive: current_task is set back whenever a task     *)
(* ends or is cancelled.                                                   *)
CurrentIsAlive == current # 0 => at[current] # "none"

(* From the right code to the router nobody is asked for another one.      *)
ResumedIsNoCode ==
    \A g \in Gens :
        via[g] = "verified" \/ (at[g] = "starting" /\ via[g] = "resumed") =>
            challenge # "awaiting"

(* Whoever ends or cancels the current task also sets it back.             *)
LEMMA AliveStep ==
    ASSUME IInv, CurrentIsAlive, [Next]_vars
    PROVE  CurrentIsAlive'
  <1> USE Parts, GensAreNumbers DEF CurrentIsAlive
  <1>1. CASE TextQuery \/ OnTurnFinalized
    <2>1. ScheduleResponse /\ generation' = generation + 1
      BY <1>1 DEF TextQuery, OnTurnFinalized, ScheduleResponse
    <2>2. generation' \in Gens
      <3>1. generation \in Nat
        BY Numbers DEF TaskPart, BudgetPart
      <3>2. generation' \in Gens \cup {0}
        BY StepInv, PartsNext DEF TaskPart, TaskTypeOK
      <3> QED
        BY <2>1, <3>1, <3>2
    <2> QED
      BY <2>1, <2>2 DEF ScheduleResponse
  <1>2. ASSUME NEW u \in Texts, NEW final \in BOOLEAN, TranscriptConfirmsBargeIn(u, final)
        PROVE  CurrentIsAlive'
    BY <1>2 DEF TranscriptConfirmsBargeIn
  <1>3. CASE ConfirmCancels
    BY <1>3 DEF ConfirmCancels
  <1>4. ASSUME NEW g \in Gens, ResponseMoves(g)
        PROVE  CurrentIsAlive'
    <2>1. \/ at'[g] # "none" /\ current' = current /\ (\A h \in Gens \ {g} : at'[h] = at[h])
          \/ /\ current' = IF current = g THEN 0 ELSE current
             /\ \A h \in Gens \ {g} : at'[h] = at[h]
      BY <1>4
      DEF ResponseMoves, Responds, RepliesToVerification, RepliesToDuplicate,
          WaitsForInference, EntersInference, LeavesInference, Discards, Localized,
          StartsSpeaking, StreamEnds, Finishes, Speaks, ResumesRequest, GivesUp, Ends, Goes,
          taskVars, TaskPart, TaskTypeOK
    <2> QED
      BY <2>1 DEF TaskPart, TaskTypeOK
  <1>5. CASE UNCHANGED taskVars
    BY <1>5 DEF taskVars
  <1> QED
    BY <1>1, <1>2, <1>3, <1>4, <1>5, StepKinds

(* Only the newest response can ask for a code, and it finds itself alone. *)
LEMMA ResumedStep ==
    ASSUME IInv, ResumedIsNoCode, [Next]_vars
    PROVE  ResumedIsNoCode'
  <1> USE Parts DEF ResumedIsNoCode
  <1>1. CASE TextQuery \/ OnTurnFinalized
    BY <1>1 DEF TextQuery, OnTurnFinalized, ScheduleResponse
  <1>2. ASSUME NEW u \in Texts, NEW final \in BOOLEAN, TranscriptConfirmsBargeIn(u, final)
        PROVE  ResumedIsNoCode'
    BY <1>2 DEF TranscriptConfirmsBargeIn
  <1>3. CASE ConfirmCancels
    BY <1>3 DEF ConfirmCancels, Cancel
  <1>4. ASSUME NEW g \in Gens, ResponseMoves(g)
        PROVE  ResumedIsNoCode'
    <2>1. CASE LeavesInference(g) /\ g = generation
      <3>1. \A h \in Gens \ {g} : at[h] = "none"
        BY <2>1, GensAreNumbers
        DEF LeavesInference, TaskPart, TasksInv, OthersAreStale, OneInInference, FutureIsEmpty
      <3>2. /\ \A h \in Gens : at'[h] = IF h = g THEN "localizing" ELSE at[h]
            /\ \A h \in Gens \ {g} : via'[h] = via[h]
            /\ via'[g] = "reprompt" \/ UNCHANGED <<via, challenge>>
        BY <2>1 DEF LeavesInference, Goes, Challenges, TaskPart, TaskTypeOK
      <3>3. \A h \in Gens : at[h] = "none" => via[h] # "verified"
        BY DEF TaskPart, TasksInv, VerifiedIsReplying
      <3> QED
        BY <3>1, <3>2, <3>3
    <2>2. CASE ~(LeavesInference(g) /\ g = generation)
      <3>1. /\ challenge' = "awaiting" => challenge = "awaiting"
            /\ \A h \in Gens \ {g} : at'[h] = at[h] /\ via'[h] = via[h]
        BY <1>4, <2>2
        DEF ResponseMoves, Responds, RepliesToVerification, RepliesToDuplicate,
            WaitsForInference, EntersInference, LeavesInference, Discards, Localized,
            StartsSpeaking, StreamEnds, Finishes, Speaks, ResumesRequest, GivesUp, Ends,
            Goes, taskVars, TaskPart, TaskTypeOK
      <3>2. \/ via'[g] = "verified" /\ (via[g] = "verified" \/ challenge' = "none")
            \/ via'[g] = "resumed" /\ at'[g] = "starting" /\ via[g] = "verified"
            \/ via'[g] = "resumed" /\ at'[g] # "starting"
            \/ via'[g] = via[g] /\ at'[g] = at[g]
            \/ via'[g] \notin {"verified", "resumed"}
        BY <1>4, <2>2
        DEF ResponseMoves, Responds, RepliesToVerification, RepliesToDuplicate,
            WaitsForInference, EntersInference, LeavesInference, Discards, Localized,
            StartsSpeaking, StreamEnds, Finishes, Speaks, ResumesRequest, GivesUp, Ends,
            Goes, taskVars, TaskPart, TaskTypeOK
      <3> QED
        BY <3>1, <3>2
    <2> QED
      BY <2>1, <2>2
  <1>5. CASE UNCHANGED taskVars
    BY <1>5 DEF taskVars
  <1> QED
    BY <1>1, <1>2, <1>3, <1>4, <1>5, StepKinds

(* The request that a code was asked for is never itself taken for a code: *)
(* between the right code and the router no new challenge is open, however *)
(* turns, barge-ins and stale results fall (_respond's recursive call,     *)
(* which passes consume_input once more).                                  *)
THEOREM ResumedRequestIsNoCode == Spec => []ResumedIsNoCode
  <1>1. Init => ResumedIsNoCode
    BY DEF Init, ResumedIsNoCode
  <1>2. IInv /\ ResumedIsNoCode /\ [Next]_vars => ResumedIsNoCode'
    BY ResumedStep
  <1> QED
    BY <1>1, <1>2, Invariance, PTL DEF Spec

(* The awaits a response still has before it, but for those of a stream    *)
(* that goes on yielding: a right code is followed by one more round.      *)
RoundLeft(g) == IF via[g] = "verified" THEN 7 ELSE 0

StagesLeft(g) ==
    CASE at[g] = "none" -> 0
      [] at[g] = "starting" -> IF via[g] = "resumed" THEN 7 ELSE 12
      [] at[g] = "waiting" -> 6
      [] at[g] = "inference" -> 5
      [] at[g] = "localizing" -> 4 + RoundLeft(g)
      [] at[g] = "sending" -> 3 + RoundLeft(g)
      [] at[g] = "speaking" -> 2 + RoundLeft(g)
      [] at[g] = "draining" -> 1 + RoundLeft(g)

RespondsOnce ==
    /\ current # 0 => at[current] # "none"
    /\ \A g \in Gens :
        /\ StagesLeft(g) \in 0 .. 12
        /\ at'[g] # at[g] => generation < g \/ StagesLeft(g)' < StagesLeft(g)

(* What a stage becomes when its response task moves: all but the drained  *)
(* confirmation of a code go towards the end.                              *)
LEMMA StageRunsDown ==
    ASSUME IInv, ResumedIsNoCode, NEW g \in Gens, ResponseMoves(g), at'[g] # at[g]
    PROVE  StagesLeft(g)' < StagesLeft(g)
  <1> USE Parts DEF StagesLeft, RoundLeft
  <1>1. /\ at \in [Gens -> Stages] /\ via \in [Gens -> Paths]
        /\ via[g] = "verified" => at[g] \in {"localizing", "sending", "speaking", "draining"}
    BY DEF TaskPart, TaskTypeOK, TasksInv, VerifiedIsReplying
  <1>2. ASSUME NEW ph, Ends(g, ph), at[g] # "none"
        PROVE  StagesLeft(g)' < StagesLeft(g)
    BY <1>1, <1>2 DEF Ends, Goes, Stages
  <1>3. CASE RepliesToVerification(g)
    <2>1. at[g] = "starting" /\ via[g] # "resumed" /\ at'[g] = "localizing"
      BY <1>1, <1>3 DEF RepliesToVerification, Goes, ResumedIsNoCode
    <2> QED
      BY <2>1
  <1>4. CASE RepliesToDuplicate(g)
    BY <1>1, <1>4 DEF RepliesToDuplicate, Goes
  <1>5. CASE WaitsForInference(g) \/ EntersInference(g)
    BY <1>1, <1>5 DEF WaitsForInference, EntersInference, Goes
  <1>6. CASE LeavesInference(g)
    <2>1. CASE g # generation
      BY <1>2, <1>6, <2>1 DEF LeavesInference, Discards
    <2>2. CASE g = generation
      <3>1. at[g] = "inference" /\ at'[g] = "localizing" /\ via'[g] # "verified"
        BY <1>1, <1>6, <2>2 DEF LeavesInference, Challenges, Goes
      <3> QED
        BY <3>1
    <2> QED
      BY <2>1, <2>2
  <1>7. CASE Localized(g)
    <2>1. CASE g = generation \/ via[g] = "duplicate"
      BY <1>1, <1>7, <2>1 DEF Localized, Goes
    <2>2. CASE ~(g = generation \/ via[g] = "duplicate")
      BY <1>2, <1>7, <2>2 DEF Localized
    <2> QED
      BY <2>1, <2>2
  <1>8. CASE StartsSpeaking(g) \/ StreamEnds(g)
    BY <1>1, <1>8 DEF StartsSpeaking, StreamEnds, Goes
  <1>9. CASE Finishes(g) \/ GivesUp(g)
    BY <1>2, <1>9 DEF Finishes, GivesUp
  <1>10. CASE Speaks(g)
    BY <1>2, <1>10 DEF Speaks, taskVars
  <1>11. CASE ResumesRequest(g)
    BY <1>1, <1>11 DEF ResumesRequest, Goes
  <1> QED
    BY <1>3, <1>4, <1>5, <1>6, <1>7, <1>8, <1>9, <1>10, <1>11 DEF ResponseMoves, Responds

(* The assistant is never busy with a response that is gone, each response *)
(* is at most twelve stages from its end and comes nearer with every       *)
(* stage, and one that has ended never returns: what ListensAgain needs    *)
(* besides fairness (_assistant_busy, _respond's finally block).           *)
THEOREM ResponsesRunOut == Spec => [][RespondsOnce]_vars
  <1>1. ASSUME IInv, CurrentIsAlive, ResumedIsNoCode, [Next]_vars
        PROVE  RespondsOnce
    <2> USE <1>1, Parts
    <2>1. at \in [Gens -> Stages] /\ via \in [Gens -> Paths] /\ generation \in Nat
      BY Numbers DEF TaskPart, TaskTypeOK, BudgetPart
    <2>2. ASSUME NEW g \in Gens
          PROVE  StagesLeft(g) \in 0 .. 12 /\ (at[g] # "none" => StagesLeft(g) > 0)
      BY <2>1 DEF StagesLeft, RoundLeft, Stages
    <2>3. ASSUME NEW g \in Gens, at'[g] # at[g]
          PROVE  generation < g \/ StagesLeft(g)' < StagesLeft(g)
      <3>1. ASSUME at'[g] = "none" PROVE StagesLeft(g)' < StagesLeft(g)
        <4>1. StagesLeft(g)' = 0
          BY <3>1 DEF StagesLeft
        <4> QED
          BY <2>2, <2>3, <3>1, <4>1
      <3>2. CASE TextQuery \/ OnTurnFinalized
        <4>1. g = generation + 1 \/ at'[g] = "none"
          BY <2>3, <3>2 DEF TextQuery, OnTurnFinalized, ScheduleResponse
        <4> QED
          BY <2>1, <3>1, <4>1
      <3>3. CASE ConfirmCancels
        BY <2>3, <3>1, <3>3 DEF ConfirmCancels, Cancel
      <3>4. ASSUME NEW h \in Gens, ResponseMoves(h) PROVE StagesLeft(g)' < StagesLeft(g)
        <4>1. h = g \/ at'[g] = at[g]
          BY <2>1, <3>4
          DEF ResponseMoves, Responds, RepliesToVerification, RepliesToDuplicate,
              WaitsForInference, EntersInference, LeavesInference, Discards, Localized,
              StartsSpeaking, StreamEnds, Finishes, Speaks, ResumesRequest, GivesUp, Ends,
              Goes, taskVars
        <4> QED
          BY <2>3, <3>4, <4>1, StageRunsDown
      <3>5. ~UNCHANGED taskVars
        BY <2>3 DEF taskVars
      <3>6. ~\E u \in Texts, final \in BOOLEAN : TranscriptConfirmsBargeIn(u, final)
        BY <2>3 DEF TranscriptConfirmsBargeIn
      <3> QED
        BY <3>2, <3>3, <3>4, <3>5, <3>6, StepKinds
    <2> QED
      BY <2>2, <2>3 DEF RespondsOnce, CurrentIsAlive
  <1>2. Init => CurrentIsAlive /\ ResumedIsNoCode
    BY DEF Init, CurrentIsAlive, ResumedIsNoCode
  <1>3. IInv /\ CurrentIsAlive /\ ResumedIsNoCode /\ [Next]_vars =>
            CurrentIsAlive' /\ ResumedIsNoCode'
    BY AliveStep, ResumedStep
  <1>4. IInv /\ CurrentIsAlive /\ ResumedIsNoCode /\ [Next]_vars => [RespondsOnce]_vars
    BY <1>1
  <1> QED
    BY <1>2, <1>3, <1>4, Invariance, PTL DEF Spec
=============================================================================
