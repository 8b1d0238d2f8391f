---------------------------- MODULE VoiceSession ----------------------------
(***************************************************************************)
(* voice/runtime.py: one caller's session.  Coroutines of one asyncio loop *)
(* share its state: the WebSocket receiver (audio, control messages), the  *)
(* recogniser's receiver (on_transcript), the turn manager's timers, the   *)
(* barge-in expiry timer and the response tasks.  A step is what one of    *)
(* them does between two awaits.                                           *)
(*                                                                         *)
(* Utterances are numbered; the recogniser returns partial and final       *)
(* results of each, in order and arbitrarily late.                         *)
(***************************************************************************)
EXTENDS TurnManager, FiniteSets

CONSTANTS
    Normal, Verification,   \* the two TurnManagerConfigs
    MaxUtterances,  \* bound: times the caller starts speaking
    MaxTyped,       \* bound: typed queries
    MaxExits,       \* bound: times the client restarts, stops or hangs up
    MaxSegments     \* bound: with as many final results in a turn, each further one is
                    \* the last of its utterance

(* A turn is finalized after the end of an utterance or of a barge-in, and *)
(* each utterance confirms at most one barge-in.                           *)
Gens == 1 .. 3 * MaxUtterances + MaxTyped

ASSUME SessionAssumption ==
    /\ Configs = {Normal, Verification}
    /\ Texts = 1 .. MaxUtterances
    /\ NoTimer \notin Expectation
    /\ MaxUtterances \in Nat /\ MaxTyped \in Nat /\ MaxExits \in Nat /\ MaxSegments \in Nat

VARIABLES
    session,        \* where the client's connection is in its life
    speaking,       \* what the voice activity detector reported last
    utterance,      \* utterances started so far
    unheard,        \* the utterance the recogniser returns results of next
    userTurnOpen,
    candidate,      \* barge_candidate_active, .._speech_ended
    expiry,         \* the barge-candidate-expiry task is alive
    confirm,        \* where on_transcript is in a barge-in, with its locals
    generation,
    current,        \* _current_task, by its generation; 0 for None
    phase,
    at,             \* where the response task of each generation is
    via,            \* which way it went in _respond
    challenge,      \* the VerificationState: awaiting_code, locked or neither
    playing,        \* output.is_playing: whose audio it plays; 0 for none
    typed, exits,   \* counters behind the bounds
    answered,       \* history: utterances of the turns accepted so far
    interrupted     \* history: the newest generation a barge-in interrupted

inputVars == <<session, speaking, utterance, unheard, typed, exits>>
bargeVars == <<candidate, expiry, confirm>>
taskVars == <<generation, current, phase, at, via, challenge>>
history == <<answered, interrupted>>
vars == <<turnVars, inputVars, bargeVars, taskVars, userTurnOpen, playing, history>>

Stages == {"none", "starting", "waiting", "inference", "localizing", "sending", "speaking",
           "draining"}
Paths == {"answer", "verified", "reprompt", "duplicate", "resumed"}
NoCandidate == [active |-> FALSE, ended |-> FALSE]
NotConfirming == [at |-> "none", text |-> NoText, final |-> FALSE, ended |-> FALSE]

TypeOK ==
    /\ TurnTypeOK
    /\ session \in {"off", "on", "stopping", "hangup", "closing", "gone"}
    /\ speaking \in BOOLEAN /\ userTurnOpen \in BOOLEAN
    /\ expiry \in BOOLEAN
    /\ utterance \in 0 .. MaxUtterances
    /\ unheard \in 1 .. MaxUtterances + 1
    /\ candidate \in [active : BOOLEAN, ended : BOOLEAN]
    /\ confirm \in [at : {"none", "clearing", "announcing"}, text : Texts \cup {NoText},
                    final : BOOLEAN, ended : BOOLEAN]
    /\ generation \in Gens \cup {0}
    /\ current \in Gens \cup {0} /\ playing \in Gens \cup {0}
    /\ interrupted \in Gens \cup {0}
    /\ phase \in {"idle", "inference", "localizing", "tts"}
    /\ at \in [Gens -> Stages]
    /\ via \in [Gens -> Paths]
    /\ challenge \in {"none", "awaiting", "locked"}
    /\ typed \in 0 .. MaxTyped /\ exits \in 0 .. MaxExits
    /\ answered \subseteq Texts

Init ==
    /\ TurnInit(Normal)
    /\ session = "off"
    /\ speaking = FALSE /\ utterance = 0 /\ unheard = 1
    /\ userTurnOpen = FALSE
    /\ candidate = NoCandidate /\ expiry = FALSE /\ confirm = NotConfirming
    /\ generation = 0 /\ current = 0 /\ phase = "idle"
    /\ at = [g \in Gens |-> "none"]
    /\ via = [g \in Gens |-> "answer"]
    /\ challenge = "none"
    /\ playing = 0
    /\ typed = 0 /\ exits = 0
    /\ answered = {} /\ interrupted = 0

-----------------------------------------------------------------------------
(* _assistant_busy                                                         *)
Busy == current # 0 \/ playing # 0

(* _clear_barge_candidate: its expiry task is cancelled.                   *)
ClearBargeCandidate ==
    /\ candidate' = NoCandidate
    /\ expiry' = FALSE

(* task.cancel(): the response is not resumed; its finally block changes   *)
(* nothing, since the caller moves generation and current on.              *)
Cancel(S) ==
    /\ at' = [g \in Gens |-> IF g \in S THEN "none" ELSE at[g]]
    /\ via' = [g \in Gens |-> IF g \in S THEN "answer" ELSE via[g]]

(* Mutation: every older task is cancelled, also one in inference.         *)
ScheduleCancelsAll ==
    LET new == generation + 1 IN
    /\ generation' = new
    /\ current' = new
    /\ at' = [g \in Gens |-> IF g = new THEN "starting" ELSE "none"]
    /\ via' = [g \in Gens |-> "answer"]
    /\ UNCHANGED <<phase, challenge>>

(* _schedule_response: cancels the tasks that are not in inference.        *)
ScheduleResponse ==
    LET new == generation + 1
        kept == {g \in Gens : at[g] = "inference"}
    IN
    /\ generation' = new
    /\ current' = new
    /\ at' = [g \in Gens |-> IF g = new THEN "starting"
                             ELSE IF g \in kept THEN at[g] ELSE "none"]
    /\ via' = [g \in Gens |-> "answer"]
    /\ UNCHANGED <<phase, challenge>>

-----------------------------------------------------------------------------
(* The client: start_session, text_query, stop_session and disconnecting.  *)

StartSession ==
    /\ session = "off"
    /\ session' = "on"
    /\ userTurnOpen' = FALSE
    /\ speaking' = FALSE
    /\ UNCHANGED <<turnVars, bargeVars, taskVars, utterance, unheard, typed, exits,
                   playing, history>>

(* start_session while the recogniser runs: it is stopped first, see       *)
(* StopStt.                                                                *)
RestartSession ==
    /\ session = "on"
    /\ exits < MaxExits
    /\ exits' = exits + 1
    /\ userTurnOpen' = FALSE
    /\ speaking' = FALSE
    /\ confirm' = NotConfirming
    /\ unheard' = utterance + 1
    /\ UNCHANGED <<turnVars, candidate, expiry, taskVars, session, utterance, typed,
                   playing, history>>

TextQuery ==
    /\ session \in {"off", "on"}
    /\ typed < MaxTyped
    /\ typed' = typed + 1
    /\ ScheduleResponse
    /\ UNCHANGED <<turnVars, bargeVars, session, speaking, utterance, unheard, exits,
                   userTurnOpen, playing, history>>

(* stop_session up to its first await: the turn manager and the response   *)
(* tasks are not told.                                                     *)
StopSession ==
    /\ session = "on"
    /\ exits < MaxExits
    /\ exits' = exits + 1
    /\ session' = "stopping"
    /\ userTurnOpen' = FALSE
    /\ ClearBargeCandidate
    /\ speaking' = FALSE
    /\ playing' = 0
    /\ UNCHANGED <<turnVars, taskVars, utterance, unheard, typed, confirm, history>>

(* shutdown up to its first await.                                         *)
HangUp ==
    /\ session \in {"off", "on"}
    /\ exits < MaxExits
    /\ exits' = exits + 1
    /\ session' = "hangup"
    /\ userTurnOpen' = FALSE
    /\ ClearBargeCandidate
    /\ speaking' = FALSE
    /\ playing' = 0
    /\ UNCHANGED <<turnVars, taskVars, utterance, unheard, typed, confirm, history>>

ShutdownTimers ==
    /\ session = "hangup"
    /\ session' = "closing"
    /\ Shutdown
    /\ UNCHANGED <<bargeVars, taskVars, speaking, utterance, unheard, typed, exits,
                   userTurnOpen, playing, history>>

(* stt.stop: the recogniser's receiver is cancelled, with the on_transcript*)
(* it may be suspended in; what it had not returned is lost.               *)
StopStt ==
    /\ session \in {"stopping", "closing"}
    /\ session' = IF session = "stopping" THEN "off" ELSE "gone"
    /\ confirm' = NotConfirming
    /\ unheard' = utterance + 1
    /\ UNCHANGED <<turnVars, taskVars, candidate, expiry, speaking, utterance, typed, exits,
                   userTurnOpen, playing, history>>

-----------------------------------------------------------------------------
(* _speech_start                                                           *)
SpeechStart ==
    /\ session = "on" /\ ~speaking
    /\ utterance < MaxUtterances
    /\ speaking' = TRUE
    /\ utterance' = utterance + 1
    /\ IF Busy
       THEN /\ candidate' = [active |-> TRUE, ended |-> FALSE]
            /\ expiry' = FALSE
            /\ UNCHANGED <<turnVars, userTurnOpen>>
       ELSE /\ userTurnOpen' = TRUE
            /\ OnSpeechStart
            /\ UNCHANGED <<candidate, expiry>>
    /\ UNCHANGED <<session, unheard, typed, exits, confirm, taskVars, playing, history>>

(* _speech_end of a barge-in candidate: rejected when it was too short.    *)
CandidateSpeechEnds ==
    /\ speaking /\ candidate.active
    /\ speaking' = FALSE
    /\ \/ ClearBargeCandidate
       \/ /\ candidate' = [candidate EXCEPT !.ended = TRUE]
          /\ expiry' = TRUE
    /\ UNCHANGED <<turnVars, session, utterance, unheard, typed, exits, confirm,
                   taskVars, userTurnOpen, playing, history>>

(* _speech_end otherwise.                                                  *)
SpeechEnd ==
    /\ speaking /\ ~candidate.active
    /\ speaking' = FALSE
    /\ IF userTurnOpen THEN OnSpeechEnd ELSE UNCHANGED turnVars
    /\ UNCHANGED <<session, utterance, unheard, typed, exits, bargeVars, taskVars,
                   userTurnOpen, playing, history>>

(* _expire_barge_candidate                                                 *)
ExpireBargeCandidate ==
    /\ expiry
    /\ ClearBargeCandidate
    /\ UNCHANGED <<turnVars, inputVars, confirm, taskVars, userTurnOpen, playing, history>>

-----------------------------------------------------------------------------
(* A partial result, the final one of a segment, where the caller paused,  *)
(* or the last final one of the utterance.                                 *)
Returned(u, final) ==
    /\ unheard = u /\ u <= utterance
    /\ \/ unheard' = u /\ (final => version < MaxSegments)
       \/ unheard' = u + 1 /\ final

(* Mutation: the receiver does not wait for a barge-in to be confirmed.    *)
HeardMeanwhile(u, final) ==
    /\ Returned(u, final)
    /\ UNCHANGED <<session, speaking, utterance, typed, exits>>

(* on_transcript.  The receiver awaits it, so one runs at a time.          *)
Heard(u, final) ==
    /\ confirm.at = "none"
    /\ Returned(u, final)
    /\ UNCHANGED <<session, speaking, utterance, typed, exits>>

(* No words, or a connection that broke: the utterance has no final result.*)
HeardNothing ==
    /\ confirm.at = "none"
    /\ unheard <= utterance
    /\ unheard' = unheard + 1
    /\ UNCHANGED <<turnVars, session, speaking, utterance, typed, exits, bargeVars,
                   taskVars, userTurnOpen, playing, history>>

(* Mutation: the generation moves on only when the task is cancelled.      *)
TranscriptConfirmsLate(u, final) ==
    /\ candidate.active
    /\ Heard(u, final)
    /\ confirm' = [at |-> "clearing", text |-> u, final |-> final, ended |-> candidate.ended]
    /\ ClearBargeCandidate
    /\ interrupted' = generation
    /\ playing' = 0
    /\ UNCHANGED <<turnVars, taskVars, userTurnOpen, answered>>

(* _confirm_barge_in up to output.clear(); a partial result confirms only  *)
(* once the candidate is old and the result long enough.                   *)
TranscriptConfirmsBargeIn(u, final) ==
    /\ candidate.active
    /\ Heard(u, final)
    /\ confirm' = [at |-> "clearing", text |-> u, final |-> final, ended |-> candidate.ended]
    /\ ClearBargeCandidate
    /\ generation' = generation + 1
    /\ interrupted' = generation
    /\ playing' = 0
    /\ UNCHANGED <<turnVars, current, phase, at, via, challenge, userTurnOpen, answered>>

(* A result that is ignored: too early to confirm, the assistant is busy,  *)
(* or no turn is open.                                                     *)
TranscriptIgnored(u, final) ==
    /\ IF candidate.active THEN ~final ELSE Busy \/ ~userTurnOpen
    /\ Heard(u, final)
    /\ UNCHANGED <<turnVars, bargeVars, taskVars, userTurnOpen, playing, history>>

(* _feed_transcript                                                        *)
Feed(u, final) == IF final THEN FinalArrives(u) ELSE PartialArrives(u)

TranscriptFeeds(u, final) ==
    /\ ~candidate.active /\ ~Busy /\ userTurnOpen
    /\ Heard(u, final)
    /\ Feed(u, final)
    /\ UNCHANGED <<state, turnId, config, speechActive, silenceDone, endpoint>>
    /\ UNCHANGED <<bargeVars, taskVars, userTurnOpen, playing, history>>

(* _confirm_barge_in between output.clear() and the barge_in event.        *)
ConfirmCancels ==
    /\ confirm.at = "clearing"
    /\ Cancel(IF phase = "inference" THEN {} ELSE {current})
    /\ current' = 0
    /\ phase' = "idle"
    /\ userTurnOpen' = TRUE
    /\ OnSpeechStart
    /\ confirm' = [confirm EXCEPT !.at = "announcing"]
    /\ UNCHANGED <<inputVars, candidate, expiry, generation, challenge, playing, history>>

(* on_transcript after _confirm_barge_in: feeds the words, and ends the    *)
(* speech if it had ended before the barge-in was confirmed.               *)
ConfirmFeeds ==
    /\ confirm.at = "announcing"
    /\ Feed(confirm.text, confirm.final)
    /\ IF confirm.ended
       THEN SpeechEnds
       ELSE UNCHANGED <<speechActive, state, silenceDone, endpoint>>
    /\ confirm' = NotConfirming
    /\ UNCHANGED <<turnId, config, inputVars, candidate, expiry, taskVars,
                   userTurnOpen, playing, history>>

-----------------------------------------------------------------------------
(* The turn manager's timers; _on_turn_finalized is its callback.          *)
TimerRuns ==
    /\ EndpointAfterSilence \/ SettleGivesUp \/ IgnoreEmptyTurn
    /\ UNCHANGED <<inputVars, bargeVars, taskVars, userTurnOpen, playing, history>>

OnTurnFinalized ==
    /\ FinalizeTurn
    /\ answered' = answered \cup Transcript
    /\ userTurnOpen' = FALSE
    /\ ScheduleResponse
    /\ UNCHANGED <<inputVars, bargeVars, playing, interrupted>>

-----------------------------------------------------------------------------
(* _respond of generation g, from one await to the next.                   *)
Goes(g, stage) == at' = [at EXCEPT ![g] = stage]

(* The finally block.                                                      *)
Ends(g, ph) ==
    /\ Goes(g, "none")
    /\ via' = [via EXCEPT ![g] = "answer"]
    /\ phase' = IF g = generation THEN "idle" ELSE ph
    /\ current' = IF current = g THEN 0 ELSE current
    /\ UNCHANGED <<generation, challenge>>

sessionOnly == <<inputVars, bargeVars, userTurnOpen, playing, history>>

(* consume_input handles what is said while a code is awaited, whatever    *)
(* the generation: it is the code, it is not, or it is not for the last    *)
(* time (how many times is not counted).                                   *)
RepliesToVerification(g) ==
    /\ at[g] = "starting" /\ challenge = "awaiting"
    /\ Goes(g, "localizing")
    /\ \/ /\ SetConfig(Normal)
          /\ challenge' = "none"
          /\ via' = [via EXCEPT ![g] = "verified"]
       \/ /\ SetConfig(Verification)
          /\ UNCHANGED challenge
          /\ via' = [via EXCEPT ![g] = "reprompt"]
       \/ /\ SetConfig(Normal)
          /\ challenge' = "locked"
          /\ via' = [via EXCEPT ![g] = "reprompt"]
    /\ UNCHANGED <<generation, current, phase>>
    /\ UNCHANGED sessionOnly

(* write_idempotency.check finds the request among those already done.     *)
RepliesToDuplicate(g) ==
    /\ at[g] = "starting" /\ challenge # "awaiting"
    /\ Goes(g, "localizing")
    /\ via' = [via EXCEPT ![g] = "duplicate"]
    /\ UNCHANGED <<turnVars, generation, current, phase, challenge>>
    /\ UNCHANGED sessionOnly

WaitsForInference(g) ==
    /\ at[g] = "starting" /\ challenge # "awaiting"
    /\ Goes(g, "waiting")
    /\ UNCHANGED <<turnVars, generation, current, phase, via, challenge>>
    /\ UNCHANGED sessionOnly

(* async with inference_lock                                               *)
EntersInference(g) ==
    /\ at[g] = "waiting"
    /\ \A h \in Gens : at[h] # "inference"
    /\ Goes(g, "inference")
    /\ phase' = "inference"
    /\ UNCHANGED <<turnVars, generation, current, via, challenge>>
    /\ UNCHANGED sessionOnly

(* Mutation: a stale result returns early and keeps the lock.              *)
DiscardsKeepingLock(g) == FALSE

(* Mutation: the result is not compared with the generation.               *)
DiscardsNothing(g) ==
    /\ Goes(g, "localizing")
    /\ phase' = "localizing"
    /\ UNCHANGED <<turnVars, generation, current, via, challenge>>

(* A result of the orchestrator that nobody waits for any more.            *)
Discards(g) == Ends(g, "localizing") /\ UNCHANGED turnVars

(* Mutation: the challenge does not lengthen the turn that is listened to. *)
ChallengesUnhurried(g) ==
    /\ challenge' = IF challenge = "locked" THEN "locked" ELSE "awaiting"
    /\ via' = [via EXCEPT ![g] = "reprompt"]
    /\ UNCHANGED turnVars

(* begin: the tool needs a verified caller, and the reply asks for a code. *)
Challenges(g) ==
    /\ challenge' = IF challenge = "locked" THEN "locked" ELSE "awaiting"
    /\ via' = [via EXCEPT ![g] = "reprompt"]
    /\ SetConfig(Verification)

LeavesInference(g) ==
    /\ at[g] = "inference"
    /\ IF g # generation
       THEN Discards(g)
       ELSE /\ Goes(g, "localizing")
            /\ phase' = "localizing"
            /\ Challenges(g) \/ UNCHANGED <<turnVars, challenge, via>>
            /\ UNCHANGED <<generation, current>>
    /\ UNCHANGED sessionOnly

(* The localizer's thread is done; the reply to a duplicate does not look  *)
(* at the generation here.                                                 *)
Localized(g) ==
    /\ at[g] = "localizing"
    /\ IF g = generation \/ via[g] = "duplicate"
       THEN /\ Goes(g, "sending")
            /\ UNCHANGED <<generation, current, phase, via, challenge>>
       ELSE Ends(g, phase)
    /\ UNCHANGED turnVars
    /\ UNCHANGED sessionOnly

(* The reply's text is sent; nobody looks at the generation again until    *)
(* the first audio.                                                        *)
StartsSpeaking(g) ==
    /\ at[g] = "sending"
    /\ Goes(g, "speaking")
    /\ phase' = "tts"
    /\ UNCHANGED <<turnVars, generation, current, via, challenge>>
    /\ UNCHANGED sessionOnly

(* The TTS stream yields a chunk: output.enqueue, or the end of a response *)
(* that has become stale.                                                  *)
Speaks(g) ==
    /\ at[g] = "speaking"
    /\ IF g = generation
       THEN playing' = g /\ UNCHANGED taskVars
       ELSE Ends(g, phase) /\ UNCHANGED playing
    /\ UNCHANGED <<turnVars, inputVars, bargeVars, userTurnOpen, history>>

StreamEnds(g) ==
    /\ at[g] = "speaking"
    /\ Goes(g, "draining")
    /\ UNCHANGED <<turnVars, generation, current, phase, via, challenge>>
    /\ UNCHANGED sessionOnly

(* wait_until_done is over.                                                *)
Finishes(g) ==
    /\ at[g] = "draining" /\ playing = 0
    /\ Ends(g, phase)
    /\ UNCHANGED turnVars
    /\ UNCHANGED sessionOnly

(* _respond(resumed) after a successful verification.                      *)
ResumesRequest(g) ==
    /\ at[g] = "draining" /\ playing = 0
    /\ via[g] = "verified" /\ g = generation
    /\ Goes(g, "starting")
    /\ phase' = "idle"
    /\ via' = [via EXCEPT ![g] = "resumed"]
    /\ UNCHANGED <<turnVars, generation, current, challenge>>
    /\ UNCHANGED sessionOnly

(* An exception anywhere, or nothing to say.                               *)
GivesUp(g) ==
    /\ at[g] \in {"starting", "inference", "localizing", "sending", "speaking"}
    /\ Ends(g, phase)
    /\ UNCHANGED turnVars
    /\ UNCHANGED sessionOnly

PlaybackEnds ==
    /\ playing # 0
    /\ playing' = 0
    /\ UNCHANGED <<turnVars, inputVars, bargeVars, taskVars, userTurnOpen, history>>

-----------------------------------------------------------------------------
Client == StartSession \/ RestartSession \/ TextQuery \/ StopSession \/ HangUp

Closing == ShutdownTimers \/ StopStt

Recogniser ==
    \/ HeardNothing
    \/ \E u \in Texts, final \in BOOLEAN :
        \/ TranscriptConfirmsBargeIn(u, final)
        \/ TranscriptIgnored(u, final)
        \/ TranscriptFeeds(u, final)

Confirming == ConfirmCancels \/ ConfirmFeeds

Timers == TimerRuns \/ OnTurnFinalized

Responds(g) ==
    \/ RepliesToVerification(g) \/ RepliesToDuplicate(g) \/ WaitsForInference(g)
    \/ EntersInference(g) \/ LeavesInference(g) \/ Localized(g)
    \/ StartsSpeaking(g) \/ StreamEnds(g) \/ Finishes(g)

Next ==
    \/ Client
    \/ Closing
    \/ SpeechStart
    \/ CandidateSpeechEnds
    \/ SpeechEnd
    \/ ExpireBargeCandidate
    \/ Recogniser
    \/ Confirming
    \/ Timers
    \/ \E g \in Gens : Responds(g) \/ Speaks(g) \/ ResumesRequest(g) \/ GivesUp(g)
    \/ PlaybackEnds

Spec == Init /\ [][Next]_vars

(* A timer whose time is up runs, a send and an outside call come back, a  *)
(* speaker plays what it has and a caller stops to breathe.  No caller has *)
(* to speak or to type again, and no recogniser has to hear words.         *)
Fairness ==
    /\ WF_vars(Closing)
    /\ WF_vars(CandidateSpeechEnds \/ SpeechEnd)
    /\ WF_vars(ExpireBargeCandidate)
    /\ WF_vars(Confirming)
    /\ WF_vars(Timers)
    /\ WF_vars(PlaybackEnds)
    /\ \A g \in Gens : WF_vars(Responds(g))

FairSpec == Spec /\ Fairness

-----------------------------------------------------------------------------
(* As long as the session is not being closed, a turn that is ending has a *)
(* timer that will end it: neither barge-ins nor the verification windows  *)
(* that response tasks set, nor stopping the session, leave it stranded.   *)
NoTurnAbandoned == session \notin {"closing", "gone"} => EndingIsArmed

(* A request in the router's inference is never cancelled, neither by a    *)
(* newer turn nor by a barge-in: its task alone moves on (the comment at   *)
(* the head of _schedule_response).                                        *)
InferenceRunsToEnd ==
    [][\A g \in Gens : at[g] = "inference" /\ at'[g] # "inference" =>
        LeavesInference(g) \/ GivesUp(g)]_vars

(* Besides what is in inference, at most one response is under way: two    *)
(* never localize, speak or wait at the same time.                         *)
OneResponse == Cardinality({g \in Gens : at[g] \notin {"none", "inference"}}) <= 1

(* Once a barge-in is confirmed, no audio of the response it interrupted,  *)
(* nor of an older one, is played: a chunk that the TTS stream still       *)
(* yields meets a newer generation.                                        *)
InterruptedIsSilent == playing # 0 => playing > interrupted

(* While digits are awaited the turn manager waits by the longer window,   *)
(* and so does a timer of a turn that was ending already, whichever tasks  *)
(* replied, were interrupted or became stale in between.  (A settle timer  *)
(* that runs keeps the time it was started with: set_config leaves it.)    *)
DigitsGetTime ==
    challenge = "awaiting" => config = Verification /\ endpoint \in {Verification, NoTimer}

(* Of the utterances that were answered only the last can still get words  *)
(* into an open turn: on_transcript cannot tell late results from others,  *)
(* but what one call feeds, after all its awaits, is not older than what   *)
(* any turn was accepted with.                                             *)
OnlyTheLastIsLate == \A t \in Transcript, a \in answered : a <= t

(* The assistant is again and again ready to listen: no response, barge-in *)
(* or lock keeps it busy forever.                                          *)
ListensAgain == []<>(~Busy)
=============================================================================
