---------------------------- MODULE TurnManager ----------------------------
(***************************************************************************)
(* voice/turn_manager.py: decides from speech start and end, and from what *)
(* the speech recogniser returns, when the caller's turn is over.          *)
(*                                                                         *)
(* Everything runs on one asyncio loop, so each method, and each timer     *)
(* task from its wake-up to its end, is one step.  A timer task that is    *)
(* cancelled never wakes up, hence a pending timer is a value, not a task. *)
(* Of durations only the configuration they were taken from is kept, of    *)
(* transcripts the utterances whose words they contain.                    *)
(***************************************************************************)
EXTENDS Naturals

CONSTANTS
    Texts,          \* the utterances that transcripts stem from
    Configs,        \* the TurnManagerConfig values: normal, verification
    NoText,         \* the empty transcript
    NoTimer         \* no live task

ASSUME TurnAssumption ==
    /\ NoText \notin Texts
    /\ NoTimer \notin Configs

VARIABLES
    state,          \* LISTENING or ENDPOINTING
    turnId,
    config,
    finals,         \* final_segments: the utterances they stem from
    partial,        \* latest_partial
    version,        \* last_final_version
    speechActive,
    silenceDone,    \* silence_timeout_complete
    endpoint,       \* the live endpoint timer: the configuration it waits by
    settle          \* the live ASR settle timer: what it expects to find

turnVars == <<state, turnId, config, finals, partial, version,
              speechActive, silenceDone, endpoint, settle>>

Expectation == [turn : Nat, version : Nat]

TurnTypeOK ==
    /\ state \in {"LISTENING", "ENDPOINTING"}
    /\ turnId \in Nat
    /\ config \in Configs
    /\ finals \subseteq Texts
    /\ partial \in Texts \cup {NoText}
    /\ version \in Nat
    /\ speechActive \in BOOLEAN
    /\ silenceDone \in BOOLEAN
    /\ endpoint \in Configs \cup {NoTimer}
    /\ settle \in Expectation \cup {NoTimer}

TurnInit(c) ==
    /\ state = "LISTENING"
    /\ turnId = 0
    /\ config = c
    /\ finals = {}
    /\ partial = NoText
    /\ version = 0
    /\ speechActive = FALSE
    /\ silenceDone = FALSE
    /\ endpoint = NoTimer
    /\ settle = NoTimer

-----------------------------------------------------------------------------
(* _build_transcript, as the utterances its words stem from.               *)
Transcript == finals \cup ({partial} \ {NoText})

Awaited == [turn |-> turnId, version |-> version]

(* What transcripts restart the settle timer on.                           *)
AfterSilence == state = "ENDPOINTING" /\ silenceDone

(* Mutation: a running endpoint timer keeps its old duration.              *)
SetConfigOnly(c) ==
    /\ config' = c
    /\ UNCHANGED <<state, turnId, finals, partial, version, speechActive,
                   silenceDone, endpoint, settle>>

(* set_config: an endpoint timer that is running starts again.             *)
SetConfig(c) ==
    /\ config' = c
    /\ endpoint' = IF state = "ENDPOINTING" /\ ~speechActive /\ ~silenceDone
                   THEN c ELSE endpoint
    /\ UNCHANGED <<state, turnId, finals, partial, version, speechActive,
                   silenceDone, settle>>

(* Mutation: the settle timer survives the caller speaking again.          *)
OnSpeechStartKeepsSettle ==
    /\ speechActive' = TRUE
    /\ state' = "LISTENING"
    /\ silenceDone' = FALSE
    /\ endpoint' = NoTimer
    /\ UNCHANGED <<turnId, config, finals, partial, version, settle>>

(* on_speech_start: both timers are cancelled.                             *)
OnSpeechStart ==
    /\ speechActive' = TRUE
    /\ state' = "LISTENING"
    /\ silenceDone' = FALSE
    /\ endpoint' = NoTimer
    /\ settle' = NoTimer
    /\ UNCHANGED <<turnId, config, finals, partial, version>>

(* The part of the state on_speech_end assigns.                            *)
SpeechEnds ==
    /\ speechActive' = FALSE
    /\ state' = "ENDPOINTING"
    /\ silenceDone' = FALSE
    /\ endpoint' = config

(* on_speech_end: a settle timer that is running is left alone.            *)
OnSpeechEnd ==
    /\ SpeechEnds
    /\ UNCHANGED <<turnId, config, finals, partial, version, settle>>

(* Mutation: a final segment does not extend the settling time.            *)
FinalArrivesQuietly(t) ==
    /\ finals' = finals \cup {t}
    /\ partial' = NoText
    /\ version' = version + 1
    /\ UNCHANGED settle

(* The part of the state on_final_transcript assigns.                      *)
FinalArrives(t) ==
    /\ finals' = finals \cup {t}
    /\ partial' = NoText
    /\ version' = version + 1
    /\ settle' = IF AfterSilence
                 THEN [turn |-> turnId, version |-> version + 1] ELSE settle

(* The part of the state on_partial_transcript assigns.                    *)
PartialArrives(t) ==
    /\ partial' = t
    /\ settle' = IF AfterSilence THEN Awaited ELSE settle
    /\ UNCHANGED <<finals, version>>

OnPartialTranscript(t) ==
    /\ PartialArrives(t)
    /\ UNCHANGED <<state, turnId, config, speechActive, silenceDone, endpoint>>

OnFinalTranscript(t) ==
    /\ FinalArrives(t)
    /\ UNCHANGED <<state, turnId, config, speechActive, silenceDone, endpoint>>

(* _endpoint_after_silence, once its sleep is over.                        *)
EndpointAfterSilence ==
    /\ endpoint # NoTimer
    /\ endpoint' = NoTimer
    /\ IF speechActive
       THEN UNCHANGED <<silenceDone, settle>>
       ELSE /\ silenceDone' = TRUE
            /\ settle' = Awaited
    /\ UNCHANGED <<state, turnId, config, finals, partial, version, speechActive>>

(* Mutation: latest_partial is reset to None, not to the empty string.     *)
ResetForNextTurnToNone ==
    /\ endpoint' = NoTimer
    /\ settle' = NoTimer
    /\ turnId' = turnId + 1
    /\ finals' = {}
    /\ partial' = NoTimer
    /\ speechActive' = FALSE
    /\ state' = "LISTENING"
    /\ silenceDone' = FALSE
    /\ version' = 0
    /\ UNCHANGED config

(* _reset_for_next_turn                                                    *)
ResetForNextTurn ==
    /\ endpoint' = NoTimer
    /\ settle' = NoTimer
    /\ turnId' = turnId + 1
    /\ finals' = {}
    /\ partial' = NoText
    /\ speechActive' = FALSE
    /\ state' = "LISTENING"
    /\ silenceDone' = FALSE
    /\ version' = 0
    /\ UNCHANGED config

(* What _wait_for_asr_settle tests after its sleep.                        *)
SettledAsExpected == ~speechActive /\ settle = Awaited

(* _wait_for_asr_settle when the turn has moved on: the task just ends.    *)
SettleGivesUp ==
    /\ settle # NoTimer
    /\ ~SettledAsExpected
    /\ settle' = NoTimer
    /\ UNCHANGED <<state, turnId, config, finals, partial, version,
                   speechActive, silenceDone, endpoint>>

(* _wait_for_asr_settle and _finalize_turn with nothing heard: no callback.*)
IgnoreEmptyTurn ==
    /\ SettledAsExpected
    /\ Transcript = {}
    /\ ResetForNextTurn

(* _wait_for_asr_settle and _finalize_turn: the callback receives          *)
(* Transcript, then the manager is reset.                                  *)
FinalizeTurn ==
    /\ SettledAsExpected
    /\ Transcript # {}
    /\ ResetForNextTurn

Shutdown ==
    /\ endpoint' = NoTimer
    /\ settle' = NoTimer
    /\ UNCHANGED <<state, turnId, config, finals, partial, version,
                   speechActive, silenceDone>>

-----------------------------------------------------------------------------
(* A timer never outlives the silence it was started in, nor its turn: the *)
(* tests of speech_active and of the turn id after each sleep are always   *)
(* passed, because every method that could invalidate them cancels first.  *)
TimersAreCurrent ==
    /\ endpoint # NoTimer => ~speechActive /\ state = "ENDPOINTING" /\ ~silenceDone
    /\ settle # NoTimer =>
        /\ ~speechActive /\ state = "ENDPOINTING"
        /\ settle.turn = turnId
        /\ settle.version <= version

(* A turn that is ending has a timer alive that will end it.               *)
EndingIsArmed ==
    state = "ENDPOINTING" => endpoint # NoTimer \/ settle = Awaited

(* A running endpoint timer waits by the configuration in force: a change  *)
(* to the verification window reaches a turn that is already ending.       *)
WindowInForce == endpoint # NoTimer => endpoint = config
=============================================================================
