-------------------------- MODULE TurnTakingProofs --------------------------
(***************************************************************************)
(* Proofs about the turn manager for every set of utterances and of        *)
(* configurations and without any bound on turns or final segments.        *)
(***************************************************************************)
EXTENDS TurnTaking, TLAPS

(* The strengthening NeverStranded needs: before the silence is over it is *)
(* the endpoint timer that is alive, afterwards a settle timer that        *)
(* expects exactly what is there.                                          *)
Armed ==
    open /\ state = "ENDPOINTING" =>
        IF silenceDone THEN settle = Awaited ELSE endpoint # NoTimer

IInv == TypeOK /\ TimersAreCurrent /\ Armed /\ WindowInForce

-----------------------------------------------------------------------------
(* What a settle timer is started with.                                   *)
LEMMA AwaitedType ==
    ASSUME turnId \in Nat, version \in Nat
    PROVE  /\ Awaited \in Expectation
           /\ Awaited # NoTimer
           /\ Awaited.turn = turnId /\ Awaited.version = version
  BY TakingAssumption DEF Awaited, Expectation

(* The invariant holds of a new turn manager.                              *)
THEOREM InitInv == Init => IInv
  <1> SUFFICES ASSUME NEW c \in Configs, TurnInit(c), open = TRUE PROVE IInv
    BY DEF Init
  <1>1. TypeOK
    BY DEF TurnInit, TypeOK, TurnTypeOK
  <1>2. TimersAreCurrent /\ Armed /\ WindowInForce
    BY DEF TurnInit, TimersAreCurrent, Armed, WindowInForce
  <1> QED
    BY <1>1, <1>2 DEF IInv

(* The reset ends every timer together with the turn.                      *)
LEMMA ResetStep ==
    ASSUME IInv, ResetForNextTurn, UNCHANGED open
    PROVE  IInv'
  <1>1. TypeOK'
    <2>0. turnId' \in Nat
      BY DEF ResetForNextTurn, IInv, TypeOK, TurnTypeOK
    <2>1. TurnTypeOK'
      BY <2>0 DEF ResetForNextTurn, IInv, TypeOK, TurnTypeOK
    <2>2. open' \in BOOLEAN
      BY DEF IInv, TypeOK
    <2> QED
      BY <2>1, <2>2 DEF TypeOK
  <1>2. TimersAreCurrent' /\ Armed' /\ WindowInForce'
    BY DEF ResetForNextTurn, TimersAreCurrent, Armed, WindowInForce
  <1> QED
    BY <1>1, <1>2 DEF IInv

(* Each method of the turn manager, and each timer, preserves it.          *)
LEMMA CallStep ==
    ASSUME IInv, Call
    PROVE  IInv'
  <1> USE TurnAssumption, TakingAssumption, AwaitedType
    DEF IInv, TypeOK, TurnTypeOK, TimersAreCurrent, Armed, WindowInForce
  <1>1. CASE OnSpeechStart
    BY <1>1 DEF Call, OnSpeechStart
  <1>2. CASE OnSpeechEnd
    <2>1. Awaited' = Awaited
      BY <1>2 DEF OnSpeechEnd, Awaited
    <2> QED
      BY <1>2, <2>1 DEF Call, OnSpeechEnd, SpeechEnds
  <1>3. ASSUME NEW c \in Configs, SetConfig(c) PROVE IInv'
    <2>1. Awaited' = Awaited
      BY <1>3 DEF SetConfig, Awaited
    <2> QED
      BY <1>3, <2>1 DEF Call, SetConfig
  <1>4. ASSUME NEW t \in Texts, OnPartialTranscript(t) PROVE IInv'
    <2>1. Awaited' = Awaited
      BY <1>4 DEF OnPartialTranscript, PartialArrives, Awaited
    <2> QED
      BY <1>4, <2>1 DEF Call, OnPartialTranscript, PartialArrives, AfterSilence
  <1>5. ASSUME NEW t \in Texts, OnFinalTranscript(t) PROVE IInv'
    <2>1. turnId' = turnId /\ version' = version + 1 /\ version' \in Nat
      BY <1>5 DEF OnFinalTranscript, FinalArrives
    <2>2. settle' = IF AfterSilence THEN Awaited' ELSE settle
      BY <1>5, <2>1 DEF OnFinalTranscript, FinalArrives, Awaited
    <2>3. /\ Awaited' \in Expectation /\ Awaited' # NoTimer
          /\ Awaited'.turn = turnId' /\ Awaited'.version = version'
      BY <2>1 DEF Awaited, Expectation
    <2>4. settle # NoTimer => settle.version <= version'
      BY <2>1 DEF Expectation
    <2> QED
      BY <1>5, <2>1, <2>2, <2>3, <2>4
      DEF Call, OnFinalTranscript, FinalArrives, AfterSilence
  <1> QED
    BY <1>1, <1>2, <1>3, <1>4, <1>5 DEF Call

(* ... and each wake-up of a timer.                                        *)
LEMMA TimerStep ==
    ASSUME IInv, Timer
    PROVE  IInv'
  <1> USE TurnAssumption, TakingAssumption, AwaitedType
    DEF IInv, TypeOK, TurnTypeOK, TimersAreCurrent, Armed, WindowInForce
  <1>1. CASE EndpointAfterSilence
    <2>1. Awaited' = Awaited
      BY <1>1 DEF EndpointAfterSilence, Awaited
    <2> QED
      BY <1>1, <2>1 DEF Timer, EndpointAfterSilence
  <1>2. CASE SettleGivesUp
    <2>1. Awaited' = Awaited
      BY <1>2 DEF SettleGivesUp, Awaited
    <2>2. settle # Awaited
      BY <1>2 DEF SettleGivesUp, SettledAsExpected
    <2> QED
      BY <1>2, <2>1, <2>2 DEF Timer, SettleGivesUp
  <1>3. CASE IgnoreEmptyTurn \/ FinalizeTurn
    BY <1>3, ResetStep DEF IgnoreEmptyTurn, FinalizeTurn, Timer
  <1> QED
    BY <1>1, <1>2, <1>3 DEF Timer

(* IInv is inductive.                                                      *)
THEOREM StepInv == IInv /\ [Next]_vars => IInv'
  <1> SUFFICES ASSUME IInv, [Next]_vars PROVE IInv'
    OBVIOUS
  <1>1. CASE Close
    BY <1>1 DEF Close, Shutdown, IInv, TypeOK, TurnTypeOK, TimersAreCurrent, Armed, WindowInForce
  <1>2. CASE UNCHANGED vars
    BY <1>2 DEF vars, turnVars, IInv, TypeOK, TurnTypeOK, TimersAreCurrent, Armed,
                WindowInForce, Awaited
  <1> QED
    BY <1>1, <1>2, CallStep, TimerStep DEF Next

(* IInv holds throughout.                                                  *)
THEOREM Invariance == Spec => []IInv
  BY InitInv, StepInv, PTL DEF Spec

(* Every reachable state is well typed.                                    *)
THEOREM TypeCorrect == Spec => []TypeOK
  <1>1. IInv => TypeOK
    BY DEF IInv
  <1> QED
    BY <1>1, Invariance, PTL

(* No timer outlives its silence or its turn.                              *)
THEOREM Currency == Spec => []TimersAreCurrent
  <1>1. IInv => TimersAreCurrent
    BY DEF IInv
  <1> QED
    BY <1>1, Invariance, PTL

(* A turn that is ending always has a timer that will end it.              *)
THEOREM Arming == Spec => []NeverStranded
  <1>1. IInv => NeverStranded
    BY DEF IInv, Armed, NeverStranded, EndingIsArmed
  <1> QED
    BY <1>1, Invariance, PTL

(* A running endpoint timer waits by the configuration in force.           *)
THEOREM Window == Spec => []WindowInForce
  <1>1. IInv => WindowInForce
    BY DEF IInv
  <1> QED
    BY <1>1, Invariance, PTL
-----------------------------------------------------------------------------
(* Sleeps that are still to end before the timers are quiet: an endpoint   *)
(* timer that runs out leaves a settle timer behind.                       *)
SleepsLeft ==
    (IF endpoint = NoTimer THEN 0 ELSE 2) + (IF settle = NoTimer THEN 0 ELSE 1)

(* The timers alone come to rest, and at rest nothing is half ended.       *)
RunsDown ==
    /\ SleepsLeft \in 0 .. 3
    /\ Timer => SleepsLeft' < SleepsLeft
    /\ open /\ SleepsLeft = 0 => state = "LISTENING"

(* Each wake-up of a timer brings the timers nearer to rest, and at rest   *)
(* the manager listens: what ComesToRest needs besides fair scheduling     *)
(* (_endpoint_after_silence and _wait_for_asr_settle start no timer that   *)
(* could start them again).                                                *)
THEOREM TimersRunDown == Spec => [][RunsDown]_vars
  <1>1. ASSUME IInv, [Next]_vars PROVE RunsDown
    <2>1. SleepsLeft \in 0 .. 3
      BY DEF SleepsLeft
    <2>2. ASSUME Timer PROVE SleepsLeft' < SleepsLeft
      <3>1. CASE EndpointAfterSilence
        <4>1. ~speechActive
          BY <1>1, <3>1 DEF EndpointAfterSilence, IInv, TimersAreCurrent
        <4>2. SleepsLeft >= 2 /\ SleepsLeft' <= 1
          BY <3>1, <4>1 DEF EndpointAfterSilence, SleepsLeft
        <4> QED
          BY <4>2 DEF SleepsLeft
      <3>2. CASE SettleGivesUp
        BY <3>2 DEF SettleGivesUp, SleepsLeft
      <3>3. CASE IgnoreEmptyTurn \/ FinalizeTurn
        <4>1. settle # NoTimer
          BY <1>1, <3>3, AwaitedType
          DEF IgnoreEmptyTurn, FinalizeTurn, SettledAsExpected, IInv, TypeOK, TurnTypeOK
        <4>2. SleepsLeft >= 1 /\ SleepsLeft' = 0
          BY <3>3, <4>1 DEF IgnoreEmptyTurn, FinalizeTurn, ResetForNextTurn, SleepsLeft
        <4> QED
          BY <4>2 DEF SleepsLeft
      <3> QED
        BY <2>2, <3>1, <3>2, <3>3 DEF Timer
    <2>3. ASSUME open, SleepsLeft = 0 PROVE state = "LISTENING"
      <3>1. endpoint = NoTimer /\ settle = NoTimer
        BY <2>3 DEF SleepsLeft
      <3>2. Awaited # NoTimer
        BY <1>1, AwaitedType DEF IInv, TypeOK, TurnTypeOK
      <3>3. state # "ENDPOINTING"
        BY <1>1, <2>3, <3>1, <3>2 DEF IInv, Armed
      <3> QED
        BY <1>1, <3>3 DEF IInv, TypeOK, TurnTypeOK
    <2> QED
      BY <2>1, <2>2, <2>3 DEF RunsDown
  <1> QED
    BY <1>1, Invariance, PTL DEF Spec
=============================================================================
