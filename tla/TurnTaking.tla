----------------------------- MODULE TurnTaking -----------------------------
(***************************************************************************)
(* The turn manager on its own: its methods called in any order, as the    *)
(* voice activity detector, the recogniser and the session may call them,  *)
(* against its two timers.                                                 *)
(***************************************************************************)
EXTENDS TurnManager

CONSTANTS
    MaxTurns,       \* bound: turns after which nobody calls any more
    MaxVersion      \* bound: final segments in a turn

ASSUME TakingAssumption ==
    /\ MaxTurns \in Nat /\ MaxVersion \in Nat
    /\ NoTimer \notin Expectation

VARIABLE open       \* until shutdown

vars == <<turnVars, open>>

TypeOK == TurnTypeOK /\ open \in BOOLEAN

Init ==
    /\ \E c \in Configs : TurnInit(c)
    /\ open = TRUE

Call ==
    /\ open
    /\ turnId < MaxTurns
    /\ \/ OnSpeechStart
       \/ OnSpeechEnd
       \/ \E c \in Configs : SetConfig(c)
       \/ \E t \in Texts : OnPartialTranscript(t)
       \/ version < MaxVersion /\ \E t \in Texts : OnFinalTranscript(t)
    /\ UNCHANGED open

Timer ==
    /\ \/ EndpointAfterSilence
       \/ SettleGivesUp
       \/ IgnoreEmptyTurn
       \/ FinalizeTurn
    /\ UNCHANGED open

Close ==
    /\ open
    /\ Shutdown
    /\ open' = FALSE

Next == Call \/ Timer \/ Close

Spec == Init /\ [][Next]_vars

(* The event loop runs a task whose sleep is over.                         *)
FairSpec == Spec /\ WF_vars(Timer)

-----------------------------------------------------------------------------
(* Until it is shut down the turn manager never abandons a turn that is    *)
(* ending: a timer is alive that will end it, although a settle timer      *)
(* overtaken by a final segment gives up without starting another.         *)
NeverStranded == open => EndingIsArmed

(* When the caller and the recogniser have fallen silent, the turn manager *)
(* comes to rest listening: no turn stays half ended.                      *)
ComesToRest ==
    <>[][~(Call \/ Close)]_vars => <>[](open => state = "LISTENING")
=============================================================================
