-------------------------- MODULE AccountTurnsProofs --------------------------
(***************************************************************************)
(* For any requests, any number of turns, attempts, expiries, failures and *)
(* restarts: what an account turn confirms is durable, and what it writes  *)
(* is verified.                                                            *)
(***************************************************************************)
EXTENDS AccountTurns, ConversationProofs

(* Who may say a code, and what it opens.                                  *)
VerificationInv ==
    /\ LockedByAttempts
    /\ challenge = "awaiting" => pending # NoRequest /\ ~verified
    /\ verified => matched

(* The executor's thread works for the turn that is in the router; past    *)
(* the gate a known session is verified until the thread returns.          *)
ToolInv ==
    /\ tool # Idle => /\ tool.turn \in Turns /\ at[tool.turn] = "inference"
                      /\ tool.step # "idle"
    /\ tool.step = "unverified" => ~verified
    /\ tool.step = "handler" /\ registered /\ request[tool.turn] \in Protected =>
            matched /\ challenge = "none"

(* How far a write has got.                                                *)
WrittenIsRecorded ==
    /\ tool.step \in {"event", "submit", "written"} =>
            request[tool.turn] \in Writes /\ records[request[tool.turn]] > 0
    /\ tool.step = "written" => Job[request[tool.turn]] \in jobs

RememberedIsRecorded ==
    \A k \in remembered : \E r \in Writes : Key[r] = k /\ OnRecord(r)

NothingToldYet == \A g \in Turns : at[g] \notin {"none", "replying"} => told[g] = "other"

(* DigitsStayLocal carries the argument: while a turn is in the router     *)
(* nobody can say a code, so what its thread saw at the gate still holds.  *)
AccountInv ==
    /\ AccountTypeOK
    /\ VerificationInv
    /\ ToolInv
    /\ WrittenIsRecorded
    /\ RememberedIsRecorded
    /\ NothingToldYet
    /\ ToldIsDurable
    /\ UndeliveredIsUnderWay

(* A row whose key is not lost: the guard knows its key, and nobody who     *)
(* passed the check before that is left; or the thread that wrote it has   *)
(* not returned.                                                           *)
Guarded(r) ==
    /\ Key[r] \in remembered
    /\ \A g \in Turns : at[g] \in {"waiting", "inference"} => Key[request[g]] # Key[r]

InHand(r) == tool.step \in {"event", "submit", "written"} /\ Key[request[tool.turn]] = Key[r]

GuardInv ==
    /\ RepeatsAreExcused
    /\ \A r \in Writes :
          records[r] > 0 /\ Key[r] # NoKey /\ Key[r] \notin lost => Guarded(r) \/ InHand(r)

IInv == ConversationInv /\ AccountInv /\ GuardInv

-----------------------------------------------------------------------------
(* What the thread returns is the result of the turn in the router.        *)
LEMMA WorksForRouter ==
    ASSUME ToolInv, OnlyNewestProceeds, NEW g \in Turns, at[g] = "inference",
           tool.step # "idle"
    PROVE  tool.turn = g
  <1>1. tool # Idle
    BY DEF Idle
  <1> QED
    BY <1>1 DEF ToolInv, OnlyNewestProceeds

(* A new turn does not touch the thread: its request is not the thread's.   *)
LEMMA AsksStep ==
    ASSUME IInv, NEW r \in Requests, Asks(r)
    PROVE  AccountInv'
  <1> USE AccountAssumption, TurnsAssumption
      DEF IInv, AccountInv, ConversationInv, ConversationTypeOK, AccountTypeOK, Asks,
          Accept, verificationVars, toolVars, counters, history
  <1>1. ToolInv'
    BY DEF ToolInv, Idle, FutureIsEmpty
  <1>2. WrittenIsRecorded'
    BY DEF WrittenIsRecorded, ToolInv, Idle, FutureIsEmpty
  <1>3. UndeliveredIsUnderWay'
    BY DEF UndeliveredIsUnderWay, ToolInv, Idle, FutureIsEmpty
  <1>4. /\ AccountTypeOK'
        /\ VerificationInv'
        /\ RememberedIsRecorded'
        /\ NothingToldYet'
        /\ ToldIsDurable'
    BY DEF AccountTypeOK, VerificationInv, LockedByAttempts, RememberedIsRecorded, OnRecord,
       NothingToldYet, ToldIsDurable
  <1> QED
    BY <1>1, <1>2, <1>3, <1>4

(* A barge-in changes nothing that the account knows of.                    *)
LEMMA BargesInStep ==
    ASSUME IInv, BargesIn
    PROVE  AccountInv'
  <1> USE AccountAssumption, TurnsAssumption
      DEF IInv, AccountInv, ConversationInv, ConversationTypeOK, AccountTypeOK, BargesIn,
          Interrupt, accountVars, verificationVars, toolVars, counters, history
  <1>1. /\ AccountTypeOK'
        /\ VerificationInv'
        /\ ToolInv'
        /\ WrittenIsRecorded'
        /\ RememberedIsRecorded'
        /\ NothingToldYet'
        /\ ToldIsDurable'
        /\ UndeliveredIsUnderWay'
    BY DEF AccountTypeOK, VerificationInv, LockedByAttempts, ToolInv, WrittenIsRecorded,
       RememberedIsRecorded, OnRecord, NothingToldYet, ToldIsDurable, UndeliveredIsUnderWay
  <1> QED
    BY <1>1

(* The thread is idle while a code is awaited, so nothing it saw changes.   *)
LEMMA CodeMatchesStep ==
    ASSUME IInv, NEW g \in Turns, CodeMatches(g)
    PROVE  AccountInv'
  <1> USE AccountAssumption, TurnsAssumption
      DEF IInv, AccountInv, ConversationInv, ConversationTypeOK, AccountTypeOK, CodeMatches,
          Verifies, Moves, toolVars, counters
  <1>1. AccountTypeOK'
    <2>1. pending \in Requests
      BY DEF VerificationInv
    <2>2. /\ request' \in [Turns -> Requests \cup {NoRequest}]
          /\ \A h \in Turns : at'[h] # "none" => request'[h] # NoRequest
      BY <2>1
    <2>3. attempts' \in 0 .. MaxAttempts
      OBVIOUS
    <2> QED
      BY <2>2, <2>3
  <1>2. ToolInv'
    BY DEF ToolInv, Idle, DigitsStayLocal
  <1>3. WrittenIsRecorded'
    BY DEF WrittenIsRecorded, ToolInv, Idle
  <1>4. UndeliveredIsUnderWay'
    BY DEF UndeliveredIsUnderWay, ToolInv, Idle, FutureIsEmpty
  <1>5. /\ VerificationInv'
        /\ RememberedIsRecorded'
        /\ NothingToldYet'
        /\ ToldIsDurable'
    BY DEF VerificationInv, LockedByAttempts, RememberedIsRecorded, OnRecord,
       NothingToldYet, ToldIsDurable
  <1> QED
    BY <1>1, <1>2, <1>3, <1>4, <1>5

(* An unlocked session has attempts left.                                   *)
LEMMA CodeDiffersStep ==
    ASSUME IInv, NEW g \in Turns, CodeDiffers(g)
    PROVE  AccountInv'
  <1> USE AccountAssumption, TurnsAssumption
      DEF IInv, AccountInv, ConversationInv, ConversationTypeOK, AccountTypeOK, CodeDiffers,
          Locks, Reprompts, Moves, toolVars, counters
  <1>1. AccountTypeOK'
    <2>1. attempts' \in 0 .. MaxAttempts
      BY DEF VerificationInv, LockedByAttempts
    <2> QED
      BY <2>1
  <1>2. ToldIsDurable'
    BY DEF ToldIsDurable, OnRecord, NothingToldYet
  <1>3. /\ VerificationInv'
        /\ ToolInv'
        /\ WrittenIsRecorded'
        /\ RememberedIsRecorded'
        /\ NothingToldYet'
        /\ UndeliveredIsUnderWay'
    BY DEF VerificationInv, LockedByAttempts, ToolInv, WrittenIsRecorded,
       RememberedIsRecorded, OnRecord, NothingToldYet, UndeliveredIsUnderWay
  <1> QED
    BY <1>1, <1>2, <1>3

(* Something else was said: nothing was told before, nothing is now.        *)
LEMMA NotACodeStep ==
    ASSUME IInv, NEW g \in Turns, NotACode(g)
    PROVE  AccountInv'
  <1> USE AccountAssumption, TurnsAssumption
      DEF IInv, AccountInv, ConversationInv, ConversationTypeOK, AccountTypeOK, NotACode,
          Reprompts, Moves, accountVars, verificationVars, toolVars, counters, history
  <1>1. ToldIsDurable'
    BY DEF ToldIsDurable, OnRecord, NothingToldYet
  <1>2. /\ AccountTypeOK'
        /\ VerificationInv'
        /\ ToolInv'
        /\ WrittenIsRecorded'
        /\ RememberedIsRecorded'
        /\ NothingToldYet'
        /\ UndeliveredIsUnderWay'
    BY DEF AccountTypeOK, VerificationInv, LockedByAttempts, ToolInv, WrittenIsRecorded,
       RememberedIsRecorded, OnRecord, NothingToldYet, UndeliveredIsUnderWay
  <1> QED
    BY <1>1, <1>2

(* The resumed request is a turn like any other.                            *)
LEMMA ResumesRequestStep ==
    ASSUME IInv, NEW g \in Turns, ResumesRequest(g)
    PROVE  AccountInv'
  <1> USE AccountAssumption, TurnsAssumption
      DEF IInv, AccountInv, ConversationInv, ConversationTypeOK, AccountTypeOK,
          ResumesRequest, Resumes, Moves, verificationVars, toolVars, counters
  <1>1. /\ AccountTypeOK'
        /\ VerificationInv'
        /\ ToolInv'
        /\ WrittenIsRecorded'
        /\ RememberedIsRecorded'
        /\ NothingToldYet'
        /\ ToldIsDurable'
        /\ UndeliveredIsUnderWay'
    BY DEF AccountTypeOK, VerificationInv, LockedByAttempts, ToolInv, WrittenIsRecorded,
       RememberedIsRecorded, OnRecord, NothingToldYet, ToldIsDurable, UndeliveredIsUnderWay
  <1> QED
    BY <1>1

(* What is remembered is on record.                                         *)
LEMMA SaysDuplicateStep ==
    ASSUME IInv, NEW g \in Turns, SaysDuplicate(g)
    PROVE  AccountInv'
  <1> USE AccountAssumption, TurnsAssumption
      DEF IInv, AccountInv, ConversationInv, ConversationTypeOK, AccountTypeOK,
          SaysDuplicate, Replies, Moves, verificationVars, toolVars, counters, history
  <1>1. ToldIsDurable'
    BY DEF ToldIsDurable, OnRecord, NothingToldYet, RememberedIsRecorded, IsDuplicate
  <1>2. /\ AccountTypeOK'
        /\ VerificationInv'
        /\ ToolInv'
        /\ WrittenIsRecorded'
        /\ RememberedIsRecorded'
        /\ NothingToldYet'
        /\ UndeliveredIsUnderWay'
    BY DEF AccountTypeOK, VerificationInv, LockedByAttempts, ToolInv, WrittenIsRecorded,
       RememberedIsRecorded, OnRecord, NothingToldYet, UndeliveredIsUnderWay
  <1> QED
    BY <1>1, <1>2

(* Queueing for the router.                                                 *)
LEMMA GoesToRouterStep ==
    ASSUME IInv, NEW g \in Turns, GoesToRouter(g)
    PROVE  AccountInv'
  <1> USE AccountAssumption, TurnsAssumption
      DEF IInv, AccountInv, ConversationInv, ConversationTypeOK, AccountTypeOK,
          GoesToRouter, Waits, Moves, accountVars, verificationVars, toolVars, counters,
          history
  <1>1. /\ AccountTypeOK'
        /\ VerificationInv'
        /\ ToolInv'
        /\ WrittenIsRecorded'
        /\ RememberedIsRecorded'
        /\ NothingToldYet'
        /\ ToldIsDurable'
        /\ UndeliveredIsUnderWay'
    BY DEF AccountTypeOK, VerificationInv, LockedByAttempts, ToolInv, WrittenIsRecorded,
       RememberedIsRecorded, OnRecord, NothingToldYet, ToldIsDurable, UndeliveredIsUnderWay
  <1> QED
    BY <1>1

(* Entering it.                                                             *)
LEMMA EntersRouterStep ==
    ASSUME IInv, NEW g \in Turns, EntersRouter(g)
    PROVE  AccountInv'
  <1> USE AccountAssumption, TurnsAssumption
      DEF IInv, AccountInv, ConversationInv, ConversationTypeOK, AccountTypeOK,
          EntersRouter, Enters, Moves, accountVars, verificationVars, toolVars, counters,
          history
  <1>1. /\ AccountTypeOK'
        /\ VerificationInv'
        /\ ToolInv'
        /\ WrittenIsRecorded'
        /\ RememberedIsRecorded'
        /\ NothingToldYet'
        /\ ToldIsDurable'
        /\ UndeliveredIsUnderWay'
    BY DEF AccountTypeOK, VerificationInv, LockedByAttempts, ToolInv, WrittenIsRecorded,
       RememberedIsRecorded, OnRecord, NothingToldYet, ToldIsDurable, UndeliveredIsUnderWay
  <1> QED
    BY <1>1

(* The gate: nobody awaits a code, and the session is known or not.         *)
LEMMA CallsToolStep ==
    ASSUME IInv, NEW g \in Turns, CallsTool(g)
    PROVE  AccountInv'
  <1> USE AccountAssumption, TurnsAssumption
      DEF IInv, AccountInv, ConversationInv, ConversationTypeOK, AccountTypeOK, CallsTool,
          conversationVars, verificationVars, history, threadOnly
  <1>1. AccountTypeOK'
    BY DEF AccountTypeOK, ToolSteps
  <1>2. ToolInv'
    <2>1. challenge # "awaiting"
      BY DEF DigitsStayLocal
    <2>2. /\ tool'.turn = g /\ tool'.step \in {"unverified", "handler"}
          /\ tool'.step = "unverified" => ~CurrentVerified
          /\ tool'.step = "handler" => request[g] \notin Protected \/ CurrentVerified
      OBVIOUS
    <2>3. CurrentVerified /\ registered => matched /\ challenge = "none"
      BY <2>1 DEF CurrentVerified, VerificationInv
    <2>4. ~CurrentVerified => ~verified
      BY DEF CurrentVerified, VerificationInv, LockedByAttempts
    <2> QED
      BY <2>2, <2>3, <2>4 DEF ToolInv
  <1>3. UndeliveredIsUnderWay'
    BY DEF UndeliveredIsUnderWay, Idle
  <1>4. /\ VerificationInv'
        /\ WrittenIsRecorded'
        /\ RememberedIsRecorded'
        /\ NothingToldYet'
        /\ ToldIsDurable'
    BY DEF VerificationInv, LockedByAttempts, WrittenIsRecorded, RememberedIsRecorded,
       OnRecord, NothingToldYet, ToldIsDurable
  <1> QED
    BY <1>1, <1>2, <1>3, <1>4

(* The thread goes on; the turn it works for stays in the router.           *)
LEMMA ToolRefusesStep ==
    ASSUME IInv, ToolRefuses
    PROVE  AccountInv'
  <1> USE AccountAssumption, TurnsAssumption
      DEF IInv, AccountInv, ConversationInv, ConversationTypeOK, AccountTypeOK, ToolRefuses,
          conversationVars, verificationVars, history, threadOnly
  <1>1. AccountTypeOK'
    BY DEF AccountTypeOK, ToolSteps
  <1>2. ToolInv'
    BY DEF ToolInv, Idle
  <1>3. /\ VerificationInv'
        /\ WrittenIsRecorded'
        /\ RememberedIsRecorded'
        /\ NothingToldYet'
        /\ ToldIsDurable'
        /\ UndeliveredIsUnderWay'
    BY DEF VerificationInv, LockedByAttempts, WrittenIsRecorded, RememberedIsRecorded,
       OnRecord, NothingToldYet, ToldIsDurable, UndeliveredIsUnderWay
  <1> QED
    BY <1>1, <1>2, <1>3

(* The same without a write.                                                *)
LEMMA ToolReadsStep ==
    ASSUME IInv, ToolReads
    PROVE  AccountInv'
  <1> USE AccountAssumption, TurnsAssumption
      DEF IInv, AccountInv, ConversationInv, ConversationTypeOK, AccountTypeOK, ToolReads,
          conversationVars, verificationVars, history, threadOnly
  <1>1. AccountTypeOK'
    BY DEF AccountTypeOK, ToolSteps
  <1>2. ToolInv'
    BY DEF ToolInv, Idle
  <1>3. /\ VerificationInv'
        /\ WrittenIsRecorded'
        /\ RememberedIsRecorded'
        /\ NothingToldYet'
        /\ ToldIsDurable'
        /\ UndeliveredIsUnderWay'
    BY DEF VerificationInv, LockedByAttempts, WrittenIsRecorded, RememberedIsRecorded,
       OnRecord, NothingToldYet, ToldIsDurable, UndeliveredIsUnderWay
  <1> QED
    BY <1>1, <1>2, <1>3

(* The row is written.                                                      *)
LEMMA ToolRecordsStep ==
    ASSUME IInv, ToolRecords
    PROVE  AccountInv'
  <1> USE AccountAssumption, TurnsAssumption
      DEF IInv, AccountInv, ConversationInv, ConversationTypeOK, AccountTypeOK, ToolRecords,
          conversationVars, verificationVars, history, threadOnly
  <1>1. AccountTypeOK'
    BY DEF AccountTypeOK, ToolSteps
  <1>2. ToolInv'
    BY DEF ToolInv, Idle
  <1>3. /\ VerificationInv'
        /\ WrittenIsRecorded'
        /\ RememberedIsRecorded'
        /\ NothingToldYet'
        /\ ToldIsDurable'
        /\ UndeliveredIsUnderWay'
    BY DEF VerificationInv, LockedByAttempts, WrittenIsRecorded, RememberedIsRecorded,
       OnRecord, NothingToldYet, ToldIsDurable, UndeliveredIsUnderWay
  <1> QED
    BY <1>1, <1>2, <1>3

(* The call event is written.                                               *)
LEMMA ToolAddsCallEventStep ==
    ASSUME IInv, ToolAddsCallEvent
    PROVE  AccountInv'
  <1> USE AccountAssumption, TurnsAssumption
      DEF IInv, AccountInv, ConversationInv, ConversationTypeOK, AccountTypeOK,
          ToolAddsCallEvent, conversationVars, verificationVars, history, threadOnly
  <1>1. AccountTypeOK'
    BY DEF AccountTypeOK, ToolSteps
  <1>2. ToolInv'
    BY DEF ToolInv, Idle
  <1>3. /\ VerificationInv'
        /\ WrittenIsRecorded'
        /\ RememberedIsRecorded'
        /\ NothingToldYet'
        /\ ToldIsDurable'
        /\ UndeliveredIsUnderWay'
    BY DEF VerificationInv, LockedByAttempts, WrittenIsRecorded, RememberedIsRecorded,
       OnRecord, NothingToldYet, ToldIsDurable, UndeliveredIsUnderWay
  <1> QED
    BY <1>1, <1>2, <1>3

(* The job is submitted.                                                    *)
LEMMA ToolSubmitsJobStep ==
    ASSUME IInv, ToolSubmitsJob
    PROVE  AccountInv'
  <1> USE AccountAssumption, TurnsAssumption
      DEF IInv, AccountInv, ConversationInv, ConversationTypeOK, AccountTypeOK,
          ToolSubmitsJob, conversationVars, verificationVars, history, threadOnly
  <1>1. AccountTypeOK'
    <2>1. request[tool.turn] \in Writes
      BY DEF WrittenIsRecorded
    <2>2. jobs' \subseteq {Job[r] : r \in Writes}
      BY <2>1
    <2>3. tool' \in [step : ToolSteps, turn : Turns \cup {0}]
      BY DEF ToolSteps
    <2> QED
      BY <2>2, <2>3
  <1>2. ToolInv'
    BY DEF ToolInv, Idle
  <1>3. /\ VerificationInv'
        /\ WrittenIsRecorded'
        /\ RememberedIsRecorded'
        /\ NothingToldYet'
        /\ ToldIsDurable'
        /\ UndeliveredIsUnderWay'
    BY DEF VerificationInv, LockedByAttempts, WrittenIsRecorded, RememberedIsRecorded,
       OnRecord, NothingToldYet, ToldIsDurable, UndeliveredIsUnderWay
  <1> QED
    BY <1>1, <1>2, <1>3

(* A transaction fails, which is counted.                                   *)
LEMMA ToolFailsStep ==
    ASSUME IInv, ToolFails
    PROVE  AccountInv'
  <1> USE AccountAssumption, TurnsAssumption
      DEF IInv, AccountInv, ConversationInv, ConversationTypeOK, AccountTypeOK, ToolFails,
          conversationVars, verificationVars, history, threadOnly
  <1>1. AccountTypeOK'
    <2>1. lost' \subseteq {Key[r] : r \in Writes}
      BY DEF WrittenIsRecorded
    <2> QED
      BY <2>1 DEF ToolSteps
  <1>2. ToolInv'
    BY DEF ToolInv, Idle
  <1>3. /\ VerificationInv'
        /\ WrittenIsRecorded'
        /\ RememberedIsRecorded'
        /\ NothingToldYet'
        /\ ToldIsDurable'
        /\ UndeliveredIsUnderWay'
    BY DEF VerificationInv, LockedByAttempts, WrittenIsRecorded, RememberedIsRecorded,
       OnRecord, NothingToldYet, ToldIsDurable, UndeliveredIsUnderWay
  <1> QED
    BY <1>1, <1>2, <1>3

(* A stale result is dropped: what is durable stays so.                     *)
LEMMA DiscardsResultStep ==
    ASSUME IInv, NEW g \in Turns, DiscardsResult(g)
    PROVE  AccountInv'
  <1> USE AccountAssumption, TurnsAssumption
      DEF IInv, AccountInv, ConversationInv, ConversationTypeOK, AccountTypeOK,
          DiscardsResult, Discards, Moves, verificationVars, counters, history
  <1>1. AccountTypeOK'
    <2>1. lost' \subseteq {Key[r] : r \in Writes}
      BY WorksForRouter DEF WrittenIsRecorded
    <2> QED
      BY <2>1 DEF ToolSteps, Idle
  <1>2. ToolInv'
    BY DEF ToolInv, Idle
  <1>3. WrittenIsRecorded'
    BY DEF WrittenIsRecorded, Idle
  <1>4. /\ VerificationInv'
        /\ RememberedIsRecorded'
        /\ NothingToldYet'
        /\ ToldIsDurable'
        /\ UndeliveredIsUnderWay'
    BY DEF VerificationInv, LockedByAttempts, RememberedIsRecorded, OnRecord,
       NothingToldYet, ToldIsDurable, UndeliveredIsUnderWay
  <1> QED
    BY <1>1, <1>2, <1>3, <1>4

(* A challenge begins where the gate saw no verification.                   *)
LEMMA BeginsChallengeStep ==
    ASSUME IInv, NEW g \in Turns, BeginsChallenge(g)
    PROVE  AccountInv'
  <1> USE AccountAssumption, TurnsAssumption
      DEF IInv, AccountInv, ConversationInv, ConversationTypeOK, AccountTypeOK,
          BeginsChallenge, Challenges, Moves, counters
  <1>1. AccountTypeOK'
    BY DEF AccountTypeOK, ToolSteps, Idle
  <1>2. VerificationInv'
    BY DEF VerificationInv, LockedByAttempts, ToolInv, Idle
  <1>3. ToolInv'
    BY DEF ToolInv, Idle
  <1>4. WrittenIsRecorded'
    BY DEF WrittenIsRecorded, Idle
  <1>5. ToldIsDurable'
    BY DEF ToldIsDurable, OnRecord, NothingToldYet
  <1>6. RememberedIsRecorded' /\ NothingToldYet' /\ UndeliveredIsUnderWay'
    BY DEF RememberedIsRecorded, OnRecord, NothingToldYet, UndeliveredIsUnderWay
  <1> QED
    BY <1>1, <1>2, <1>3, <1>4, <1>5, <1>6

(* The newest turn tells what its own thread has made durable.              *)
LEMMA SaysDoneStep ==
    ASSUME IInv, NEW g \in Turns, SaysDone(g)
    PROVE  AccountInv'
  <1> USE AccountAssumption, TurnsAssumption
      DEF IInv, AccountInv, ConversationInv, ConversationTypeOK, AccountTypeOK, SaysDone,
          Answers, Moves, verificationVars, counters, history
  <1>1. AccountTypeOK'
    <2>1. tool.turn = g
      BY WorksForRouter
    <2>2. request[g] \in Writes
      BY <2>1 DEF WrittenIsRecorded
    <2>3. remembered' \subseteq {Key[r] : r \in Writes}
      BY <2>2
    <2>4. tool' \in [step : ToolSteps, turn : Turns \cup {0}]
      BY DEF ToolSteps, Idle
    <2>5. told' \in [Turns -> {"other", "done", "duplicate"}]
      OBVIOUS
    <2> QED
      BY <2>3, <2>4, <2>5
  <1>2. ToolInv'
    BY DEF ToolInv, Idle
  <1>3. WrittenIsRecorded'
    BY DEF WrittenIsRecorded, Idle
  <1>4. RememberedIsRecorded'
    <2>1. tool.turn = g
      BY WorksForRouter
    <2>2. request[g] \in Writes /\ OnRecord(request[g])
      BY <2>1 DEF WrittenIsRecorded, OnRecord
    <2> QED
      BY <2>2 DEF RememberedIsRecorded, OnRecord
  <1>5. ToldIsDurable'
    <2>1. tool.turn = g
      BY WorksForRouter
    <2>2. OnRecord(request[g])
      BY <2>1 DEF WrittenIsRecorded, OnRecord
    <2>3. \A h \in Turns \ {g} : at'[h] = at[h] /\ told'[h] = told[h]
      OBVIOUS
    <2>4. told'[g] = "done"
      OBVIOUS
    <2> QED
      BY <2>2, <2>3, <2>4 DEF ToldIsDurable, OnRecord
  <1>6. VerificationInv' /\ NothingToldYet' /\ UndeliveredIsUnderWay'
    BY DEF VerificationInv, LockedByAttempts, NothingToldYet, UndeliveredIsUnderWay
  <1> QED
    BY <1>1, <1>2, <1>3, <1>4, <1>5, <1>6

(* Another answer confirms nothing.                                         *)
LEMMA SaysOtherStep ==
    ASSUME IInv, NEW g \in Turns, SaysOther(g)
    PROVE  AccountInv'
  <1> USE AccountAssumption, TurnsAssumption
      DEF IInv, AccountInv, ConversationInv, ConversationTypeOK, AccountTypeOK, SaysOther,
          Answers, Moves, verificationVars, counters, history
  <1>1. AccountTypeOK'
    BY DEF AccountTypeOK, ToolSteps, Idle
  <1>2. ToolInv'
    BY DEF ToolInv, Idle
  <1>3. WrittenIsRecorded'
    BY DEF WrittenIsRecorded, Idle
  <1>4. ToldIsDurable'
    BY DEF ToldIsDurable, OnRecord, NothingToldYet
  <1>5. /\ VerificationInv'
        /\ RememberedIsRecorded'
        /\ NothingToldYet'
        /\ UndeliveredIsUnderWay'
    BY DEF VerificationInv, LockedByAttempts, RememberedIsRecorded, OnRecord,
       NothingToldYet, UndeliveredIsUnderWay
  <1> QED
    BY <1>1, <1>2, <1>3, <1>4, <1>5

(* An exception confirms nothing.                                           *)
LEMMA RaisesOutOfToolStep ==
    ASSUME IInv, NEW g \in Turns, RaisesOutOfTool(g)
    PROVE  AccountInv'
  <1> USE AccountAssumption, TurnsAssumption
      DEF IInv, AccountInv, ConversationInv, ConversationTypeOK, AccountTypeOK,
          RaisesOutOfTool, Ends, verificationVars, counters, history
  <1>1. AccountTypeOK'
    BY DEF AccountTypeOK, ToolSteps, Idle
  <1>2. ToolInv'
    BY DEF ToolInv, Idle
  <1>3. WrittenIsRecorded'
    BY DEF WrittenIsRecorded, Idle
  <1>4. /\ VerificationInv'
        /\ RememberedIsRecorded'
        /\ NothingToldYet'
        /\ ToldIsDurable'
        /\ UndeliveredIsUnderWay'
    BY DEF VerificationInv, LockedByAttempts, RememberedIsRecorded, OnRecord,
       NothingToldYet, ToldIsDurable, UndeliveredIsUnderWay
  <1> QED
    BY <1>1, <1>2, <1>3, <1>4

(* A reply is over.                                                         *)
LEMMA ReplyEndsStep ==
    ASSUME IInv, NEW g \in Turns, ReplyEnds(g)
    PROVE  AccountInv'
  <1> USE AccountAssumption, TurnsAssumption
      DEF IInv, AccountInv, ConversationInv, ConversationTypeOK, AccountTypeOK, ReplyEnds,
          Ends, accountVars, verificationVars, toolVars, counters, history
  <1>1. /\ AccountTypeOK'
        /\ VerificationInv'
        /\ ToolInv'
        /\ WrittenIsRecorded'
        /\ RememberedIsRecorded'
        /\ NothingToldYet'
        /\ ToldIsDurable'
        /\ UndeliveredIsUnderWay'
    BY DEF AccountTypeOK, VerificationInv, LockedByAttempts, ToolInv, WrittenIsRecorded,
       RememberedIsRecorded, OnRecord, NothingToldYet, ToldIsDurable, UndeliveredIsUnderWay
  <1> QED
    BY <1>1

(* A reply fails.                                                           *)
LEMMA ReplyFailsStep ==
    ASSUME IInv, NEW g \in Turns, ReplyFails(g)
    PROVE  AccountInv'
  <1> USE AccountAssumption, TurnsAssumption
      DEF IInv, AccountInv, ConversationInv, ConversationTypeOK, AccountTypeOK, ReplyFails,
          Ends, verificationVars, toolVars, history
  <1>1. /\ AccountTypeOK'
        /\ VerificationInv'
        /\ ToolInv'
        /\ WrittenIsRecorded'
        /\ RememberedIsRecorded'
        /\ NothingToldYet'
        /\ ToldIsDurable'
        /\ UndeliveredIsUnderWay'
    BY DEF AccountTypeOK, VerificationInv, LockedByAttempts, ToolInv, WrittenIsRecorded,
       RememberedIsRecorded, OnRecord, NothingToldYet, ToldIsDurable, UndeliveredIsUnderWay
  <1> QED
    BY <1>1

(* What expires, leaves and restarts.                                       *)
LEMMA VerificationExpiresStep ==
    ASSUME IInv, VerificationExpires
    PROVE  AccountInv'
  <1> USE AccountAssumption, TurnsAssumption
      DEF IInv, AccountInv, ConversationInv, ConversationTypeOK, AccountTypeOK,
          VerificationExpires, conversationVars, toolVars, history
  <1>1. AccountTypeOK'
    <2>1. expiries' \in 0 .. MaxExpiries
      OBVIOUS
    <2> QED
      BY <2>1
  <1>2. /\ VerificationInv'
        /\ ToolInv'
        /\ WrittenIsRecorded'
        /\ RememberedIsRecorded'
        /\ NothingToldYet'
        /\ ToldIsDurable'
        /\ UndeliveredIsUnderWay'
    BY DEF VerificationInv, LockedByAttempts, ToolInv, WrittenIsRecorded,
       RememberedIsRecorded, OnRecord, NothingToldYet, ToldIsDurable, UndeliveredIsUnderWay
  <1> QED
    BY <1>1, <1>2

(* A write is forgotten.                                                    *)
LEMMA RemembranceExpiresStep ==
    ASSUME IInv, NEW r \in Writes, RemembranceExpires(Key[r])
    PROVE  AccountInv'
  <1> USE AccountAssumption, TurnsAssumption
      DEF IInv, AccountInv, ConversationInv, ConversationTypeOK, AccountTypeOK,
          RemembranceExpires, conversationVars, verificationVars, toolVars, history
  <1>1. /\ AccountTypeOK'
        /\ VerificationInv'
        /\ ToolInv'
        /\ WrittenIsRecorded'
        /\ RememberedIsRecorded'
        /\ NothingToldYet'
        /\ ToldIsDurable'
        /\ UndeliveredIsUnderWay'
    BY DEF AccountTypeOK, VerificationInv, LockedByAttempts, ToolInv, WrittenIsRecorded,
       RememberedIsRecorded, OnRecord, NothingToldYet, ToldIsDurable, UndeliveredIsUnderWay
  <1> QED
    BY <1>1

(* An unknown session has no verification to keep.                          *)
LEMMA CloseSessionStep ==
    ASSUME IInv, CloseSession
    PROVE  AccountInv'
  <1> USE AccountAssumption, TurnsAssumption
      DEF IInv, AccountInv, ConversationInv, ConversationTypeOK, AccountTypeOK,
          CloseSession, Closes, toolVars, counters
  <1>1. AccountTypeOK'
    <2>1. attempts' \in 0 .. MaxAttempts
      OBVIOUS
    <2> QED
      BY <2>1
  <1>2. /\ VerificationInv'
        /\ ToolInv'
        /\ WrittenIsRecorded'
        /\ RememberedIsRecorded'
        /\ NothingToldYet'
        /\ ToldIsDurable'
        /\ UndeliveredIsUnderWay'
    BY DEF VerificationInv, LockedByAttempts, ToolInv, WrittenIsRecorded,
       RememberedIsRecorded, OnRecord, NothingToldYet, ToldIsDurable, UndeliveredIsUnderWay
  <1> QED
    BY <1>1, <1>2

(* A restart: the rows and the jobs stay.                                   *)
LEMMA CrashStep ==
    ASSUME IInv, Crash
    PROVE  AccountInv'
  <1> USE AccountAssumption, TurnsAssumption
      DEF IInv, AccountInv, ConversationInv, ConversationTypeOK, AccountTypeOK, Crash,
          Restarts
  <1>1. AccountTypeOK'
    <2>1. attempts' \in 0 .. MaxAttempts /\ crashes' \in 0 .. MaxCrashes
      OBVIOUS
    <2>2. tool' \in [step : ToolSteps, turn : Turns \cup {0}]
      BY DEF ToolSteps, Idle
    <2> QED
      BY <2>1, <2>2
  <1>2. ToolInv'
    BY DEF ToolInv, Idle
  <1>3. WrittenIsRecorded'
    BY DEF WrittenIsRecorded, Idle
  <1>4. /\ VerificationInv'
        /\ RememberedIsRecorded'
        /\ NothingToldYet'
        /\ ToldIsDurable'
        /\ UndeliveredIsUnderWay'
    BY DEF VerificationInv, LockedByAttempts, RememberedIsRecorded, OnRecord,
       NothingToldYet, ToldIsDurable, UndeliveredIsUnderWay
  <1> QED
    BY <1>1, <1>2, <1>3, <1>4

-----------------------------------------------------------------------------
(* The guard.  Where no row, no request in hand and nobody past the check  *)
(* is new, what held of a row still holds.                                 *)
LEMMA GuardKept ==
    ASSUME GuardInv, ConversationTypeOK,
           records' = records, lost \subseteq lost', remembered \subseteq remembered' \cup lost',
           \A g \in Turns : at'[g] \in {"waiting", "inference"} =>
                at[g] \in {"waiting", "inference"} /\ request'[g] = request[g],
           \A r \in Writes : InHand(r) /\ Key[r] \notin lost' => InHand(r)'
    PROVE  GuardInv'
  BY DEF GuardInv, RepeatsAreExcused, Guarded

(* Turns come, go and are asked for codes.                                 *)
LEMMA GuardTurnStep ==
    ASSUME IInv,
           \/ \E r \in Requests : Asks(r)
           \/ BargesIn \/ CloseSession \/ VerificationExpires
           \/ \E g \in Turns :
                \/ Consumes(g) \/ ResumesRequest(g) \/ SaysDuplicate(g) \/ EntersRouter(g)
                \/ ReplyEnds(g) \/ ReplyFails(g)
    PROVE  GuardInv'
  <1> USE AccountAssumption, TurnsAssumption
      DEF IInv, AccountInv, ConversationInv, ConversationTypeOK, AccountTypeOK, toolVars
  <1>1. ASSUME NEW r \in Requests, Asks(r) PROVE GuardInv'
    <2>1. tool # Idle => tool.turn \in Turns /\ tool.turn # newest + 1
      BY DEF ToolInv, FutureIsEmpty
    <2> QED
      BY <1>1, <2>1, GuardKept DEF Asks, Accept, InHand, Idle
  <1>2. CASE BargesIn \/ CloseSession \/ VerificationExpires
    BY <1>2, GuardKept DEF BargesIn, Interrupt, CloseSession, Closes, VerificationExpires,
       conversationVars, accountVars, InHand
  <1>3. ASSUME NEW g \in Turns, CodeMatches(g) PROVE GuardInv'
    <2>1. tool = Idle
      BY <1>3 DEF CodeMatches, Verifies, DigitsStayLocal, ToolInv
    <2> QED
      BY <1>3, <2>1, GuardKept DEF CodeMatches, Verifies, Moves, InHand, Idle
  <1>4. ASSUME NEW g \in Turns,
               \/ CodeDiffers(g) \/ NotACode(g) \/ ResumesRequest(g) \/ SaysDuplicate(g)
               \/ EntersRouter(g) \/ ReplyEnds(g) \/ ReplyFails(g)
        PROVE  GuardInv'
    <2>1. /\ UNCHANGED <<request, remembered, lost, tool, records>>
          /\ \A h \in Turns : at'[h] \in {"waiting", "inference"} =>
                at[h] \in {"waiting", "inference"}
      BY <1>4 DEF CodeDiffers, Locks, Reprompts, NotACode, ResumesRequest, Resumes,
         SaysDuplicate, Replies, EntersRouter, Enters, ReplyEnds, ReplyFails, Ends, Moves,
         accountVars
    <2> QED
      BY <2>1, GuardKept DEF InHand
  <1> QED
    BY <1>1, <1>2, <1>3, <1>4 DEF Consumes

(* Who passes the check has a key that is not remembered.                  *)
LEMMA GuardCheckStep ==
    ASSUME IInv, NEW g \in Turns, GoesToRouter(g)
    PROVE  GuardInv'
  <1>1. /\ UNCHANGED <<request, remembered, lost, tool, records>>
        /\ ~IsDuplicate(request[g])
        /\ \A h \in Turns \ {g} : at'[h] = at[h]
    BY DEF GoesToRouter, Waits, Moves, accountVars, toolVars, IInv, ConversationInv,
       ConversationTypeOK
  <1>2. ASSUME NEW r \in Writes, Key[r] # NoKey, Guarded(r) PROVE Guarded(r)'
    BY <1>1, <1>2 DEF Guarded, IsDuplicate
  <1> QED
    BY <1>1, <1>2 DEF IInv, GuardInv, RepeatsAreExcused, InHand

(* The thread writes the first row of a key, unless the key is lost.       *)
LEMMA GuardRecordsStep ==
    ASSUME IInv, ToolRecords
    PROVE  GuardInv'
  <1> USE AccountAssumption
      DEF IInv, AccountInv, AccountTypeOK, threadOnly, conversationVars, ToolRecords
  <1> DEFINE t == request[tool.turn]
  <1>1. /\ t \in Writes /\ tool.turn \in Turns /\ at[tool.turn] = "inference"
        /\ tool.step = "handler" /\ tool'.step = "event" /\ tool'.turn = tool.turn
    BY DEF ToolInv, Idle
  <1>2. ASSUME NEW r \in Writes, Key[r] = Key[t], Key[r] # NoKey, Key[r] \notin lost
        PROVE  records[r] = 0
    <2>1. ~Guarded(r) /\ ~InHand(r)
      BY <1>1, <1>2 DEF Guarded, InHand
    <2> QED
      BY <2>1, <1>2 DEF GuardInv
  <1>3. records' = [records EXCEPT ![t] = records[t] + 1]
    OBVIOUS
  <1>4. RepeatsAreExcused'
    <2> SUFFICES ASSUME NEW r \in Writes, NEW q \in Writes,
                        Key[r] = Key[q], Key[r] # NoKey, Key[r] \notin lost,
                        records'[r] > 0, records'[q] > 0
                 PROVE  r = q /\ records'[r] = 1
      BY DEF RepeatsAreExcused
    <2>1. CASE Key[r] = Key[t]
      <3>1. records[r] = 0 /\ records[q] = 0 /\ records[t] = 0
        BY <2>1, <1>1, <1>2
      <3>2. r = t /\ q = t
        BY <3>1, <1>3
      <3> QED
        BY <3>1, <3>2, <1>3
    <2>2. CASE Key[r] # Key[t]
      BY <2>2, <1>1, <1>3 DEF GuardInv, RepeatsAreExcused
    <2> QED
      BY <2>1, <2>2
  <1>5. ASSUME NEW r \in Writes, records'[r] > 0, Key[r] # NoKey, Key[r] \notin lost
        PROVE  Guarded(r)' \/ InHand(r)'
    <2>1. CASE Key[r] = Key[t]
      BY <2>1, <1>1 DEF InHand
    <2>2. CASE Key[r] # Key[t]
      BY <2>2, <1>1, <1>3, <1>5 DEF GuardInv, Guarded, InHand
    <2> QED
      BY <2>1, <2>2
  <1> QED
    BY <1>4, <1>5 DEF GuardInv

(* The thread starts, and goes on; a failure with a row in hand loses it.  *)
LEMMA GuardToolStep ==
    ASSUME IInv, (\E g \in Turns : CallsTool(g)) \/ Tool
    PROVE  GuardInv'
  <1> USE DEF IInv, AccountInv, ConversationInv, AccountTypeOK, threadOnly, conversationVars
  <1>1. CASE (\E g \in Turns : CallsTool(g)) \/ ToolRefuses \/ ToolReads
    <2>1. UNCHANGED <<conversationVars, request, remembered, lost, records>>
      BY <1>1 DEF CallsTool, ToolRefuses, ToolReads
    <2>2. \A r \in Writes : ~InHand(r)
      BY <1>1 DEF CallsTool, ToolRefuses, ToolReads, InHand, Idle
    <2> QED
      BY <2>1, <2>2, GuardKept
  <1>2. CASE ToolAddsCallEvent \/ ToolSubmitsJob
    BY <1>2, GuardKept DEF ToolAddsCallEvent, ToolSubmitsJob, InHand
  <1>3. CASE ToolFails
    <2>1. UNCHANGED <<conversationVars, request, remembered, records>>
      BY <1>3 DEF ToolFails
    <2>2. /\ lost \subseteq lost'
          /\ \A r \in Writes : InHand(r) => Key[r] \in lost'
      BY <1>3 DEF ToolFails, InHand
    <2> QED
      BY <2>1, <2>2, GuardKept
  <1>4. CASE ToolRecords
    BY <1>4, GuardRecordsStep
  <1> QED
    BY <1>1, <1>2, <1>3, <1>4 DEF Tool

(* The turn that says the write is done is alone, so nobody passed the     *)
(* check before its key was there.                                         *)
LEMMA GuardDoneStep ==
    ASSUME IInv, NEW g \in Turns, SaysDone(g)
    PROVE  GuardInv'
  <1> USE DEF IInv, AccountInv, ConversationInv, ConversationTypeOK, AccountTypeOK,
              SaysDone, Answers, Moves
  <1>1. /\ UNCHANGED <<request, lost, records>>
        /\ g = newest /\ at[g] = "inference" /\ tool.turn = g
        /\ remembered' = remembered \cup {Key[request[g]]}
    BY WorksForRouter
  <1>2. \A h \in Turns : at'[h] \notin {"waiting", "inference"}
    BY <1>1 DEF OnlyNewestProceeds
  <1>3. ASSUME NEW r \in Writes, Guarded(r) \/ InHand(r) PROVE Guarded(r)'
    BY <1>1, <1>2, <1>3 DEF Guarded, InHand
  <1> QED
    BY <1>1, <1>3 DEF GuardInv, RepeatsAreExcused

(* Every other return drops a thread with no row in hand, or loses its key.*)
LEMMA GuardReturnStep ==
    ASSUME IInv, NEW g \in Turns, Returns(g)
    PROVE  GuardInv'
  <1> USE DEF IInv, AccountInv, ConversationInv, ConversationTypeOK, AccountTypeOK
  <1>1. CASE SaysDone(g)
    BY <1>1, GuardDoneStep
  <1>2. CASE DiscardsResult(g) \/ BeginsChallenge(g) \/ SaysOther(g) \/ RaisesOutOfTool(g)
    <2>1. /\ UNCHANGED <<request, remembered, records>> /\ lost \subseteq lost'
          /\ \A h \in Turns \ {g} : at'[h] = at[h]
          /\ at'[g] \notin {"waiting", "inference"} /\ at[g] = "inference"
      BY <1>2 DEF DiscardsResult, Discards, BeginsChallenge, Challenges, SaysOther, Answers,
         RaisesOutOfTool, Ends, Moves
    <2>2. \A r \in Writes : InHand(r) => Key[r] \in lost'
      BY <1>2, <2>1, WorksForRouter
         DEF DiscardsResult, BeginsChallenge, SaysOther, RaisesOutOfTool, InHand
    <2> QED
      BY <2>1, <2>2, GuardKept
  <1> QED
    BY <1>1, <1>2 DEF Returns

(* What expires or a restart forgets is lost.                              *)
LEMMA GuardForgetsStep ==
    ASSUME IInv, Crash \/ \E r \in Writes : RemembranceExpires(Key[r])
    PROVE  GuardInv'
  <1> USE DEF IInv, AccountInv, ConversationInv, ConversationTypeOK, AccountTypeOK
  <1>1. ASSUME NEW r \in Writes, RemembranceExpires(Key[r]) PROVE GuardInv'
    BY <1>1, GuardKept DEF RemembranceExpires, conversationVars, toolVars, InHand
  <1>2. CASE Crash
    <2>1. \A r \in Writes : records'[r] > 0 => Key[r] \in lost'
      BY <1>2 DEF Crash
    <2> QED
      BY <2>1 DEF GuardInv, RepeatsAreExcused
  <1> QED
    BY <1>1, <1>2

(* Every step keeps the guard's rows apart.                                *)
LEMMA GuardStep ==
    ASSUME IInv, [Next]_vars
    PROVE  GuardInv'
  <1>1. CASE UNCHANGED vars
    BY <1>1 DEF vars, conversationVars, accountVars, toolVars, IInv, GuardInv,
       RepeatsAreExcused, Guarded, InHand
  <1>2. CASE \/ \E r \in Requests : Asks(r)
            \/ BargesIn \/ CloseSession \/ VerificationExpires
            \/ \E g \in Turns :
                 \/ Consumes(g) \/ ResumesRequest(g) \/ SaysDuplicate(g) \/ EntersRouter(g)
                 \/ ReplyEnds(g) \/ ReplyFails(g)
    BY <1>2, GuardTurnStep
  <1>3. CASE \E g \in Turns : GoesToRouter(g)
    BY <1>3, GuardCheckStep
  <1>4. CASE (\E g \in Turns : CallsTool(g)) \/ Tool
    BY <1>4, GuardToolStep
  <1>5. CASE \E g \in Turns : Returns(g)
    BY <1>5, GuardReturnStep
  <1>6. CASE Crash \/ \E r \in Writes : RemembranceExpires(Key[r])
    BY <1>6, GuardForgetsStep
  <1> QED
    BY <1>1, <1>2, <1>3, <1>4, <1>5, <1>6 DEF Next

-----------------------------------------------------------------------------
(* Nothing is verified, remembered, told or written yet.                   *)
LEMMA InitInv == Init => IInv
  <1> SUFFICES ASSUME Init PROVE IInv
    OBVIOUS
  <1>1. ConversationInv
    BY ConversationInitInv DEF Init
  <1>2. AccountTypeOK
    <2>1. /\ attempts \in 0 .. MaxAttempts /\ expiries \in 0 .. MaxExpiries
          /\ failures \in 0 .. MaxFailures /\ crashes \in 0 .. MaxCrashes
      BY AccountAssumption DEF Init
    <2>2. tool \in [step : ToolSteps, turn : Turns \cup {0}]
      BY DEF Init, Idle, ToolSteps
    <2>3. /\ request \in [Turns -> Requests \cup {NoRequest}]
          /\ told \in [Turns -> {"other", "done", "duplicate"}]
          /\ records \in [Requests -> Nat]
      BY DEF Init
    <2> QED
      BY <2>1, <2>2, <2>3 DEF Init, ConversationInit, AccountTypeOK
  <1>3. VerificationInv
    BY AccountAssumption DEF Init, ConversationInit, VerificationInv, LockedByAttempts
  <1>4. ToolInv /\ WrittenIsRecorded
    BY DEF Init, ToolInv, WrittenIsRecorded, Idle
  <1>5. RememberedIsRecorded /\ NothingToldYet /\ ToldIsDurable /\ UndeliveredIsUnderWay
    BY DEF Init, ConversationInit, RememberedIsRecorded, NothingToldYet, ToldIsDurable,
       UndeliveredIsUnderWay
  <1>6. GuardInv
    BY AccountAssumption DEF Init, GuardInv, RepeatsAreExcused
  <1> QED
    BY <1>1, <1>2, <1>3, <1>4, <1>5, <1>6 DEF IInv, AccountInv

(* Every step is a step of the conversation, or leaves it alone.           *)
LEMMA StepsConversation == [Next]_vars => [ConversationNext]_conversationVars
  <1> SUFFICES ASSUME Next PROVE [ConversationNext]_conversationVars
    BY DEF vars, conversationVars
  <1> USE DEF ConversationNext
  <1>1. CASE \E r \in Requests : Asks(r)
    BY <1>1 DEF Asks
  <1>2. CASE BargesIn \/ CloseSession \/ Crash
    BY <1>2 DEF BargesIn, CloseSession, Crash
  <1>3. CASE VerificationExpires \/ \E r \in Writes : RemembranceExpires(Key[r])
    BY <1>3 DEF VerificationExpires, RemembranceExpires
  <1>4. CASE Tool
    <2>1. UNCHANGED threadOnly
      BY <1>4 DEF Tool, ToolRefuses, ToolReads, ToolRecords, ToolAddsCallEvent,
         ToolSubmitsJob, ToolFails
    <2> QED
      BY <2>1 DEF threadOnly
  <1>5. ASSUME NEW g \in Turns,
               \/ Consumes(g) \/ ResumesRequest(g)
               \/ SaysDuplicate(g) \/ GoesToRouter(g) \/ EntersRouter(g)
        PROVE  ConversationNext
    BY <1>5 DEF Consumes, CodeMatches, CodeDiffers, NotACode, ResumesRequest, SaysDuplicate,
       GoesToRouter, EntersRouter
  <1>6. ASSUME NEW g \in Turns, CallsTool(g)
        PROVE  UNCHANGED conversationVars
    BY <1>6 DEF CallsTool, threadOnly
  <1>7. ASSUME NEW g \in Turns, Returns(g) \/ ReplyEnds(g) \/ ReplyFails(g)
        PROVE  ConversationNext
    BY <1>7 DEF Returns, DiscardsResult, BeginsChallenge, SaysDone, SaysOther, RaisesOutOfTool,
       ReplyEnds, ReplyFails
  <1> QED
    BY <1>1, <1>2, <1>3, <1>4, <1>5, <1>6, <1>7 DEF Next

(* Every step preserves what the account knows.                            *)
LEMMA StepAccountInv ==
    ASSUME IInv, [Next]_vars
    PROVE  AccountInv'
  <1>1. CASE \E r \in Requests : Asks(r)
    BY <1>1, AsksStep
  <1>2. CASE BargesIn \/ CloseSession \/ Crash
    BY <1>2, BargesInStep, CloseSessionStep, CrashStep
  <1>3. CASE VerificationExpires \/ \E r \in Writes : RemembranceExpires(Key[r])
    BY <1>3, VerificationExpiresStep, RemembranceExpiresStep
  <1>4. CASE Tool
    BY <1>4, ToolRefusesStep, ToolReadsStep, ToolRecordsStep, ToolAddsCallEventStep,
       ToolSubmitsJobStep, ToolFailsStep DEF Tool
  <1>5. ASSUME NEW g \in Turns,
               \/ Consumes(g) \/ ResumesRequest(g)
               \/ SaysDuplicate(g) \/ GoesToRouter(g) \/ EntersRouter(g) \/ CallsTool(g)
        PROVE  AccountInv'
    BY <1>5, CodeMatchesStep, CodeDiffersStep, NotACodeStep, ResumesRequestStep,
       SaysDuplicateStep, GoesToRouterStep, EntersRouterStep, CallsToolStep DEF Consumes
  <1>6. ASSUME NEW g \in Turns, Returns(g) \/ ReplyEnds(g) \/ ReplyFails(g)
        PROVE  AccountInv'
    BY <1>6, DiscardsResultStep, BeginsChallengeStep, SaysDoneStep, SaysOtherStep,
       RaisesOutOfToolStep, ReplyEndsStep, ReplyFailsStep DEF Returns
  <1>7. CASE UNCHANGED vars
    BY <1>7 DEF vars, conversationVars, accountVars, verificationVars, toolVars, counters,
       history, IInv, AccountInv, AccountTypeOK, VerificationInv, LockedByAttempts, ToolInv,
       WrittenIsRecorded, RememberedIsRecorded, NothingToldYet, ToldIsDurable,
       UndeliveredIsUnderWay, OnRecord
  <1> QED
    BY <1>1, <1>2, <1>3, <1>4, <1>5, <1>6, <1>7 DEF Next

(* The inductive invariant of a session's turns.                           *)
THEOREM Invariant == Spec => []IInv
  <1>1. IInv /\ [Next]_vars => IInv'
    BY StepsConversation, ConversationStep, StepAccountInv, GuardStep DEF IInv
  <1> QED
    BY <1>1, InitInv, PTL DEF Spec

(* The types of the session's account state.                               *)
THEOREM TypeCorrect == Spec => []TypeOK
  BY Invariant, PTL DEF IInv, ConversationInv, AccountInv, TypeOK

(* The turns that act on the account are those of a conversation, so what  *)
(* holds of every conversation holds of them.                              *)
THEOREM ImplementsConversation == Spec => ConversationSpec
  <1>1. Init => ConversationInit
    BY DEF Init
  <1> QED
    BY <1>1, StepsConversation, PTL DEF Spec, ConversationSpec

(* No reply to a challenge gets to the router (consume_input in _respond). *)
THEOREM LocalDigits == Spec => []DigitsStayLocal
  BY ImplementsConversation, CodesStayLocal, PTL

(* What the caller is told to be recorded is durable (remember_success and *)
(* check, DurableWriteExecutor.execute).                                   *)
THEOREM TruthfulReplies == Spec => []ToldIsDurable
  BY Invariant, PTL DEF IInv, AccountInv

(* A row whose job is missing belongs to a thread that will submit it      *)
(* (DurableWriteExecutor.execute).                                         *)
THEOREM NothingStranded == Spec => []UndeliveredIsUnderWay
  BY Invariant, PTL DEF IInv, AccountInv

(* A second row of one instruction means that the guard was never told of  *)
(* the first or has forgotten it (SessionWriteIdempotency, _respond).      *)
THEOREM RepeatsHaveAReason == Spec => []RepeatsAreExcused
  BY Invariant, PTL DEF IInv, GuardInv

(* The session is locked exactly by the last attempt (consume_input).      *)
THEOREM LockIsTheLimit == Spec => []LockedByAttempts
  BY Invariant, PTL DEF IInv, AccountInv, VerificationInv

(* Only ToolRecords writes rows, and what the gate saw still holds then    *)
(* (BusinessToolExecutor.execute, is_current_verified).                    *)
THEOREM VerifiedWrites == Spec => WritesAreVerified
  <1> DEFINE Verified == \A r \in Protected : records'[r] # records[r] /\ registered =>
                            matched /\ challenge = "none"
  <1>1. IInv /\ [Next]_vars => [Verified]_vars
    <2> SUFFICES ASSUME IInv, Next PROVE Verified
      BY DEF vars
    <2>1. CASE ToolRecords
      BY <2>1, AccountAssumption DEF ToolRecords, IInv, AccountInv, AccountTypeOK, ToolInv
    <2>2. CASE ~ToolRecords
      <3>1. UNCHANGED records
        BY <2>2 DEF Next, Tool, Consumes, Returns, Asks, BargesIn, CodeMatches, CodeDiffers,
           NotACode, ResumesRequest, SaysDuplicate, GoesToRouter, EntersRouter, CallsTool,
           ToolRefuses, ToolReads, ToolAddsCallEvent, ToolSubmitsJob, ToolFails,
           DiscardsResult, BeginsChallenge, SaysDone, SaysOther, RaisesOutOfTool, ReplyEnds,
           ReplyFails, VerificationExpires, RemembranceExpires, CloseSession, Crash,
           accountVars, toolVars
      <3> QED
        BY <3>1
    <2> QED
      BY <2>1, <2>2
  <1> QED
    BY <1>1, Invariant, PTL DEF Spec, WritesAreVerified
=============================================================================
