----------------------------- MODULE AccountTurns -----------------------------
(***************************************************************************)
(* What one session's turns do to the account: the identity check          *)
(* (business/verification.py), the session's guard against repeated writes *)
(* (voice/idempotency.py), the tool that runs in a thread while its turn   *)
(* holds the inference lock (integration/orchestrator.py,                  *)
(* business/executor.py), and the durable job behind a write               *)
(* (business/durable_executor.py).  The response tasks are those of        *)
(* Conversation.  The database and the jobs outlive the process; the rest  *)
(* is lost with it.                                                        *)
(***************************************************************************)
EXTENDS Conversation

CONSTANTS
    Requests,       \* what callers ask for that needs a tool
    Writes,         \* those whose tool is in WRITE_TOOLS
    Protected,      \* those whose tool is in VERIFICATION_PROTECTED_TOOLS
    Key,            \* candidate_key of the request's text
    NoKey,          \* .. None
    Job,            \* idempotency_key_for its tool and arguments
    NoRequest,
    MaxAttempts,    \* max_attempts
    MaxExpiries,    \* bound: verifications and remembered writes that expire
    MaxFailures,    \* bound: transactions and responses that fail
    MaxCrashes      \* bound: restarts of the process

ASSUME AccountAssumption ==
    /\ Writes \subseteq Requests /\ Protected \subseteq Requests
    /\ NoRequest \notin Requests
    /\ DOMAIN Key = Requests /\ DOMAIN Job = Requests
    /\ MaxAttempts \in Nat \ {0}
    /\ MaxExpiries \in Nat /\ MaxFailures \in Nat /\ MaxCrashes \in Nat

VARIABLES
    request,        \* the transcript of a turn
    told,           \* what its reply says
    connected,      \* the client's WebSocket is up
    registered,     \* the registry has a VerificationState for the session
    attempts, verified, pending,    \* .. with these fields
    remembered,     \* SessionWriteIdempotency._records
    tool,           \* the executor's thread, and what it returned
    records,        \* local database: rows written for a request
    jobs,           \* job store: idempotency keys submitted
    expiries, failures, crashes,    \* counters behind the bounds
    owed,           \* history: the request a challenge was begun for
    matched,        \* history: the session's caller has said the code
    lost            \* history: keys of rows that the guard was not told of or forgot

verificationVars == <<registered, attempts, verified, pending>>
toolVars == <<tool, records, jobs>>
counters == <<expiries, failures, crashes>>
history == <<owed, matched>>
accountVars == <<request, told, connected, verificationVars, remembered, lost, toolVars,
                 counters, history>>
vars == <<conversationVars, accountVars>>

Idle == [step |-> "idle", turn |-> 0]
ToolSteps == {"idle", "handler", "event", "submit",
              "unverified", "refused", "read", "written", "raised"}

AccountTypeOK ==
    /\ request \in [Turns -> Requests \cup {NoRequest}]
    /\ \A g \in Turns : at[g] # "none" => request[g] # NoRequest
    /\ told \in [Turns -> {"other", "done", "duplicate"}]
    /\ connected \in BOOLEAN /\ registered \in BOOLEAN /\ verified \in BOOLEAN
    /\ attempts \in 0 .. MaxAttempts
    /\ pending \in Requests \cup {NoRequest}
    /\ remembered \subseteq {Key[r] : r \in Writes}
    /\ tool \in [step : ToolSteps, turn : Turns \cup {0}]
    /\ records \in [Requests -> Nat]
    /\ jobs \subseteq {Job[r] : r \in Writes}
    /\ expiries \in 0 .. MaxExpiries /\ failures \in 0 .. MaxFailures
    /\ crashes \in 0 .. MaxCrashes
    /\ owed \in Requests \cup {NoRequest}
    /\ matched \in BOOLEAN
    /\ lost \subseteq {Key[r] : r \in Writes}

TypeOK == ConversationTypeOK /\ AccountTypeOK

Init ==
    /\ ConversationInit
    /\ request = [g \in Turns |-> NoRequest]
    /\ told = [g \in Turns |-> "other"]
    /\ connected = TRUE /\ registered = TRUE
    /\ attempts = 0 /\ verified = FALSE /\ pending = NoRequest
    /\ remembered = {}
    /\ tool = Idle
    /\ records = [r \in Requests |-> 0]
    /\ jobs = {}
    /\ expiries = 0 /\ failures = 0 /\ crashes = 0
    /\ owed = NoRequest /\ matched = FALSE
    /\ lost = {}

-----------------------------------------------------------------------------
(* The session accepts a turn; a barge-in makes the newest one stale.      *)
Asks(r) ==
    /\ connected
    /\ Accept
    /\ request' = [request EXCEPT ![newest + 1] = r]
    /\ told' = [told EXCEPT ![newest + 1] = "other"]
    /\ UNCHANGED <<connected, verificationVars, remembered, lost, toolVars, counters, history>>

BargesIn ==
    /\ connected
    /\ Interrupt
    /\ UNCHANGED accountVars

-----------------------------------------------------------------------------
(* Mutation: one attempt too many.                                         *)
CodeDiffersOnceMore(g) ==
    /\ IF attempts + 1 > MaxAttempts
       THEN Locks(g) /\ pending' = NoRequest /\ owed' = NoRequest
       ELSE Reprompts(g) /\ UNCHANGED <<pending, owed>>
    /\ attempts' = attempts + 1
    /\ UNCHANGED <<request, told, connected, registered, verified, remembered, lost, toolVars,
                   counters, matched>>

(* Mutation: the pending request is cleared before it is read.             *)
CodeMatchesClearsFirst(g) ==
    /\ Verifies(g)
    /\ attempts' = 0 /\ verified' = TRUE /\ matched' = TRUE
    /\ pending' = NoRequest
    /\ request' = [request EXCEPT ![g] = pending']
    /\ UNCHANGED <<told, connected, registered, remembered, lost, toolVars, counters, owed>>

(* consume_input: what is said while a code is awaited is the code, or     *)
(* four other digits, or not four digits.                                  *)
CodeMatches(g) ==
    /\ Verifies(g)
    /\ attempts' = 0 /\ verified' = TRUE /\ matched' = TRUE
    /\ request' = [request EXCEPT ![g] = pending]
    /\ pending' = NoRequest
    /\ UNCHANGED <<told, connected, registered, remembered, lost, toolVars, counters, owed>>

CodeDiffers(g) ==
    /\ IF attempts + 1 >= MaxAttempts
       THEN Locks(g) /\ pending' = NoRequest /\ owed' = NoRequest
       ELSE Reprompts(g) /\ UNCHANGED <<pending, owed>>
    /\ attempts' = attempts + 1
    /\ UNCHANGED <<request, told, connected, registered, verified, remembered, lost, toolVars,
                   counters, matched>>

NotACode(g) ==
    /\ Reprompts(g)
    /\ UNCHANGED accountVars

(* _respond(resumed), once the confirmation was said; a challenge always   *)
(* has a request to resume.                                                *)
ResumesRequest(g) ==
    /\ Resumes(g)
    /\ owed' = NoRequest
    /\ UNCHANGED <<request, told, connected, verificationVars, remembered, lost, toolVars, counters,
                   matched>>

VerificationExpires ==
    /\ verified /\ expiries < MaxExpiries
    /\ verified' = FALSE
    /\ expiries' = expiries + 1
    /\ UNCHANGED <<conversationVars, request, told, connected, registered, attempts, pending,
                   remembered, lost, toolVars, failures, crashes, history>>

-----------------------------------------------------------------------------
(* write_idempotency.check                                                 *)
IsDuplicate(r) == Key[r] # NoKey /\ Key[r] \in remembered

SaysDuplicate(g) ==
    /\ Replies(g)
    /\ IsDuplicate(request[g])
    /\ told' = [told EXCEPT ![g] = "duplicate"]
    /\ UNCHANGED <<request, connected, verificationVars, remembered, lost, toolVars, counters,
                   history>>

(* Mutation: what a code was asked for is not checked again.               *)
GoesToRouterOnceVerified(g) ==
    /\ Waits(g)
    /\ ~IsDuplicate(request[g]) \/ (matched /\ request[g] \in Protected)
    /\ UNCHANGED accountVars

GoesToRouter(g) ==
    /\ Waits(g)
    /\ ~IsDuplicate(request[g])
    /\ UNCHANGED accountVars

RemembranceExpires(k) ==
    /\ k \in remembered /\ expiries < MaxExpiries
    /\ remembered' = remembered \ {k} /\ lost' = lost \cup {k}
    /\ expiries' = expiries + 1
    /\ UNCHANGED <<conversationVars, request, told, connected, verificationVars, toolVars,
                   failures, crashes, history>>

EntersRouter(g) ==
    /\ Enters(g)
    /\ UNCHANGED accountVars

-----------------------------------------------------------------------------
(* The executor's thread.  Nothing stops it: a turn that became stale and  *)
(* a client that left do not matter to it.                                 *)
threadOnly == <<conversationVars, request, told, connected, verificationVars, remembered,
                expiries, crashes, history>>

(* Mutation: the expiry time is not looked at.                             *)
CurrentUnlocked == ~registered \/ challenge # "locked"

(* is_current_verified, in the thread; a session that the registry does    *)
(* not know takes the path of callers that bind none.                      *)
CurrentVerified == ~registered \/ (challenge # "locked" /\ verified)

CallsTool(g) ==
    /\ at[g] = "inference" /\ tool = Idle
    /\ tool' = [turn |-> g,
                step |-> IF request[g] \in Protected /\ ~CurrentVerified
                         THEN "unverified" ELSE "handler"]
    /\ UNCHANGED <<records, jobs, failures, lost>>
    /\ UNCHANGED threadOnly

(* No account, no exact date, no such tool: nothing is written.            *)
ToolRefuses ==
    /\ tool.step = "handler"
    /\ tool' = [tool EXCEPT !.step = "refused"]
    /\ UNCHANGED <<records, jobs, failures, lost>>
    /\ UNCHANGED threadOnly

ToolReads ==
    /\ tool.step = "handler"
    /\ request[tool.turn] \notin Writes
    /\ tool' = [tool EXCEPT !.step = "read"]
    /\ UNCHANGED <<records, jobs, failures, lost>>
    /\ UNCHANGED threadOnly

ToolRecords ==
    /\ tool.step = "handler"
    /\ request[tool.turn] \in Writes
    /\ records' = [records EXCEPT ![request[tool.turn]] = @ + 1]
    /\ tool' = [tool EXCEPT !.step = "event"]
    /\ UNCHANGED <<jobs, failures, lost>>
    /\ UNCHANGED threadOnly

(* add_call_event, in a transaction of its own.                            *)
ToolAddsCallEvent ==
    /\ tool.step = "event"
    /\ tool' = [tool EXCEPT !.step = "submit"]
    /\ UNCHANGED <<records, jobs, failures, lost>>
    /\ UNCHANGED threadOnly

(* Mutation: a turn that became stale leaves its job unsubmitted.          *)
SubmitsWhenFresh ==
    /\ tool.step = "submit"
    /\ jobs' = IF tool.turn = newest THEN jobs \cup {Job[request[tool.turn]]} ELSE jobs
    /\ tool' = [tool EXCEPT !.step = "written"]
    /\ UNCHANGED <<records, failures, lost>>
    /\ UNCHANGED threadOnly

(* JobStore.submit: a key is inserted once.                                *)
ToolSubmitsJob ==
    /\ tool.step = "submit"
    /\ jobs' = jobs \cup {Job[request[tool.turn]]}
    /\ tool' = [tool EXCEPT !.step = "written"]
    /\ UNCHANGED <<records, failures, lost>>
    /\ UNCHANGED threadOnly

(* A transaction fails: execute makes an error result of it, but not when  *)
(* it is the decorator's.                                                  *)
ToolFails ==
    /\ tool.step \in {"handler", "event", "submit"}
    /\ failures < MaxFailures
    /\ failures' = failures + 1
    /\ tool' = [tool EXCEPT !.step = IF @ = "submit" THEN "raised" ELSE "refused"]
    /\ lost' = IF tool.step = "handler" THEN lost ELSE lost \cup {Key[request[tool.turn]]}
    /\ UNCHANGED <<records, jobs>>
    /\ UNCHANGED threadOnly

-----------------------------------------------------------------------------
(* _respond goes on when the orchestrator has returned: with what the tool *)
(* returned, or without a tool ("idle": the router, retrieval, a           *)
(* clarification or the fallback answered).  The turn that holds the lock  *)
(* is the one the tool worked for.                                         *)
DiscardsResult(g) ==
    /\ tool.step \in {"idle", "unverified", "refused", "read", "written"}
    /\ Discards(g)
    /\ tool' = Idle
    /\ lost' = IF tool.step = "written" THEN lost \cup {Key[request[g]]} ELSE lost
    /\ UNCHANGED <<request, told, connected, verificationVars, remembered, records, jobs,
                   counters, history>>

(* begin.  It asks for no code of a session that is verified: none can     *)
(* have become so since the tool looked, for codes are only consumed while *)
(* one is awaited, and then no turn is in the router (DigitsStayLocal).    *)
BeginsChallenge(g) ==
    /\ tool.step = "unverified"
    /\ Challenges(g)
    /\ registered' = TRUE
    /\ IF challenge = "locked"
       THEN UNCHANGED <<pending, owed>>
       ELSE pending' = request[g] /\ owed' = request[g]
    /\ tool' = Idle
    /\ UNCHANGED <<request, told, connected, attempts, verified, remembered, lost, records, jobs,
                   counters, matched>>

(* remember_success: the key is that of the text; where the text has none, *)
(* what is remembered is never looked up.                                  *)
SaysDone(g) ==
    /\ tool.step = "written"
    /\ Answers(g)
    /\ remembered' = remembered \cup {Key[request[g]]}
    /\ told' = [told EXCEPT ![g] = "done"]
    /\ tool' = Idle
    /\ UNCHANGED <<request, connected, verificationVars, lost, records, jobs, counters, history>>

(* Mutation: a write is remembered whether or not the tool succeeded.      *)
SaysAndRemembers(g) ==
    /\ tool.step \in {"idle", "refused", "read"}
    /\ Answers(g)
    /\ remembered' = IF request[g] \in Writes THEN remembered \cup {Key[request[g]]}
                     ELSE remembered
    /\ tool' = Idle
    /\ UNCHANGED <<request, told, connected, verificationVars, lost, records, jobs, counters,
                   history>>

SaysOther(g) ==
    /\ tool.step \in {"idle", "refused", "read"}
    /\ Answers(g)
    /\ tool' = Idle
    /\ UNCHANGED <<request, told, connected, verificationVars, remembered, lost, records, jobs,
                   counters, history>>

RaisesOutOfTool(g) ==
    /\ at[g] = "inference" /\ tool.step = "raised"
    /\ Ends(g)
    /\ tool' = Idle
    /\ UNCHANGED <<request, told, connected, verificationVars, remembered, lost, records, jobs,
                   counters, history>>

(* The reply was said, or is stale.                                        *)
ReplyEnds(g) ==
    /\ at[g] = "replying" \/ (g # newest /\ at[g] \in {"starting", "waiting", "confirming"})
    /\ Ends(g)
    /\ UNCHANGED accountVars

(* The newest turn is cut short: by an exception, or by a barge-in whose   *)
(* cancellation came after a typed query had taken its place.              *)
ReplyFails(g) ==
    /\ g = newest /\ at[g] \in {"starting", "waiting", "confirming"}
    /\ failures < MaxFailures
    /\ failures' = failures + 1
    /\ Ends(g)
    /\ UNCHANGED <<request, told, connected, verificationVars, remembered, lost, toolVars, expiries,
                   crashes, history>>

-----------------------------------------------------------------------------
(* The client is gone: the session takes no more turns and the registry    *)
(* forgets it; its tasks go on.                                            *)
CloseSession ==
    /\ connected
    /\ connected' = FALSE
    /\ registered' = FALSE /\ attempts' = 0 /\ verified' = FALSE /\ pending' = NoRequest
    /\ owed' = NoRequest /\ matched' = FALSE
    /\ Closes
    /\ UNCHANGED <<request, told, remembered, lost, toolVars, counters>>

(* The process dies and a new session is opened.                           *)
Crash ==
    /\ crashes < MaxCrashes
    /\ crashes' = crashes + 1
    /\ connected' = TRUE /\ registered' = TRUE
    /\ attempts' = 0 /\ verified' = FALSE /\ pending' = NoRequest
    /\ owed' = NoRequest /\ matched' = FALSE
    /\ remembered' = {} /\ lost' = lost \cup {Key[r] : r \in {w \in Writes : records[w] > 0}}
    /\ tool' = Idle
    /\ Restarts
    /\ UNCHANGED <<request, told, records, jobs, expiries, failures>>

-----------------------------------------------------------------------------
Consumes(g) == CodeMatches(g) \/ CodeDiffers(g) \/ NotACode(g)

Tool ==
    \/ ToolRefuses \/ ToolReads \/ ToolRecords \/ ToolAddsCallEvent \/ ToolSubmitsJob
    \/ ToolFails

Returns(g) ==
    \/ DiscardsResult(g) \/ BeginsChallenge(g) \/ SaysDone(g) \/ SaysOther(g)
    \/ RaisesOutOfTool(g)

Next ==
    \/ \E r \in Requests : Asks(r)
    \/ BargesIn
    \/ \E g \in Turns :
        \/ Consumes(g) \/ ResumesRequest(g)
        \/ SaysDuplicate(g) \/ GoesToRouter(g) \/ EntersRouter(g) \/ CallsTool(g)
        \/ Returns(g) \/ ReplyEnds(g) \/ ReplyFails(g)
    \/ Tool
    \/ VerificationExpires
    \/ \E r \in Writes : RemembranceExpires(Key[r])
    \/ CloseSession
    \/ Crash

Spec == Init /\ [][Next]_vars

-----------------------------------------------------------------------------
(* A write is on record when its row and its job are both durable.         *)
OnRecord(r) == records[r] > 0 /\ Job[r] \in jobs

(* The caller is told that a request was recorded, or had been before,     *)
(* only when it is on record, or one that the guard takes for the same     *)
(* (remember_success, check): failures half way, stale results and what    *)
(* expires never make the agent confirm what is not durable.               *)
ToldIsDurable ==
    \A g \in Turns : at[g] = "replying" =>
        /\ told[g] = "done" => OnRecord(request[g])
        /\ told[g] = "duplicate" =>
             \E r \in Writes : Key[r] = Key[request[g]] /\ OnRecord(r)

(* As long as the registry knows the session, a protected row is written   *)
(* only for a caller who has said the code, while none is awaited and the  *)
(* session is not locked, although is_current_verified looked earlier, in  *)
(* the thread, and other turns came and went since.                        *)
WritesAreVerified ==
    [][\A r \in Protected : records'[r] # records[r] /\ registered =>
        matched /\ challenge = "none"]_vars

(* A row without its job belongs to a thread that will submit it, unless a *)
(* transaction failed or the process died: neither a barge-in, nor a newer *)
(* turn, nor the client's leaving strands a write half way.                *)
UndeliveredIsUnderWay ==
    failures = 0 /\ crashes = 0 =>
        \A r \in Requests : records[r] > 0 /\ Job[r] \notin jobs =>
            tool.step \in {"event", "submit"} /\ Job[request[tool.turn]] = Job[r]

(* The guard lets an instruction be recorded a second time, in the same    *)
(* words or in others that have its key, only where it was never told of   *)
(* the first (a stale result, a failed transaction) or has forgotten it    *)
(* (expiry, restart): no order of turns that queue, overtake each other or *)
(* resume gets past check, which looks before the inference lock is there. *)
RepeatsAreExcused ==
    \A r, q \in Writes :
        /\ Key[r] = Key[q] /\ Key[r] # NoKey /\ Key[r] \notin lost
        /\ records[r] > 0 /\ records[q] > 0
        => r = q /\ records[r] = 1

(* The session is locked exactly when the wrong codes since the last right *)
(* one have reached the limit, however they spread over challenges.        *)
LockedByAttempts ==
    /\ challenge = "locked" <=> attempts = MaxAttempts
    /\ challenge = "locked" => ~verified /\ pending = NoRequest
=============================================================================
