----------------------------- MODULE JobPipeline -----------------------------
(***************************************************************************)
(* Worker processes (jobs/worker.py) over the job table of JobStore, with  *)
(* clients that submit, an operator that requeues, and the faults the      *)
(* pipeline exists for: a worker may die between any two of its store      *)
(* calls, a handler may raise, and a lease may lapse under a worker that   *)
(* is only slow.                                                           *)
(*                                                                         *)
(* A worker runs Worker.run_once: claim; then the handler, which may sleep *)
(* with heartbeats, asks the ledger, and performs the external effect when *)
(* the ledger says it is the first; then complete, or fail if anything     *)
(* raised.                                                                 *)
(***************************************************************************)
EXTENDS JobStore

CONSTANTS
    NoJob,
    MaxCrashes,     \* bound: worker processes that die holding a job
    MaxLapses,      \* bound: leases that lapse under a live worker
    MaxRequeues     \* bound: operator calls of requeue

ASSUME PipelineAssumption ==
    /\ NoJob \notin Jobs
    /\ MaxCrashes \in Nat /\ MaxLapses \in Nat /\ MaxRequeues \in Nat

VARIABLES
    pc,             \* where each worker is in run_once
    job,            \* the job it claimed, NoJob when idle
    attempt,        \* ctx.job.attempts, as returned by claim
    effects,        \* external actions performed, per job
    crashes, lapses, requeues,      \* counters behind the three bounds
    broken          \* history: jobs whose worker died or raised at the effect

workerVars == <<pc, job, attempt>>
counters == <<crashes, lapses, requeues>>
vars == <<storeVars, workerVars, effects, counters, broken>>

Phases == {"idle", "handler", "effect", "returned", "raised"}

TypeOK ==
    /\ StoreTypeOK
    /\ pc \in [Workers -> Phases]
    /\ job \in [Workers -> Jobs \cup {NoJob}]
    /\ attempt \in [Workers -> Nat]
    /\ effects \in [Jobs -> Nat]
    /\ crashes \in Nat /\ lapses \in Nat /\ requeues \in Nat
    /\ broken \subseteq Jobs

Init ==
    /\ StoreInit
    /\ pc = [w \in Workers |-> "idle"]
    /\ job = [w \in Workers |-> NoJob]
    /\ attempt = [w \in Workers |-> 0]
    /\ effects = [j \in Jobs |-> 0]
    /\ crashes = 0 /\ lapses = 0 /\ requeues = 0
    /\ broken = {}

-----------------------------------------------------------------------------
(* POST /v1/jobs and DurableWriteExecutor: a key may be submitted again.    *)
ClientSubmits(j) ==
    /\ Submit(j)
    /\ UNCHANGED <<workerVars, effects, counters, broken>>

(* POST /v1/jobs/{id}/requeue, of any job that exists.                     *)
OperatorRequeues(j) ==
    /\ requeues < MaxRequeues
    /\ status[j] # "NONE"
    /\ RequeueDlq(j)
    /\ requeues' = requeues + 1
    /\ UNCHANGED <<workerVars, effects, crashes, lapses, broken>>

WorkerClaims(w) ==
    /\ pc[w] = "idle"
    /\ \E j \in Jobs :
        /\ Claim(j, w)
        /\ job' = [job EXCEPT ![w] = j]
        /\ attempt' = [attempt EXCEPT ![w] = attempts'[j]]
    /\ pc' = [pc EXCEPT ![w] = "handler"]
    /\ UNCHANGED <<effects, counters, broken>>

(* The sleep_s loop of a handler that takes long.                          *)
HandlerHeartbeats(w) ==
    /\ pc[w] = "handler"
    /\ Heartbeat(job[w], w)
    /\ UNCHANGED <<workerVars, effects, counters, broken>>

(* Mutation: the answer of ledger.once is ignored.                         *)
HandlerSkipsLedger(w) ==
    /\ pc[w] = "handler"
    /\ pc' = [pc EXCEPT ![w] = "effect"]
    /\ SideEffectOnce(job[w])
    /\ UNCHANGED <<job, attempt, effects, counters, broken>>

(* Mutation: a handler that reports success without asking the ledger.     *)
HandlerReturnsEarly(w) ==
    /\ pc[w] = "handler"
    /\ pc' = [pc EXCEPT ![w] = "returned"]
    /\ UNCHANGED <<storeVars, job, attempt, effects, counters, broken>>

(* ledger.once: its transaction commits before the external action; a      *)
(* caller that is not the first returns "deduplicated".                    *)
HandlerAsksLedger(w) ==
    /\ pc[w] = "handler"
    /\ pc' = [pc EXCEPT ![w] = IF job[w] \in ledger THEN "returned" ELSE "effect"]
    /\ SideEffectOnce(job[w])
    /\ UNCHANGED <<job, attempt, effects, counters, broken>>

(* _append_effect, the external action itself.                             *)
HandlerPerformsEffect(w) ==
    /\ pc[w] = "effect"
    /\ effects' = [effects EXCEPT ![job[w]] = @ + 1]
    /\ pc' = [pc EXCEPT ![w] = "returned"]
    /\ UNCHANGED <<storeVars, job, attempt, counters, broken>>

(* An exception anywhere in the try block of run_once: no handler for the  *)
(* type, an injected failure, a ledger or complete transaction that could  *)
(* not commit, an external action that failed.                             *)
HandlerRaises(w) ==
    /\ pc[w] \in {"handler", "effect", "returned"}
    /\ pc' = [pc EXCEPT ![w] = "raised"]
    /\ broken' = IF pc[w] = "effect" THEN broken \cup {job[w]} ELSE broken
    /\ UNCHANGED <<storeVars, job, attempt, effects, counters>>

Idle(w) ==
    /\ pc' = [pc EXCEPT ![w] = "idle"]
    /\ job' = [job EXCEPT ![w] = NoJob]
    /\ attempt' = [attempt EXCEPT ![w] = 0]

WorkerCompletes(w) ==
    /\ pc[w] = "returned"
    /\ Complete(job[w], w)
    /\ Idle(w)
    /\ UNCHANGED <<effects, counters, broken>>

WorkerFails(w) ==
    /\ pc[w] = "raised"
    /\ Fail(job[w], w)
    /\ Idle(w)
    /\ UNCHANGED <<effects, counters, broken>>

(* kill -9, or a fail() that raised out of run_forever; the process that   *)
(* replaces it may carry the same id and remembers nothing.                *)
WorkerCrashes(w) ==
    /\ pc[w] # "idle"
    /\ crashes < MaxCrashes
    /\ crashes' = crashes + 1
    /\ broken' = IF pc[w] = "effect" THEN broken \cup {job[w]} ELSE broken
    /\ Idle(w)
    /\ UNCHANGED <<storeVars, effects, lapses, requeues>>

(* Nobody is running the attempt that holds the lease.                     *)
HolderGone(j) == \A w \in Workers : owner[j] = w => job[w] # j

DeadLeaseLapses(j) ==
    /\ HolderGone(j)
    /\ LeaseLapses(j)
    /\ UNCHANGED <<workerVars, effects, counters, broken>>

LiveLeaseLapses(j) ==
    /\ ~HolderGone(j)
    /\ lapses < MaxLapses
    /\ lapses' = lapses + 1
    /\ LeaseLapses(j)
    /\ UNCHANGED <<workerVars, effects, crashes, requeues, broken>>

RetryComesDue(j) ==
    /\ BackoffElapses(j)
    /\ UNCHANGED <<workerVars, effects, counters, broken>>

-----------------------------------------------------------------------------
(* The steps run_forever takes by itself.                                  *)
RunOnce(w) ==
    \/ WorkerClaims(w)
    \/ HandlerAsksLedger(w)
    \/ HandlerPerformsEffect(w)
    \/ WorkerCompletes(w)
    \/ WorkerFails(w)

Next ==
    \/ \E j \in Jobs :
        \/ ClientSubmits(j)
        \/ OperatorRequeues(j)
        \/ DeadLeaseLapses(j)
        \/ LiveLeaseLapses(j)
        \/ RetryComesDue(j)
    \/ \E w \in Workers :
        \/ RunOnce(w)
        \/ HandlerHeartbeats(w)
        \/ HandlerRaises(w)
        \/ WorkerCrashes(w)

Spec == Init /\ [][Next]_vars

(* run_forever polls again after every pass and a handler ends; wall-clock *)
(* time passes.  Nothing obliges a client, an operator or a fault.         *)
Fairness ==
    /\ \A w \in Workers : WF_vars(RunOnce(w))
    /\ \A j \in Jobs : WF_vars(DeadLeaseLapses(j)) /\ WF_vars(RetryComesDue(j))

FairSpec == Spec /\ Fairness

-----------------------------------------------------------------------------
(* The external action of a key happens at most once, over retries,        *)
(* crashes, lease takeovers with two workers inside the handler, requeues  *)
(* and duplicate submissions (SideEffectLedger, jobs/worker.py).           *)
AtMostOneEffect == \A j \in Jobs : effects[j] <= 1

(* A worker never reports success of a job whose effect nobody has         *)
(* reserved: COMPLETED rows, and handlers that returned, are in the ledger.*)
SuccessIsReserved ==
    /\ \A j \in Jobs : status[j] = "COMPLETED" => j \in ledger
    /\ \A w \in Workers : pc[w] = "returned" => job[w] \in ledger

(* A job is reported or stored as done only when its effect has happened,  *)
(* or the worker that was given it is still at it; a worker that died or   *)
(* raised with the effect in hand is the one excuse (ledger.once commits   *)
(* first, and whoever comes second trusts it): no takeover, retry, requeue *)
(* or late completion loses an effect by itself.                           *)
DoneUnlessBroken ==
    \A j \in Jobs \ broken :
        status[j] = "COMPLETED" \/ (\E w \in Workers : pc[w] = "returned" /\ job[w] = j) =>
            effects[j] = 1 \/ \E w \in Workers : pc[w] = "effect" /\ job[w] = j

(* Between the ledger commit and the effect exactly one worker is entitled *)
(* to perform it, however many run the handler.                            *)
OneEntitled ==
    \A v, w \in Workers :
        pc[v] = "effect" /\ pc[w] = "effect" /\ job[v] = job[w] => v = w

(* Retries stay inside max_attempts: a retry is only ever scheduled below  *)
(* the limit, so a row exceeds it through lease takeovers alone.           *)
RetryBudget ==
    \A j \in Jobs :
        /\ status[j] = "RETRYING" => attempts[j] < MaxAttempts[j]
        /\ attempts[j] <= MaxAttempts[j] + crashes + lapses

SettledByNewest ==
    \A j \in Jobs :
        status[j] = "PROCESSING" /\ status'[j] # "PROCESSING" =>
            \E w \in Workers :
                /\ job[w] = j /\ attempt[w] = attempts[j]
                /\ pc[w] \in {"returned", "raised"} /\ pc'[w] = "idle"

(* A PROCESSING row is settled only by the worker running its newest       *)
(* attempt: a slow worker whose lease was taken over decides nothing.      *)
NewestAttemptDecides == [][SettledByNewest]_vars

CompletedKept ==
    \A j \in Jobs : status[j] = "COMPLETED" => status'[j] = "COMPLETED"

(* A completed job stays completed, whatever late workers or operators do. *)
CompletedIsFinal == [][CompletedKept]_vars

PlacesKept ==
    \A j, k \in Jobs :
        Due(j) /\ Due(j)' /\ Due(k)' /\ k \in ahead'[j] => Due(k) /\ k \in ahead[j]

(* A due row keeps its place in the queue: nothing that is due gets ahead  *)
(* of it, whatever is submitted again, requeued, retried or taken over     *)
(* (claim's ORDER BY available_at, and who writes that column).            *)
NoOvertaking == [][PlacesKept]_vars

(* Every accepted job is eventually completed or dead-lettered, even when  *)
(* the workers running it die.                                             *)
Settles ==
    \A j \in Jobs : status[j] # "NONE" ~> status[j] \in {"COMPLETED", "DLQ"}

=============================================================================
