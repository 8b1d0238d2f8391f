------------------------------ MODULE JobStore ------------------------------
(***************************************************************************)
(* The durable job table of jobs/store.py: one row per idempotency key,    *)
(* the side-effect ledger, and the job_events log.  Every operation below  *)
(* is one BEGIN IMMEDIATE .. COMMIT transaction of JobStore, so it is one  *)
(* atomic step.                                                            *)
(*                                                                         *)
(* Time is abstracted to what the store compares it for:                   *)
(*   - waiting: RETRYING rows whose available_at is still in the future;   *)
(*   - lapsed:  PROCESSING rows whose lease_expires_at has passed;         *)
(*   - ahead[j]: the rows whose available_at is smaller than j's, which is *)
(*     all that ORDER BY available_at needs.                               *)
(* Of job_events the model keeps, per job, the last to_status appended.    *)
(***************************************************************************)
EXTENDS Naturals

CONSTANTS
    Jobs,           \* the idempotency keys, hence the rows they may create
    Workers,        \* the worker ids
    NoWorker,       \* the NULL of worker_id
    MaxAttempts     \* jobs.max_attempts, per row

ASSUME StoreAssumption ==
    /\ MaxAttempts \in [Jobs -> Nat \ {0}]
    /\ NoWorker \notin Workers

VARIABLES
    status,         \* jobs.status, "NONE" while the row does not exist
    attempts,       \* jobs.attempts
    owner,          \* jobs.worker_id
    lapsed,
    waiting,
    ahead,
    logged,         \* to_status of the job's newest job_events row
    ledger          \* effect keys present in side_effects

storeVars == <<status, attempts, owner, lapsed, waiting, ahead, logged, ledger>>

Statuses == {"NONE", "QUEUED", "PROCESSING", "RETRYING", "COMPLETED", "DLQ"}

StoreTypeOK ==
    /\ status \in [Jobs -> Statuses]
    /\ attempts \in [Jobs -> Nat]
    /\ owner \in [Jobs -> Workers \cup {NoWorker}]
    /\ lapsed \subseteq Jobs
    /\ waiting \subseteq Jobs
    /\ ahead \in [Jobs -> SUBSET Jobs]
    /\ logged \in [Jobs -> Statuses]
    /\ ledger \subseteq Jobs

StoreInit ==
    /\ status = [j \in Jobs |-> "NONE"]
    /\ attempts = [j \in Jobs |-> 0]
    /\ owner = [j \in Jobs |-> NoWorker]
    /\ lapsed = {}
    /\ waiting = {}
    /\ ahead = [j \in Jobs |-> {}]
    /\ logged = [j \in Jobs |-> "NONE"]
    /\ ledger = {}

-----------------------------------------------------------------------------
(* Rows whose available_at is in the past.                                 *)
Due(j) ==
    \/ status[j] \in {"QUEUED", "PROCESSING"}
    \/ status[j] = "RETRYING" /\ j \notin waiting

(* available_at of j becomes (or is reached at) the current time.          *)
MakeDue(j) ==
    ahead' = [k \in Jobs |-> IF k = j THEN {d \in Jobs \ {j} : Due(d)}
                                      ELSE ahead[k] \ {j}]

(* Mutation: claim never takes over a lapsed lease.                        *)
RunnableNeverReclaims(j) ==
    \/ status[j] = "QUEUED"
    \/ status[j] = "RETRYING" /\ j \notin waiting

(* The WHERE clause of claim's SELECT.                                     *)
Runnable(j) ==
    \/ status[j] = "QUEUED"
    \/ status[j] = "RETRYING" /\ j \notin waiting
    \/ status[j] = "PROCESSING" /\ j \in lapsed

(* Mutation: worker_id left out of the WHERE clause.                       *)
HeldByAnyone(j, w) == status[j] = "PROCESSING"

(* WHERE job_id=? AND worker_id=? AND status='PROCESSING'.                 *)
HeldBy(j, w) == status[j] = "PROCESSING" /\ owner[j] = w

-----------------------------------------------------------------------------
(* Mutation: INSERT OR REPLACE instead of honouring the unique key.        *)
SubmitResets(j) ==
    /\ status' = [status EXCEPT ![j] = "QUEUED"]
    /\ attempts' = [attempts EXCEPT ![j] = 0]
    /\ MakeDue(j)
    /\ logged' = [logged EXCEPT ![j] = "QUEUED"]
    /\ UNCHANGED <<owner, lapsed, waiting, ledger>>

(* submit: INSERT, or, when UNIQUE(idempotency_key) fails, return the row  *)
(* that exists.                                                            *)
Submit(j) ==
    IF status[j] # "NONE"
    THEN UNCHANGED storeVars
    ELSE /\ status' = [status EXCEPT ![j] = "QUEUED"]
         /\ attempts' = [attempts EXCEPT ![j] = 0]
         /\ MakeDue(j)
         /\ logged' = [logged EXCEPT ![j] = "QUEUED"]
         /\ UNCHANGED <<owner, lapsed, waiting, ledger>>

(* claim: the oldest runnable row becomes PROCESSING under w's lease; a    *)
(* row whose lease has lapsed is taken over like a queued one.             *)
Claim(j, w) ==
    /\ Runnable(j)
    /\ \A k \in ahead[j] : ~Runnable(k)
    /\ status' = [status EXCEPT ![j] = "PROCESSING"]
    /\ attempts' = [attempts EXCEPT ![j] = @ + 1]
    /\ owner' = [owner EXCEPT ![j] = w]
    /\ lapsed' = lapsed \ {j}
    /\ logged' = [logged EXCEPT ![j] = "PROCESSING"]
    /\ UNCHANGED <<waiting, ahead, ledger>>

(* heartbeat: push the lease of a row that is still held.                  *)
Heartbeat(j, w) ==
    /\ lapsed' = IF HeldBy(j, w) THEN lapsed \ {j} ELSE lapsed
    /\ UNCHANGED <<status, attempts, owner, waiting, ahead, logged, ledger>>

(* complete: no effect unless the row is still held by w.                  *)
Complete(j, w) ==
    IF HeldBy(j, w)
    THEN /\ status' = [status EXCEPT ![j] = "COMPLETED"]
         /\ lapsed' = lapsed \ {j}
         /\ logged' = [logged EXCEPT ![j] = "COMPLETED"]
         /\ UNCHANGED <<attempts, owner, waiting, ahead, ledger>>
    ELSE UNCHANGED storeVars

(* Mutation: off by one.                                                   *)
ExhaustedLate(j) == attempts[j] > MaxAttempts[j]

(* fail's row["attempts"] >= row["max_attempts"].                          *)
Exhausted(j) == attempts[j] >= MaxAttempts[j]

(* Mutation: the intermediate FAILED of the event log is left in the row.  *)
FailLeavesFailed(j, w) ==
    /\ HeldBy(j, w)
    /\ status' = [status EXCEPT ![j] = "FAILED"]
    /\ UNCHANGED <<attempts, owner, lapsed, waiting, ahead, logged, ledger>>

(* fail: no effect unless held; DLQ when the attempts are used up, else    *)
(* RETRYING with an available_at in the future.                            *)
Fail(j, w) ==
    IF HeldBy(j, w)
    THEN /\ status' = [status EXCEPT ![j] = IF Exhausted(j) THEN "DLQ" ELSE "RETRYING"]
         /\ waiting' = IF Exhausted(j) THEN waiting ELSE waiting \cup {j}
         /\ lapsed' = lapsed \ {j}
         /\ logged' = [logged EXCEPT ![j] = status'[j]]
         /\ UNCHANGED <<attempts, owner, ahead, ledger>>
    ELSE UNCHANGED storeVars

(* side_effect_once: the INSERT succeeds for the first caller of the key.  *)
SideEffectOnce(j) ==
    /\ ledger' = ledger \cup {j}
    /\ UNCHANGED <<status, attempts, owner, lapsed, waiting, ahead, logged>>

(* Mutation: the UPDATE is not guarded by status='DLQ'.                    *)
RequeueAnything(j) ==
    /\ status' = [status EXCEPT ![j] = "QUEUED"]
    /\ attempts' = [attempts EXCEPT ![j] = 0]
    /\ MakeDue(j)
    /\ logged' = [logged EXCEPT ![j] = "QUEUED"]
    /\ UNCHANGED <<owner, lapsed, waiting, ledger>>

(* requeue_dlq: the UPDATE is guarded by status='DLQ'; the DLQ -> QUEUED   *)
(* event is appended whether or not a row was updated.                     *)
RequeueDlq(j) ==
    /\ IF status[j] = "DLQ"
       THEN /\ status' = [status EXCEPT ![j] = "QUEUED"]
            /\ attempts' = [attempts EXCEPT ![j] = 0]
            /\ MakeDue(j)
       ELSE UNCHANGED <<status, attempts, ahead>>
    /\ logged' = [logged EXCEPT ![j] = "QUEUED"]
    /\ UNCHANGED <<owner, lapsed, waiting, ledger>>

-----------------------------------------------------------------------------
(* The clock passes lease_expires_at of a PROCESSING row.                  *)
LeaseLapses(j) ==
    /\ status[j] = "PROCESSING"
    /\ j \notin lapsed
    /\ lapsed' = lapsed \cup {j}
    /\ UNCHANGED <<status, attempts, owner, waiting, ahead, logged, ledger>>

(* The clock reaches available_at of a RETRYING row.                       *)
BackoffElapses(j) ==
    /\ j \in waiting
    /\ waiting' = waiting \ {j}
    /\ MakeDue(j)
    /\ UNCHANGED <<status, attempts, owner, lapsed, logged, ledger>>
=============================================================================
