------------------------- MODULE JobPipelineProofs -------------------------
(***************************************************************************)
(* Proofs about JobPipeline for every set of jobs and workers, every       *)
(* max_attempts and every number of crashes, lapses and requeues.          *)
(***************************************************************************)
EXTENDS JobPipelineDelivery, FiniteOrders

-----------------------------------------------------------------------------
(* The inductive invariant.  An idle worker has no job, and a job that is  *)
(* being run has a row.                                                    *)
JobsInHand ==
    \A w \in Workers :
        IF pc[w] = "idle" THEN job[w] = NoJob
                          ELSE job[w] \in Jobs /\ status[job[w]] # "NONE"

(* A worker past the ledger is in it, and one that is about to perform the *)
(* effect finds it not yet performed.                                      *)
LedgerFirst ==
    \A w \in Workers :
        /\ pc[w] \in {"effect", "returned"} => job[w] \in ledger
        /\ pc[w] = "effect" => effects[job[w]] = 0

EffectsReserved ==
    \A j \in Jobs :
        /\ effects[j] \in {0, 1}
        /\ effects[j] = 1 => j \in ledger
        /\ j \in ledger => status[j] # "NONE"
        /\ status[j] = "COMPLETED" => j \in ledger

(* Whose effect is reserved but has not happened: the worker it was given   *)
(* to is at it, or broke.                                                  *)
EffectAccounted ==
    \A j \in ledger \ broken :
        effects[j] = 1 \/ \E w \in Workers : pc[w] = "effect" /\ job[w] = j

(* The worker named in a PROCESSING row runs the row's newest attempt, if  *)
(* it runs the job at all.                                                 *)
Fenced ==
    \A j \in Jobs, w \in Workers :
        HeldBy(j, w) /\ job[w] = j => attempt[w] = attempts[j]

(* A takeover that is possible, or will be once the clock moves, has been  *)
(* paid for by a crash or by a lapse under a live worker.                  *)
Orphaned(j) == status[j] = "PROCESSING" /\ (j \in lapsed \/ HolderGone(j))

TakeoversPaid ==
    \A j \in Jobs :
        /\ status[j] \in {"NONE", "QUEUED"} => attempts[j] = 0
        /\ status[j] = "RETRYING" => attempts[j] < MaxAttempts[j]
        /\ attempts[j] <= MaxAttempts[j] + crashes + lapses
        /\ Orphaned(j) => attempts[j] + 1 <= MaxAttempts[j] + crashes + lapses

(* available_at orders the due rows, however often it was written; a row   *)
(* whose backoff has not elapsed is not due.                               *)
DueOrdered ==
    /\ \A j \in waiting : status[j] = "RETRYING"
    /\ \A j \in Jobs : j \notin ahead[j]
    /\ \A j, k \in Jobs : Due(j) /\ Due(k) /\ j # k => (j \in ahead[k] <=> k \notin ahead[j])
    /\ \A i, j, k \in Jobs :
          Due(i) /\ Due(j) /\ Due(k) /\ i \in ahead[j] /\ j \in ahead[k] => i \in ahead[k]

(* The table has finitely many rows, whatever keys there are to submit.    *)
Rows == {j \in Jobs : status[j] # "NONE"}

QueueInv == DueOrdered /\ IsFiniteSet(Rows)

IInv ==
    /\ TypeOK
    /\ JobsInHand
    /\ LedgerFirst
    /\ OneEntitled
    /\ EffectsReserved
    /\ EffectAccounted
    /\ Fenced
    /\ TakeoversPaid
    /\ QueueInv

-----------------------------------------------------------------------------
(* The invariant holds when the store is created and the workers start.    *)
THEOREM InitInv == Init => IInv
  <1> SUFFICES ASSUME Init PROVE IInv
    OBVIOUS
  <1>1. /\ TypeOK /\ JobsInHand /\ LedgerFirst /\ OneEntitled /\ EffectsReserved
        /\ EffectAccounted /\ Fenced /\ TakeoversPaid /\ DueOrdered
    BY StoreAssumption, PipelineAssumption
    DEF Init, StoreInit, TypeOK, StoreTypeOK, Statuses, Phases, JobsInHand, LedgerFirst,
        OneEntitled, EffectsReserved, EffectAccounted, Fenced, HeldBy, TakeoversPaid, Orphaned,
        DueOrdered, Due
  <1>2. Rows = {}
    BY DEF Init, StoreInit, Rows
  <1> QED
    BY <1>1, <1>2, FS_EmptySet DEF IInv, QueueInv

(* Every step preserves the type invariant.                                *)
LEMMA TypeStep ==
    ASSUME TypeOK, JobsInHand, [Next]_vars
    PROVE  TypeOK'
  <1> USE StoreAssumption, PipelineAssumption
    DEF TypeOK, StoreTypeOK, Statuses, Phases, storeVars, workerVars, counters, JobsInHand
  <1>1. ASSUME NEW j \in Jobs, ClientSubmits(j) PROVE TypeOK'
    BY <1>1 DEF ClientSubmits, Submit, MakeDue, Due
  <1>2. ASSUME NEW j \in Jobs, OperatorRequeues(j) PROVE TypeOK'
    BY <1>2 DEF OperatorRequeues, RequeueDlq, MakeDue, Due
  <1>3. ASSUME NEW j \in Jobs, DeadLeaseLapses(j) PROVE TypeOK'
    BY <1>3 DEF DeadLeaseLapses, LeaseLapses
  <1>4. ASSUME NEW j \in Jobs, LiveLeaseLapses(j) PROVE TypeOK'
    BY <1>4 DEF LiveLeaseLapses, LeaseLapses
  <1>5. ASSUME NEW j \in Jobs, RetryComesDue(j) PROVE TypeOK'
    BY <1>5 DEF RetryComesDue, BackoffElapses, MakeDue, Due
  <1>6. ASSUME NEW w \in Workers, WorkerClaims(w) PROVE TypeOK'
    BY <1>6 DEF WorkerClaims, Claim, Runnable
  <1>7. ASSUME NEW w \in Workers, HandlerAsksLedger(w) PROVE TypeOK'
    BY <1>7 DEF HandlerAsksLedger, SideEffectOnce
  <1>8. ASSUME NEW w \in Workers, HandlerPerformsEffect(w) PROVE TypeOK'
    BY <1>8 DEF HandlerPerformsEffect
  <1>9. ASSUME NEW w \in Workers, WorkerCompletes(w) PROVE TypeOK'
    BY <1>9 DEF WorkerCompletes, Complete, HeldBy, Idle
  <1>10. ASSUME NEW w \in Workers, WorkerFails(w) PROVE TypeOK'
    BY <1>10 DEF WorkerFails, Fail, HeldBy, Exhausted, Idle
  <1>11. ASSUME NEW w \in Workers, HandlerHeartbeats(w) PROVE TypeOK'
    BY <1>11 DEF HandlerHeartbeats, Heartbeat, HeldBy
  <1>12. ASSUME NEW w \in Workers, HandlerRaises(w) PROVE TypeOK'
    BY <1>12 DEF HandlerRaises
  <1>13. ASSUME NEW w \in Workers, WorkerCrashes(w) PROVE TypeOK'
    BY <1>13 DEF WorkerCrashes, Idle
  <1>14. CASE UNCHANGED vars
    BY <1>14 DEF vars
  <1> QED
    BY <1>1, <1>2, <1>3, <1>4, <1>5, <1>6, <1>7, <1>8, <1>9, <1>10, <1>11, <1>12, <1>13, <1>14
      DEF Next, RunOnce

(* A row never disappears under the worker that runs it.                   *)
LEMMA JobsInHandStep ==
    ASSUME TypeOK, JobsInHand, [Next]_vars
    PROVE  JobsInHand'
  <1> USE StoreAssumption, PipelineAssumption
    DEF TypeOK, StoreTypeOK, Statuses, Phases, storeVars, workerVars, counters, JobsInHand
  <1>1. ASSUME NEW j \in Jobs, ClientSubmits(j) PROVE JobsInHand'
    BY <1>1 DEF ClientSubmits, Submit, MakeDue, Due
  <1>2. ASSUME NEW j \in Jobs, OperatorRequeues(j) PROVE JobsInHand'
    BY <1>2 DEF OperatorRequeues, RequeueDlq, MakeDue, Due
  <1>3. ASSUME NEW j \in Jobs, DeadLeaseLapses(j) PROVE JobsInHand'
    BY <1>3 DEF DeadLeaseLapses, LeaseLapses
  <1>4. ASSUME NEW j \in Jobs, LiveLeaseLapses(j) PROVE JobsInHand'
    BY <1>4 DEF LiveLeaseLapses, LeaseLapses
  <1>5. ASSUME NEW j \in Jobs, RetryComesDue(j) PROVE JobsInHand'
    BY <1>5 DEF RetryComesDue, BackoffElapses, MakeDue, Due
  <1>6. ASSUME NEW w \in Workers, WorkerClaims(w) PROVE JobsInHand'
    BY <1>6 DEF WorkerClaims, Claim, Runnable
  <1>7. ASSUME NEW w \in Workers, HandlerAsksLedger(w) PROVE JobsInHand'
    BY <1>7 DEF HandlerAsksLedger, SideEffectOnce
  <1>8. ASSUME NEW w \in Workers, HandlerPerformsEffect(w) PROVE JobsInHand'
    BY <1>8 DEF HandlerPerformsEffect
  <1>9. ASSUME NEW w \in Workers, WorkerCompletes(w) PROVE JobsInHand'
    BY <1>9 DEF WorkerCompletes, Complete, HeldBy, Idle
  <1>10. ASSUME NEW w \in Workers, WorkerFails(w) PROVE JobsInHand'
    BY <1>10 DEF WorkerFails, Fail, HeldBy, Exhausted, Idle
  <1>11. ASSUME NEW w \in Workers, HandlerHeartbeats(w) PROVE JobsInHand'
    BY <1>11 DEF HandlerHeartbeats, Heartbeat, HeldBy
  <1>12. ASSUME NEW w \in Workers, HandlerRaises(w) PROVE JobsInHand'
    BY <1>12 DEF HandlerRaises
  <1>13. ASSUME NEW w \in Workers, WorkerCrashes(w) PROVE JobsInHand'
    BY <1>13 DEF WorkerCrashes, Idle
  <1>14. CASE UNCHANGED vars
    BY <1>14 DEF vars
  <1> QED
    BY <1>1, <1>2, <1>3, <1>4, <1>5, <1>6, <1>7, <1>8, <1>9, <1>10, <1>11, <1>12, <1>13, <1>14
      DEF Next, RunOnce

(* The ledger admits one worker to the effect of a key, once.              *)
LEMMA LedgerStep ==
    ASSUME TypeOK, JobsInHand, LedgerFirst, OneEntitled, EffectsReserved, [Next]_vars
    PROVE  (LedgerFirst /\ OneEntitled /\ EffectsReserved)'
  <1> USE StoreAssumption, PipelineAssumption
    DEF TypeOK, StoreTypeOK, Statuses, Phases, storeVars, workerVars, counters,
        JobsInHand, LedgerFirst, OneEntitled, EffectsReserved
  <1>1. ASSUME NEW j \in Jobs, ClientSubmits(j) PROVE (LedgerFirst /\ OneEntitled /\ EffectsReserved)'
    BY <1>1 DEF ClientSubmits, Submit, MakeDue, Due
  <1>2. ASSUME NEW j \in Jobs, OperatorRequeues(j) PROVE (LedgerFirst /\ OneEntitled /\ EffectsReserved)'
    BY <1>2 DEF OperatorRequeues, RequeueDlq, MakeDue, Due
  <1>3. ASSUME NEW j \in Jobs, DeadLeaseLapses(j) PROVE (LedgerFirst /\ OneEntitled /\ EffectsReserved)'
    BY <1>3 DEF DeadLeaseLapses, LeaseLapses
  <1>4. ASSUME NEW j \in Jobs, LiveLeaseLapses(j) PROVE (LedgerFirst /\ OneEntitled /\ EffectsReserved)'
    BY <1>4 DEF LiveLeaseLapses, LeaseLapses
  <1>5. ASSUME NEW j \in Jobs, RetryComesDue(j) PROVE (LedgerFirst /\ OneEntitled /\ EffectsReserved)'
    BY <1>5 DEF RetryComesDue, BackoffElapses, MakeDue, Due
  <1>6. ASSUME NEW w \in Workers, WorkerClaims(w) PROVE (LedgerFirst /\ OneEntitled /\ EffectsReserved)'
    BY <1>6 DEF WorkerClaims, Claim, Runnable
  <1>7. ASSUME NEW w \in Workers, HandlerAsksLedger(w) PROVE (LedgerFirst /\ OneEntitled /\ EffectsReserved)'
    BY <1>7 DEF HandlerAsksLedger, SideEffectOnce
  <1>8. ASSUME NEW w \in Workers, HandlerPerformsEffect(w) PROVE (LedgerFirst /\ OneEntitled /\ EffectsReserved)'
    BY <1>8 DEF HandlerPerformsEffect
  <1>9. ASSUME NEW w \in Workers, WorkerCompletes(w) PROVE (LedgerFirst /\ OneEntitled /\ EffectsReserved)'
    BY <1>9 DEF WorkerCompletes, Complete, HeldBy, Idle
  <1>10. ASSUME NEW w \in Workers, WorkerFails(w) PROVE (LedgerFirst /\ OneEntitled /\ EffectsReserved)'
    BY <1>10 DEF WorkerFails, Fail, HeldBy, Exhausted, Idle
  <1>11. ASSUME NEW w \in Workers, HandlerHeartbeats(w) PROVE (LedgerFirst /\ OneEntitled /\ EffectsReserved)'
    BY <1>11 DEF HandlerHeartbeats, Heartbeat, HeldBy
  <1>12. ASSUME NEW w \in Workers, HandlerRaises(w) PROVE (LedgerFirst /\ OneEntitled /\ EffectsReserved)'
    BY <1>12 DEF HandlerRaises
  <1>13. ASSUME NEW w \in Workers, WorkerCrashes(w) PROVE (LedgerFirst /\ OneEntitled /\ EffectsReserved)'
    BY <1>13 DEF WorkerCrashes, Idle
  <1>14. CASE UNCHANGED vars
    BY <1>14 DEF vars
  <1> QED
    BY <1>1, <1>2, <1>3, <1>4, <1>5, <1>6, <1>7, <1>8, <1>9, <1>10, <1>11, <1>12, <1>13, <1>14
      DEF Next, RunOnce

(* The effect happens, or its worker breaks, when it stops being at it.    *)
LEMMA EffectStep ==
    ASSUME TypeOK, JobsInHand, LedgerFirst, EffectsReserved, EffectAccounted, [Next]_vars
    PROVE  EffectAccounted'
  <1> USE StoreAssumption, PipelineAssumption
    DEF TypeOK, StoreTypeOK, Statuses, Phases, storeVars, workerVars, counters,
        JobsInHand, EffectAccounted
  <1>1. ASSUME NEW j \in Jobs,
               \/ ClientSubmits(j) \/ OperatorRequeues(j) \/ DeadLeaseLapses(j)
               \/ LiveLeaseLapses(j) \/ RetryComesDue(j)
        PROVE  EffectAccounted'
    <2>1. UNCHANGED <<ledger, workerVars, effects, broken>>
      BY <1>1 DEF ClientSubmits, Submit, OperatorRequeues, RequeueDlq, DeadLeaseLapses,
         LiveLeaseLapses, LeaseLapses, RetryComesDue, BackoffElapses
    <2> QED
      BY <2>1
  <1>2. ASSUME NEW w \in Workers, WorkerClaims(w) PROVE EffectAccounted'
    <2>1. PICK j \in Jobs : Claim(j, w) /\ job' = [job EXCEPT ![w] = j]
      BY <1>2 DEF WorkerClaims
    <2>2. /\ pc[w] = "idle" /\ pc' = [pc EXCEPT ![w] = "handler"]
          /\ UNCHANGED <<ledger, effects, broken>>
      BY <1>2, <2>1 DEF WorkerClaims, Claim
    <2> QED
      BY <2>1, <2>2
  <1>3. ASSUME NEW w \in Workers, HandlerAsksLedger(w) PROVE EffectAccounted'
    BY <1>3 DEF HandlerAsksLedger, SideEffectOnce
  <1>4. ASSUME NEW w \in Workers, HandlerPerformsEffect(w) PROVE EffectAccounted'
    BY <1>4 DEF HandlerPerformsEffect, LedgerFirst
  <1>5. ASSUME NEW w \in Workers, WorkerCompletes(w) \/ WorkerFails(w) PROVE EffectAccounted'
    BY <1>5 DEF WorkerCompletes, WorkerFails, Complete, Fail, Idle
  <1>6. ASSUME NEW w \in Workers, HandlerHeartbeats(w) PROVE EffectAccounted'
    BY <1>6 DEF HandlerHeartbeats, Heartbeat
  <1>7. ASSUME NEW w \in Workers, HandlerRaises(w) \/ WorkerCrashes(w) PROVE EffectAccounted'
    BY <1>7 DEF HandlerRaises, WorkerCrashes, Idle
  <1>8. CASE UNCHANGED vars
    BY <1>8 DEF vars
  <1> QED
    BY <1>1, <1>2, <1>3, <1>4, <1>5, <1>6, <1>7, <1>8 DEF Next, RunOnce

(* Making a row due puts it behind the others that are.                    *)
LEMMA MakeDueKeepsOrder ==
    ASSUME TypeOK, DueOrdered, NEW j \in Jobs, MakeDue(j), ~Due(j),
           \A k \in Jobs \ {j} : status'[k] = status[k],
           waiting' \subseteq waiting, waiting \subseteq waiting' \cup {j}, j \notin waiting'
    PROVE  DueOrdered'
  <1> USE DEF TypeOK, StoreTypeOK, DueOrdered, MakeDue
  <1>1. \A k \in Jobs \ {j} : Due(k)' <=> Due(k)
    BY DEF Due
  <1>2. /\ ahead'[j] = {d \in Jobs \ {j} : Due(d)}
        /\ \A k \in Jobs \ {j} : ahead'[k] = ahead[k] \ {j}
    OBVIOUS
  <1>3. \A k \in waiting' : status'[k] = "RETRYING"
    OBVIOUS
  <1>4. \A k \in Jobs : k \notin ahead'[k]
    BY <1>2
  <1>5. \A i, k \in Jobs : Due(i)' /\ Due(k)' /\ i # k => (i \in ahead'[k] <=> k \notin ahead'[i])
    BY <1>1, <1>2
  <1>6. \A h, i, k \in Jobs :
            Due(h)' /\ Due(i)' /\ Due(k)' /\ h \in ahead'[i] /\ i \in ahead'[k] => h \in ahead'[k]
    BY <1>1, <1>2
  <1> QED
    BY <1>3, <1>4, <1>5, <1>6

(* Whatever else happens to a row, it is in its place or not due.          *)
LEMMA SamePlaceKeepsOrder ==
    ASSUME TypeOK, DueOrdered, ahead' = ahead,
           \A k \in Jobs : Due(k)' => Due(k),
           \A k \in waiting' : status'[k] = "RETRYING"
    PROVE  DueOrdered'
  BY DEF TypeOK, StoreTypeOK, DueOrdered

(* What complete and fail make of the rows: one that is held is over, or   *)
(* waits for its backoff.                                                  *)
LEMMA SettlingMoves ==
    ASSUME TypeOK, JobsInHand, NEW w \in Workers, WorkerCompletes(w) \/ WorkerFails(w)
    PROVE  /\ ahead' = ahead
           /\ waiting \subseteq waiting'
           /\ \A k \in waiting' : k \in waiting \/ status'[k] = "RETRYING"
           /\ \A k \in Jobs :
                 \/ status'[k] = status[k]
                 \/ /\ status[k] = "PROCESSING"
                    /\ \/ status'[k] \in {"COMPLETED", "DLQ"}
                       \/ status'[k] = "RETRYING" /\ k \in waiting'
  <1> USE DEF TypeOK, StoreTypeOK, storeVars
  <1>1. job[w] \in Jobs
    BY DEF WorkerCompletes, WorkerFails, JobsInHand
  <1>2. CASE ~HeldBy(job[w], w)
    BY <1>2 DEF WorkerCompletes, WorkerFails, Complete, Fail
  <1>3. CASE WorkerCompletes(w) /\ HeldBy(job[w], w)
    BY <1>1, <1>3 DEF WorkerCompletes, Complete, HeldBy
  <1>4. CASE WorkerFails(w) /\ HeldBy(job[w], w)
    <2>1. /\ status[job[w]] = "PROCESSING"
          /\ status' = [status EXCEPT ![job[w]] = IF Exhausted(job[w]) THEN "DLQ" ELSE "RETRYING"]
          /\ waiting' = IF Exhausted(job[w]) THEN waiting ELSE waiting \cup {job[w]}
          /\ ahead' = ahead
      BY <1>4 DEF WorkerFails, Fail, HeldBy
    <2> QED
      BY <1>1, <2>1
  <1> QED
    BY <1>2, <1>3, <1>4

(* Every write of available_at keeps the order, every submission adds one  *)
(* row.                                                                    *)
LEMMA QueueStep ==
    ASSUME TypeOK, JobsInHand, QueueInv, [Next]_vars
    PROVE  QueueInv'
  <1> USE DEF TypeOK, StoreTypeOK, storeVars, QueueInv
  <1>1. ASSUME NEW j \in Jobs, ClientSubmits(j) PROVE QueueInv'
    <2>1. CASE status[j] = "NONE"
      <3>1. /\ MakeDue(j) /\ status' = [status EXCEPT ![j] = "QUEUED"]
            /\ UNCHANGED waiting
        BY <1>1, <2>1 DEF ClientSubmits, Submit
      <3>2. DueOrdered'
        BY <2>1, <3>1, MakeDueKeepsOrder DEF Due, DueOrdered
      <3>3. Rows' = Rows \cup {j}
        BY <3>1 DEF Rows
      <3> QED
        BY <3>2, <3>3, FS_AddElement
    <2>2. CASE status[j] # "NONE"
      BY <1>1, <2>2 DEF ClientSubmits, Submit, DueOrdered, Due, Rows
    <2> QED
      BY <2>1, <2>2
  <1>2. ASSUME NEW j \in Jobs, OperatorRequeues(j) PROVE QueueInv'
    <2>1. Rows' = Rows
      BY <1>2 DEF OperatorRequeues, RequeueDlq, Rows
    <2>2. CASE status[j] = "DLQ"
      <3>1. /\ MakeDue(j) /\ status' = [status EXCEPT ![j] = "QUEUED"]
            /\ UNCHANGED waiting
        BY <1>2, <2>2 DEF OperatorRequeues, RequeueDlq
      <3>2. DueOrdered'
        BY <2>2, <3>1, MakeDueKeepsOrder DEF Due, DueOrdered
      <3> QED
        BY <2>1, <3>2
    <2>3. CASE status[j] # "DLQ"
      BY <1>2, <2>1, <2>3 DEF OperatorRequeues, RequeueDlq, DueOrdered, Due
    <2> QED
      BY <2>2, <2>3
  <1>3. ASSUME NEW j \in Jobs, RetryComesDue(j) PROVE QueueInv'
    <2>1. /\ j \in waiting /\ waiting' = waiting \ {j} /\ MakeDue(j) /\ UNCHANGED status
      BY <1>3 DEF RetryComesDue, BackoffElapses
    <2>2. DueOrdered'
      BY <2>1, MakeDueKeepsOrder DEF Due, DueOrdered
    <2> QED
      BY <2>1, <2>2 DEF Rows
  <1>4. ASSUME NEW w \in Workers, WorkerClaims(w) PROVE QueueInv'
    <2>1. PICK j \in Jobs : Claim(j, w)
      BY <1>4 DEF WorkerClaims
    <2>2. /\ Runnable(j) /\ status' = [status EXCEPT ![j] = "PROCESSING"]
          /\ UNCHANGED <<waiting, ahead>>
      BY <2>1 DEF Claim
    <2>3. DueOrdered'
      BY <2>2, SamePlaceKeepsOrder DEF Due, Runnable, DueOrdered
    <2>4. Rows' = Rows
      BY <2>2 DEF Rows, Runnable
    <2> QED
      BY <2>3, <2>4
  <1>5. ASSUME NEW w \in Workers, WorkerCompletes(w) \/ WorkerFails(w) PROVE QueueInv'
    <2>1. /\ \A k \in Jobs : Due(k)' => Due(k)
          /\ \A k \in waiting' : status'[k] = "RETRYING"
      BY <1>5, SettlingMoves DEF Due, DueOrdered
    <2>2. DueOrdered'
      BY <1>5, <2>1, SettlingMoves, SamePlaceKeepsOrder
    <2>3. Rows' = Rows
      BY <1>5, SettlingMoves DEF Rows
    <2> QED
      BY <2>2, <2>3
  <1>6. ASSUME UNCHANGED <<status, waiting, ahead>> PROVE QueueInv'
    BY <1>6 DEF DueOrdered, Due, Rows
  <1>7. ASSUME NEW j \in Jobs, DeadLeaseLapses(j) \/ LiveLeaseLapses(j) PROVE QueueInv'
    BY <1>7, <1>6 DEF DeadLeaseLapses, LiveLeaseLapses, LeaseLapses
  <1>8. ASSUME NEW w \in Workers,
               \/ HandlerAsksLedger(w) \/ HandlerPerformsEffect(w) \/ HandlerHeartbeats(w)
               \/ HandlerRaises(w) \/ WorkerCrashes(w)
        PROVE  QueueInv'
    BY <1>8, <1>6 DEF HandlerAsksLedger, SideEffectOnce, HandlerPerformsEffect,
       HandlerHeartbeats, Heartbeat, HandlerRaises, WorkerCrashes
  <1>9. CASE UNCHANGED vars
    BY <1>9, <1>6 DEF vars
  <1> QED
    BY <1>1, <1>2, <1>3, <1>4, <1>5, <1>7, <1>8, <1>9 DEF Next, RunOnce

(* A takeover changes the owner together with the attempt number.          *)
LEMMA FenceStep ==
    ASSUME TypeOK, JobsInHand, Fenced, [Next]_vars
    PROVE  Fenced'
  <1> USE StoreAssumption, PipelineAssumption
    DEF TypeOK, StoreTypeOK, Statuses, Phases, storeVars, workerVars, counters,
        JobsInHand, Fenced, HeldBy
  <1>1. ASSUME NEW j \in Jobs, ClientSubmits(j) PROVE Fenced'
    BY <1>1 DEF ClientSubmits, Submit, MakeDue, Due
  <1>2. ASSUME NEW j \in Jobs, OperatorRequeues(j) PROVE Fenced'
    BY <1>2 DEF OperatorRequeues, RequeueDlq, MakeDue, Due
  <1>3. ASSUME NEW j \in Jobs, DeadLeaseLapses(j) PROVE Fenced'
    BY <1>3 DEF DeadLeaseLapses, LeaseLapses
  <1>4. ASSUME NEW j \in Jobs, LiveLeaseLapses(j) PROVE Fenced'
    BY <1>4 DEF LiveLeaseLapses, LeaseLapses
  <1>5. ASSUME NEW j \in Jobs, RetryComesDue(j) PROVE Fenced'
    BY <1>5 DEF RetryComesDue, BackoffElapses, MakeDue, Due
  <1>6. ASSUME NEW w \in Workers, WorkerClaims(w) PROVE Fenced'
    BY <1>6 DEF WorkerClaims, Claim, Runnable
  <1>7. ASSUME NEW w \in Workers, HandlerAsksLedger(w) PROVE Fenced'
    BY <1>7 DEF HandlerAsksLedger, SideEffectOnce
  <1>8. ASSUME NEW w \in Workers, HandlerPerformsEffect(w) PROVE Fenced'
    BY <1>8 DEF HandlerPerformsEffect
  <1>9. ASSUME NEW w \in Workers, WorkerCompletes(w) PROVE Fenced'
    BY <1>9 DEF WorkerCompletes, Complete, HeldBy, Idle
  <1>10. ASSUME NEW w \in Workers, WorkerFails(w) PROVE Fenced'
    BY <1>10 DEF WorkerFails, Fail, HeldBy, Exhausted, Idle
  <1>11. ASSUME NEW w \in Workers, HandlerHeartbeats(w) PROVE Fenced'
    BY <1>11 DEF HandlerHeartbeats, Heartbeat, HeldBy
  <1>12. ASSUME NEW w \in Workers, HandlerRaises(w) PROVE Fenced'
    BY <1>12 DEF HandlerRaises
  <1>13. ASSUME NEW w \in Workers, WorkerCrashes(w) PROVE Fenced'
    BY <1>13 DEF WorkerCrashes, Idle
  <1>14. CASE UNCHANGED vars
    BY <1>14 DEF vars
  <1> QED
    BY <1>1, <1>2, <1>3, <1>4, <1>5, <1>6, <1>7, <1>8, <1>9, <1>10, <1>11, <1>12, <1>13, <1>14
      DEF Next, RunOnce

(* A claim either follows a retry below the limit or uses up one crash or  *)
(* one lapse.                                                              *)
LEMMA TakeoverStep ==
    ASSUME TypeOK, JobsInHand, TakeoversPaid, [Next]_vars
    PROVE  TakeoversPaid'
  <1> USE StoreAssumption, PipelineAssumption
    DEF TypeOK, StoreTypeOK, Statuses, Phases, storeVars, workerVars, counters,
        JobsInHand, TakeoversPaid, Orphaned, HolderGone
  <1>1. ASSUME NEW j \in Jobs, ClientSubmits(j) PROVE TakeoversPaid'
    BY <1>1 DEF ClientSubmits, Submit, MakeDue, Due
  <1>2. ASSUME NEW j \in Jobs, OperatorRequeues(j) PROVE TakeoversPaid'
    BY <1>2 DEF OperatorRequeues, RequeueDlq, MakeDue, Due
  <1>3. ASSUME NEW j \in Jobs, DeadLeaseLapses(j) PROVE TakeoversPaid'
    BY <1>3 DEF DeadLeaseLapses, LeaseLapses
  <1>4. ASSUME NEW j \in Jobs, LiveLeaseLapses(j) PROVE TakeoversPaid'
    BY <1>4 DEF LiveLeaseLapses, LeaseLapses
  <1>5. ASSUME NEW j \in Jobs, RetryComesDue(j) PROVE TakeoversPaid'
    BY <1>5 DEF RetryComesDue, BackoffElapses, MakeDue, Due
  <1>6. ASSUME NEW w \in Workers, WorkerClaims(w) PROVE TakeoversPaid'
    <2>1. PICK j \in Jobs :
            /\ Claim(j, w)
            /\ job' = [job EXCEPT ![w] = j]
      BY <1>6 DEF WorkerClaims
    <2>2. /\ job[w] = NoJob
          /\ crashes' = crashes /\ lapses' = lapses
      BY <1>6 DEF WorkerClaims
    <2>3. /\ status'[j] = "PROCESSING"
          /\ attempts'[j] = attempts[j] + 1
          /\ ~Orphaned(j)'
      BY <2>1 DEF Claim
    <2>4. attempts[j] + 1 <= MaxAttempts[j] + crashes + lapses
      BY <2>1 DEF Claim, Runnable
    <2>5. ASSUME NEW k \in Jobs, k # j
          PROVE  /\ status'[k] = status[k] /\ attempts'[k] = attempts[k]
                 /\ Orphaned(k)' => Orphaned(k)
      BY <2>1, <2>2, <2>5 DEF Claim
    <2> QED
      BY <2>2, <2>3, <2>4, <2>5
  <1>7. ASSUME NEW w \in Workers, HandlerAsksLedger(w) PROVE TakeoversPaid'
    BY <1>7 DEF HandlerAsksLedger, SideEffectOnce
  <1>8. ASSUME NEW w \in Workers, HandlerPerformsEffect(w) PROVE TakeoversPaid'
    BY <1>8 DEF HandlerPerformsEffect
  <1>9. ASSUME NEW w \in Workers, WorkerCompletes(w) PROVE TakeoversPaid'
    BY <1>9 DEF WorkerCompletes, Complete, HeldBy, Idle
  <1>10. ASSUME NEW w \in Workers, WorkerFails(w) PROVE TakeoversPaid'
    BY <1>10 DEF WorkerFails, Fail, HeldBy, Exhausted, Idle
  <1>11. ASSUME NEW w \in Workers, HandlerHeartbeats(w) PROVE TakeoversPaid'
    BY <1>11 DEF HandlerHeartbeats, Heartbeat, HeldBy
  <1>12. ASSUME NEW w \in Workers, HandlerRaises(w) PROVE TakeoversPaid'
    BY <1>12 DEF HandlerRaises
  <1>13. ASSUME NEW w \in Workers, WorkerCrashes(w) PROVE TakeoversPaid'
    BY <1>13 DEF WorkerCrashes, Idle
  <1>14. CASE UNCHANGED vars
    BY <1>14 DEF vars
  <1> QED
    BY <1>1, <1>2, <1>3, <1>4, <1>5, <1>6, <1>7, <1>8, <1>9, <1>10, <1>11, <1>12, <1>13, <1>14
      DEF Next, RunOnce

(* The invariant is inductive.                                             *)
THEOREM StepInv == IInv /\ [Next]_vars => IInv'
  BY TypeStep, JobsInHandStep, LedgerStep, EffectStep, FenceStep, TakeoverStep, QueueStep DEF IInv

(* IInv holds of every reachable state of the pipeline.                    *)
THEOREM Invariance == Spec => []IInv
  BY InitInv, StepInv, PTL DEF Spec

-----------------------------------------------------------------------------
(* Every variable of the pipeline keeps its type.                          *)
THEOREM TypeCorrect == Spec => []TypeOK
  <1>1. IInv => TypeOK
    BY DEF IInv
  <1> QED
    BY <1>1, Invariance, PTL

(* The ledger makes the external action of a key happen at most once.      *)
THEOREM AtMostOnce == Spec => []AtMostOneEffect
  <1>1. IInv => AtMostOneEffect
    <2> SUFFICES ASSUME IInv, NEW j \in Jobs PROVE effects[j] <= 1
      BY DEF AtMostOneEffect
    <2>1. effects[j] = 0 \/ effects[j] = 1
      BY DEF IInv, EffectsReserved
    <2> QED
      BY <2>1
  <1> QED
    BY <1>1, Invariance, PTL

(* COMPLETED is only ever reported of a job whose effect was reserved.     *)
THEOREM Reservation == Spec => []SuccessIsReserved
  <1>1. IInv => SuccessIsReserved
    BY DEF IInv, EffectsReserved, LedgerFirst, SuccessIsReserved
  <1> QED
    BY <1>1, Invariance, PTL

(* Only a worker that breaks at the effect loses it (run_once and          *)
(* ledger.once): every other success comes after the effect or beside the  *)
(* worker that is at it.                                                   *)
THEOREM NothingElseIsLost == Spec => []DoneUnlessBroken
  <1>1. IInv => DoneUnlessBroken
    BY DEF IInv, EffectsReserved, LedgerFirst, EffectAccounted, DoneUnlessBroken
  <1> QED
    BY <1>1, Invariance, PTL

(* At most one worker stands between the ledger and the effect of a job.   *)
THEOREM Entitlement == Spec => []OneEntitled
  <1>1. IInv => OneEntitled
    BY DEF IInv
  <1> QED
    BY <1>1, Invariance, PTL

(* max_attempts is exceeded by lease takeovers alone, one for each crash   *)
(* or lapse.                                                               *)
THEOREM Budget == Spec => []RetryBudget
  <1>1. IInv => RetryBudget
    BY DEF IInv, TakeoversPaid, RetryBudget
  <1> QED
    BY <1>1, Invariance, PTL

(* The WHERE worker_id = ? of complete and fail fences off slow workers.   *)
THEOREM Fencing == Spec => NewestAttemptDecides
  <1>1. IInv /\ [Next]_vars => [SettledByNewest]_vars
    <2> SUFFICES ASSUME IInv, Next PROVE SettledByNewest
      OBVIOUS
    <2> USE StoreAssumption, PipelineAssumption
        DEF IInv, TypeOK, StoreTypeOK, Statuses, Phases, storeVars, workerVars, counters,
            JobsInHand, Fenced, HeldBy, SettledByNewest
    <2>1. ASSUME NEW j \in Jobs,
                 ClientSubmits(j) \/ OperatorRequeues(j) \/ DeadLeaseLapses(j)
                   \/ LiveLeaseLapses(j) \/ RetryComesDue(j)
          PROVE  SettledByNewest
      BY <2>1 DEF ClientSubmits, Submit, OperatorRequeues, RequeueDlq, DeadLeaseLapses,
                  LiveLeaseLapses, LeaseLapses, RetryComesDue, BackoffElapses
    <2>2. ASSUME NEW w \in Workers,
                 WorkerClaims(w) \/ HandlerAsksLedger(w) \/ HandlerPerformsEffect(w)
                   \/ HandlerHeartbeats(w) \/ HandlerRaises(w) \/ WorkerCrashes(w)
          PROVE  SettledByNewest
      BY <2>2 DEF WorkerClaims, Claim, HandlerAsksLedger, SideEffectOnce,
                  HandlerPerformsEffect, HandlerHeartbeats, Heartbeat, HandlerRaises,
                  WorkerCrashes
    <2>3. ASSUME NEW w \in Workers, WorkerCompletes(w) PROVE SettledByNewest
      BY <2>3 DEF WorkerCompletes, Complete, Idle
    <2>4. ASSUME NEW w \in Workers, WorkerFails(w) PROVE SettledByNewest
      BY <2>4 DEF WorkerFails, Fail, Idle
    <2> QED
      BY <2>1, <2>2, <2>3, <2>4 DEF Next, RunOnce
  <1> QED
    BY <1>1, Invariance, PTL DEF Spec, NewestAttemptDecides

(* No late worker and no operator takes a job out of COMPLETED.            *)
THEOREM Finality == Spec => CompletedIsFinal
  <1>1. IInv /\ [Next]_vars => [CompletedKept]_vars
    <2> SUFFICES ASSUME IInv, Next PROVE CompletedKept
      OBVIOUS
    <2> USE DEF IInv, TypeOK, StoreTypeOK, storeVars, JobsInHand, HeldBy, CompletedKept
    <2>1. ASSUME NEW j \in Jobs,
                 ClientSubmits(j) \/ OperatorRequeues(j) \/ DeadLeaseLapses(j)
                   \/ LiveLeaseLapses(j) \/ RetryComesDue(j)
          PROVE  CompletedKept
      BY <2>1 DEF ClientSubmits, Submit, OperatorRequeues, RequeueDlq, DeadLeaseLapses,
                  LiveLeaseLapses, LeaseLapses, RetryComesDue, BackoffElapses
    <2>2. ASSUME NEW w \in Workers,
                 RunOnce(w) \/ HandlerHeartbeats(w) \/ HandlerRaises(w) \/ WorkerCrashes(w)
          PROVE  CompletedKept
      BY <2>2 DEF RunOnce, WorkerClaims, Claim, Runnable, HandlerAsksLedger, SideEffectOnce,
                  HandlerPerformsEffect, HandlerHeartbeats, Heartbeat, HandlerRaises,
                  WorkerCrashes, WorkerCompletes, Complete, WorkerFails, Fail
    <2> QED
      BY <2>1, <2>2 DEF Next
  <1> QED
    BY <1>1, Invariance, PTL DEF Spec, CompletedIsFinal

-----------------------------------------------------------------------------
(* The queue.  Its order is one of finitely many rows, so that a claim     *)
(* finds the oldest of those that can be run.                              *)
LEMMA OldestExists ==
    ASSUME TypeOK, QueueInv, NEW j \in Jobs, Runnable(j)
    PROVE  \E o \in Jobs : Runnable(o) /\ \A k \in ahead[o] : ~Runnable(k)
  <1> DEFINE Able == {k \in Jobs : Runnable(k)}
             before == [k \in Able |-> {i \in Able : i \in ahead[k]}]
  <1>1. Able \in SUBSET Rows /\ \A k \in Able : Due(k)
    BY DEF Rows, Runnable, Due
  <1>2. IsFiniteSet(Able) /\ Able # {}
    BY <1>1, FS_Subset DEF QueueInv
  <1>3. before \in [Able -> SUBSET Able]
    OBVIOUS
  <1>4. \A k \in Able : k \notin before[k]
    BY DEF QueueInv, DueOrdered
  <1>5. \A k \in Able : \A i \in before[k] : before[i] \subseteq before[k]
    BY <1>1 DEF QueueInv, DueOrdered
  <1> HIDE DEF Able, before
  <1>6. PICK o \in Able : before[o] = {}
    BY <1>2, <1>3, <1>4, <1>5, FiniteOrderHasMinimum
  <1> QED
    BY <1>6 DEF Able, before, TypeOK, StoreTypeOK

(* Whenever a row can be run, a claim succeeds, for any number of rows and *)
(* any history of retries, requeues and takeovers (claim's SELECT .. ORDER *)
(* BY available_at LIMIT 1 followed by its UPDATE).                        *)
WorkIsFound ==
    (\E j \in Jobs : Runnable(j)) =>
        \E j \in Jobs : Runnable(j) /\ \A k \in ahead[j] : ~Runnable(k)

THEOREM ClaimsSucceed == Spec => []WorkIsFound
  <1>1. IInv => WorkIsFound
    BY OldestExists DEF IInv, WorkIsFound
  <1> QED
    BY <1>1, Invariance, PTL

(* A due row keeps its place: only rows that become due are given a new    *)
(* available_at, and it is the largest.                                    *)
THEOREM PlacesAreKept == Spec => NoOvertaking
  <1>1. IInv /\ [Next]_vars => [PlacesKept]_vars
    <2> SUFFICES ASSUME IInv, Next PROVE PlacesKept
      OBVIOUS
    <2> USE DEF IInv, TypeOK, StoreTypeOK, storeVars, PlacesKept
    <2>1. ASSUME NEW j \in Jobs, MakeDue(j), ~Due(j),
                 \A k \in Jobs \ {j} : status'[k] = status[k],
                 waiting \subseteq waiting' \cup {j}
          PROVE  PlacesKept
      BY <2>1 DEF MakeDue, Due
    <2>2. ASSUME ahead' = ahead, \A k \in Jobs : Due(k)' => Due(k) PROVE PlacesKept
      BY <2>2
    <2>3. ASSUME NEW j \in Jobs, ClientSubmits(j) \/ OperatorRequeues(j) PROVE PlacesKept
      <3>1. CASE UNCHANGED <<status, waiting, ahead>>
        BY <3>1, <2>2 DEF Due
      <3>2. CASE ~(UNCHANGED <<status, waiting, ahead>>)
        BY <2>3, <3>2, <2>1 DEF ClientSubmits, Submit, OperatorRequeues, RequeueDlq, Due
      <3> QED
        BY <3>1, <3>2
    <2>4. ASSUME NEW j \in Jobs, RetryComesDue(j) PROVE PlacesKept
      BY <2>4, <2>1 DEF RetryComesDue, BackoffElapses, Due, QueueInv, DueOrdered
    <2>5. ASSUME NEW j \in Jobs, DeadLeaseLapses(j) \/ LiveLeaseLapses(j) PROVE PlacesKept
      BY <2>5, <2>2 DEF DeadLeaseLapses, LiveLeaseLapses, LeaseLapses, Due
    <2>6. ASSUME NEW w \in Workers, WorkerClaims(w) PROVE PlacesKept
      BY <2>6, <2>2 DEF WorkerClaims, Claim, Runnable, Due
    <2>7. ASSUME NEW w \in Workers, WorkerCompletes(w) \/ WorkerFails(w) PROVE PlacesKept
      <3>1. \A k \in Jobs : Due(k)' => Due(k)
        BY <2>7, SettlingMoves DEF Due
      <3> QED
        BY <2>7, <3>1, <2>2, SettlingMoves
    <2>8. ASSUME NEW w \in Workers,
                 \/ HandlerAsksLedger(w) \/ HandlerPerformsEffect(w) \/ HandlerHeartbeats(w)
                 \/ HandlerRaises(w) \/ WorkerCrashes(w)
          PROVE  PlacesKept
      BY <2>8, <2>2 DEF HandlerAsksLedger, SideEffectOnce, HandlerPerformsEffect,
         HandlerHeartbeats, Heartbeat, HandlerRaises, WorkerCrashes, Due
    <2> QED
      BY <2>3, <2>4, <2>5, <2>6, <2>7, <2>8 DEF Next, RunOnce
  <1> QED
    BY <1>1, Invariance, PTL DEF Spec, NoOvertaking

-----------------------------------------------------------------------------
(* Faults stay within their bounds.                                        *)
FaultsBounded == crashes <= MaxCrashes /\ lapses <= MaxLapses

(* How often a row may still change: with each run that is left it is      *)
(* claimed, fails, backs off and comes due.                                *)
RunsLeft(j) == MaxAttempts[j] + MaxCrashes + MaxLapses - attempts[j]

RowLeft(j) ==
    CASE status[j] \in {"NONE", "COMPLETED", "DLQ"} -> 0
      [] status[j] = "PROCESSING" -> 4 * RunsLeft(j) + 3
      [] status[j] = "RETRYING" -> 4 * RunsLeft(j) + (IF j \in waiting THEN 2 ELSE 1)
      [] status[j] = "QUEUED" -> 4 * RunsLeft(j) + 1

RowKept(j) ==
    status'[j] = status[j] /\ attempts'[j] = attempts[j] /\ (j \in waiting' <=> j \in waiting)

RowsRunDown ==
    \A j \in Jobs :
        /\ RowLeft(j) \in Nat
        /\ \/ RowKept(j)
           \/ status[j] = "NONE" /\ status'[j] = "QUEUED"
           \/ status[j] = "DLQ" /\ status'[j] = "QUEUED" /\ requeues' = requeues + 1
           \/ RowLeft(j)' < RowLeft(j)

(* Each counter is checked before it grows.                                *)
LEMMA FaultsStep ==
    ASSUME TypeOK, FaultsBounded, [Next]_vars
    PROVE  FaultsBounded'
  <1> USE PipelineAssumption DEF TypeOK, FaultsBounded, counters
  <1>1. CASE UNCHANGED <<crashes, lapses>>
    BY <1>1
  <1>2. ASSUME NEW w \in Workers, WorkerCrashes(w) PROVE FaultsBounded'
    BY <1>2 DEF WorkerCrashes
  <1>3. ASSUME NEW j \in Jobs, LiveLeaseLapses(j) PROVE FaultsBounded'
    BY <1>3 DEF LiveLeaseLapses
  <1> QED
    BY <1>1, <1>2, <1>3
    DEF Next, RunOnce, vars, ClientSubmits, OperatorRequeues, DeadLeaseLapses, RetryComesDue,
        WorkerClaims, HandlerAsksLedger, HandlerPerformsEffect, WorkerCompletes, WorkerFails,
        HandlerHeartbeats, HandlerRaises

(* A row that is not settled has changes left.                             *)
LEMMA RowHasChanges ==
    ASSUME IInv, FaultsBounded, NEW j \in Jobs
    PROVE  /\ RunsLeft(j) \in Nat /\ RowLeft(j) \in Nat
           /\ status[j] \notin {"NONE", "COMPLETED", "DLQ"} => RowLeft(j) >= 4 * RunsLeft(j) + 1
  <1>1. /\ MaxAttempts[j] \in Nat /\ MaxCrashes \in Nat /\ MaxLapses \in Nat
        /\ attempts[j] \in Nat /\ crashes \in Nat /\ lapses \in Nat
        /\ attempts[j] <= MaxAttempts[j] + crashes + lapses
        /\ status[j] \in Statuses
    BY StoreAssumption, PipelineAssumption DEF IInv, TypeOK, StoreTypeOK, TakeoversPaid
  <1>2. RunsLeft(j) \in Nat
    BY <1>1 DEF RunsLeft, FaultsBounded
  <1> QED
    BY <1>1, <1>2 DEF RowLeft, Statuses

(* Between its submission or a requeue and its settlement a row changes a  *)
(* bounded number of times, whatever faults, heartbeats and late answers   *)
(* of workers there are: every claim uses up a run, and nothing but an     *)
(* operator gives one back (claim's attempts + 1, fail, requeue_dlq; what  *)
(* Settles needs besides fairness).                                        *)
THEOREM RetriesRunOut == Spec => [][RowsRunDown]_vars
  <1>1. ASSUME IInv, FaultsBounded, Next
        PROVE  RowsRunDown
    <2> SUFFICES ASSUME NEW j \in Jobs, ~RowKept(j), status[j] # "NONE"
                 PROVE  \/ status[j] = "DLQ" /\ status'[j] = "QUEUED" /\ requeues' = requeues + 1
                        \/ RowLeft(j)' < RowLeft(j)
      <3>1. \A j \in Jobs : RowLeft(j) \in Nat
        BY <1>1, RowHasChanges
      <3>2. ASSUME NEW j \in Jobs, status[j] = "NONE", status'[j] # "QUEUED" PROVE RowKept(j)
        <4>1. j \notin waiting /\ status \in [Jobs -> Statuses] /\ attempts \in [Jobs -> Nat]
          BY <1>1, <3>2 DEF IInv, QueueInv, DueOrdered, TypeOK, StoreTypeOK
        <4> USE <4>1 DEF RowKept
        <4>2. ASSUME NEW k \in Jobs,
                     \/ ClientSubmits(k) \/ OperatorRequeues(k) \/ DeadLeaseLapses(k)
                     \/ LiveLeaseLapses(k) \/ RetryComesDue(k)
              PROVE  RowKept(j)
          BY <3>2, <4>2
          DEF ClientSubmits, Submit, OperatorRequeues, RequeueDlq, DeadLeaseLapses,
              LiveLeaseLapses, LeaseLapses, RetryComesDue, BackoffElapses, storeVars
        <4>3. ASSUME NEW w \in Workers, WorkerClaims(w) PROVE RowKept(j)
          BY <3>2, <4>3 DEF WorkerClaims, Claim, Runnable
        <4>4. ASSUME NEW w \in Workers, WorkerCompletes(w) \/ WorkerFails(w) PROVE RowKept(j)
          BY <1>1, <3>2, <4>4
          DEF WorkerCompletes, Complete, WorkerFails, Fail, HeldBy, storeVars, IInv, JobsInHand
        <4>5. ASSUME NEW w \in Workers,
                     \/ HandlerAsksLedger(w) \/ HandlerPerformsEffect(w) \/ HandlerHeartbeats(w)
                     \/ HandlerRaises(w) \/ WorkerCrashes(w)
              PROVE  RowKept(j)
          BY <4>5 DEF HandlerAsksLedger, SideEffectOnce, HandlerPerformsEffect,
             HandlerHeartbeats, Heartbeat, HandlerRaises, WorkerCrashes, storeVars
        <4> QED
          BY <1>1, <4>2, <4>3, <4>4, <4>5 DEF Next, RunOnce
      <3> QED
        BY <3>1, <3>2 DEF RowsRunDown
    <2>1. /\ status \in [Jobs -> Statuses] /\ attempts \in [Jobs -> Nat]
          /\ \A k \in waiting : status[k] = "RETRYING"
          /\ RunsLeft(j) \in Nat
          /\ status[j] \notin {"NONE", "COMPLETED", "DLQ"} => RowLeft(j) >= 4 * RunsLeft(j) + 1
      BY <1>1, RowHasChanges DEF IInv, TypeOK, StoreTypeOK, QueueInv, DueOrdered
    <2> USE <2>1 DEF RowKept, RowLeft
    <2>2. ASSUME NEW k \in Jobs,
                 ClientSubmits(k) \/ OperatorRequeues(k) \/ DeadLeaseLapses(k) \/ LiveLeaseLapses(k)
          PROVE  status[j] = "DLQ" /\ status'[j] = "QUEUED" /\ requeues' = requeues + 1
      <3>1. CASE ClientSubmits(k)
        BY <3>1 DEF ClientSubmits, Submit, storeVars
      <3>2. CASE OperatorRequeues(k)
        BY <3>2 DEF OperatorRequeues, RequeueDlq
      <3>3. CASE DeadLeaseLapses(k) \/ LiveLeaseLapses(k)
        BY <3>3 DEF DeadLeaseLapses, LiveLeaseLapses, LeaseLapses
      <3> QED
        BY <2>2, <3>1, <3>2, <3>3
    <2>3. ASSUME NEW k \in Jobs, RetryComesDue(k) PROVE RowLeft(j)' < RowLeft(j)
      <3>1. /\ k = j /\ status[j] = "RETRYING" /\ status'[j] = "RETRYING"
            /\ j \in waiting /\ j \notin waiting' /\ RunsLeft(j)' = RunsLeft(j)
        BY <2>3 DEF RetryComesDue, BackoffElapses, RunsLeft
      <3> QED
        BY <3>1
    <2>4. ASSUME NEW w \in Workers, WorkerClaims(w) PROVE RowLeft(j)' < RowLeft(j)
      <3>1. /\ Runnable(j) /\ status'[j] = "PROCESSING" /\ attempts'[j] = attempts[j] + 1
        BY <2>4 DEF WorkerClaims, Claim
      <3>2. RunsLeft(j)' = RunsLeft(j) - 1
        BY <3>1, StoreAssumption, PipelineAssumption DEF RunsLeft
      <3>3. RowLeft(j)' = 4 * RunsLeft(j) - 1
        BY <3>1, <3>2
      <3> QED
        BY <3>1, <3>3 DEF Runnable
    <2>5. ASSUME NEW w \in Workers, WorkerCompletes(w) \/ WorkerFails(w)
          PROVE  RowLeft(j)' < RowLeft(j)
      <3>1. /\ status[j] = "PROCESSING" /\ attempts'[j] = attempts[j]
            /\ status'[j] \in {"COMPLETED", "DLQ", "RETRYING"}
        BY <1>1, <2>5
        DEF WorkerCompletes, Complete, WorkerFails, Fail, HeldBy, storeVars, IInv, JobsInHand
      <3>2. RunsLeft(j)' = RunsLeft(j)
        BY <3>1 DEF RunsLeft
      <3> QED
        BY <3>1, <3>2
    <2>6. ASSUME NEW w \in Workers,
                 \/ HandlerAsksLedger(w) \/ HandlerPerformsEffect(w) \/ HandlerHeartbeats(w)
                 \/ HandlerRaises(w) \/ WorkerCrashes(w)
          PROVE  FALSE
      BY <2>6 DEF HandlerAsksLedger, SideEffectOnce, HandlerPerformsEffect, HandlerHeartbeats,
         Heartbeat, HandlerRaises, WorkerCrashes, storeVars
    <2> QED
      BY <1>1, <2>2, <2>3, <2>4, <2>5, <2>6 DEF Next, RunOnce
  <1>2. Init => FaultsBounded
    BY PipelineAssumption DEF Init, FaultsBounded
  <1>3. IInv /\ FaultsBounded /\ [Next]_vars => FaultsBounded'
    BY FaultsStep DEF IInv
  <1>4. IInv /\ FaultsBounded /\ [Next]_vars => [RowsRunDown]_vars
    BY <1>1
  <1> QED
    BY <1>2, <1>3, <1>4, Invariance, PTL DEF Spec

-----------------------------------------------------------------------------
(* Every step of the pipeline is a step of Delivery or leaves its state    *)
(* alone.                                                                  *)
LEMMA RefinesNext ==
    ASSUME IInv, [Next]_vars
    PROVE  [D!Next]_D!vars
  <1> USE DEF IInv, TypeOK, StoreTypeOK, JobsInHand, LedgerFirst, EffectsReserved
  <1>1. ASSUME NEW j \in Jobs, ClientSubmits(j) PROVE [D!Next]_D!vars
    <2>1. CASE status[j] = "NONE"
      <3>1. outcomeBar[j] = "unknown"
        BY <1>1, <2>1
          DEF ClientSubmits, Submit, storeVars, outcomeBar, permitBar, Outcome, Permit
      <3>2. outcomeBar' = [outcomeBar EXCEPT ![j] = "accepted"]
        BY <1>1, <2>1
          DEF ClientSubmits, Submit, storeVars, outcomeBar, permitBar, Outcome, Permit
      <3>3. UNCHANGED permitBar
        BY <1>1, <2>1
          DEF ClientSubmits, Submit, storeVars, outcomeBar, permitBar, Outcome, Permit
      <3> QED
        BY <3>1, <3>2, <3>3 DEF D!Next, D!Accept
    <2>2. CASE ~(status[j] = "NONE")
      BY <1>1, <2>2
        DEF ClientSubmits, Submit, storeVars, outcomeBar, permitBar, Outcome, Permit,
            D!vars
    <2> QED
      BY <2>1, <2>2
  <1>2. ASSUME NEW j \in Jobs, OperatorRequeues(j) PROVE [D!Next]_D!vars
    <2>1. CASE status[j] = "DLQ"
      <3>1. outcomeBar[j] = "dead"
        BY <1>2, <2>1
          DEF OperatorRequeues, RequeueDlq, outcomeBar, permitBar, Outcome, Permit
      <3>2. outcomeBar' = [outcomeBar EXCEPT ![j] = "accepted"]
        BY <1>2, <2>1
          DEF OperatorRequeues, RequeueDlq, outcomeBar, permitBar, Outcome, Permit
      <3>3. UNCHANGED permitBar
        BY <1>2, <2>1
          DEF OperatorRequeues, RequeueDlq, outcomeBar, permitBar, Outcome, Permit
      <3> QED
        BY <3>1, <3>2, <3>3 DEF D!Next, D!Revive
    <2>2. CASE ~(status[j] = "DLQ")
      BY <1>2, <2>2
        DEF OperatorRequeues, RequeueDlq, outcomeBar, permitBar, Outcome, Permit, D!vars
    <2> QED
      BY <2>1, <2>2
  <1>3. ASSUME NEW j \in Jobs, DeadLeaseLapses(j) \/ LiveLeaseLapses(j) \/ RetryComesDue(j)
        PROVE  UNCHANGED D!vars
    BY <1>3
      DEF DeadLeaseLapses, LiveLeaseLapses, LeaseLapses, RetryComesDue, BackoffElapses,
                outcomeBar, permitBar, Outcome, Permit, D!vars
  <1>4. ASSUME NEW w \in Workers, WorkerClaims(w) PROVE UNCHANGED D!vars
    BY <1>4
      DEF WorkerClaims, Claim, Runnable, outcomeBar, permitBar, Outcome, Permit, D!vars
  <1>5. ASSUME NEW w \in Workers, HandlerAsksLedger(w) PROVE [D!Next]_D!vars
    <2>1. job[w] \in Jobs
      BY <1>5 DEF HandlerAsksLedger
    <2>2. CASE job[w] \notin ledger
      <3>1. outcomeBar[job[w]] # "unknown" /\ permitBar[job[w]] = "free"
        BY <1>5, <2>1, <2>2
          DEF HandlerAsksLedger, SideEffectOnce, outcomeBar, permitBar, Outcome, Permit
      <3>2. permitBar' = [permitBar EXCEPT ![job[w]] = "issued"]
        BY <1>5, <2>1, <2>2
          DEF HandlerAsksLedger, SideEffectOnce, outcomeBar, permitBar, Outcome, Permit
      <3>3. UNCHANGED outcomeBar
        BY <1>5, <2>1, <2>2
          DEF HandlerAsksLedger, SideEffectOnce, outcomeBar, permitBar, Outcome, Permit
      <3> QED
        BY <2>1, <3>1, <3>2, <3>3 DEF D!Next, D!IssuePermit
    <2>3. CASE ~(job[w] \notin ledger)
      BY <1>5, <2>1, <2>3
        DEF HandlerAsksLedger, SideEffectOnce, outcomeBar, permitBar, Outcome, Permit,
            D!vars
    <2> QED
      BY <2>2, <2>3
  <1>6. ASSUME NEW w \in Workers, HandlerPerformsEffect(w) PROVE [D!Next]_D!vars
    <2>1. job[w] \in Jobs
      BY <1>6 DEF HandlerPerformsEffect
    <2>2. permitBar[job[w]] = "issued"
      BY <1>6, <2>1
        DEF HandlerPerformsEffect, storeVars, outcomeBar, permitBar, Outcome, Permit
    <2>3. permitBar' = [permitBar EXCEPT ![job[w]] = "used"]
      <3>1. effects[job[w]] = 0 /\ effects' = [effects EXCEPT ![job[w]] = effects[job[w]] + 1]
        BY <1>6 DEF HandlerPerformsEffect
      <3>2. /\ ledger' = ledger /\ job[w] \in ledger
            /\ effects' = [effects EXCEPT ![job[w]] = 1]
        BY <1>6, <3>1 DEF HandlerPerformsEffect, storeVars
      <3>3. ASSUME NEW k \in Jobs
            PROVE  Permit(k)' = IF k = job[w] THEN "used" ELSE Permit(k)
        BY <2>1, <3>2 DEF Permit
      <3> QED
        BY <2>1, <3>3 DEF permitBar
    <2>4. UNCHANGED outcomeBar
      BY <1>6, <2>1
        DEF HandlerPerformsEffect, storeVars, outcomeBar, permitBar, Outcome, Permit
    <2> QED
      BY <2>1, <2>2, <2>3, <2>4 DEF D!Next, D!UsePermit
  <1>7. ASSUME NEW w \in Workers, WorkerCompletes(w) PROVE [D!Next]_D!vars
    <2>1. job[w] \in Jobs
      BY <1>7 DEF WorkerCompletes
    <2>2. CASE HeldBy(job[w], w)
      <3>1. outcomeBar[job[w]] = "accepted" /\ permitBar[job[w]] # "free"
        BY <1>7, <2>1, <2>2
          DEF WorkerCompletes, Complete, HeldBy, storeVars, outcomeBar, permitBar,
              Outcome, Permit
      <3>2. outcomeBar' = [outcomeBar EXCEPT ![job[w]] = "delivered"]
        BY <1>7, <2>1, <2>2
          DEF WorkerCompletes, Complete, HeldBy, storeVars, outcomeBar, permitBar,
              Outcome, Permit
      <3>3. UNCHANGED permitBar
        BY <1>7, <2>1, <2>2
          DEF WorkerCompletes, Complete, HeldBy, storeVars, outcomeBar, permitBar,
              Outcome, Permit
      <3> QED
        BY <2>1, <3>1, <3>2, <3>3 DEF D!Next, D!Deliver
    <2>3. CASE ~(HeldBy(job[w], w))
      BY <1>7, <2>1, <2>3
        DEF WorkerCompletes, Complete, HeldBy, storeVars, outcomeBar, permitBar, Outcome,
            Permit, D!vars
    <2> QED
      BY <2>2, <2>3
  <1>8. ASSUME NEW w \in Workers, WorkerFails(w) PROVE [D!Next]_D!vars
    <2>1. job[w] \in Jobs
      BY <1>8 DEF WorkerFails
    <2>2. CASE HeldBy(job[w], w) /\ Exhausted(job[w])
      <3>1. outcomeBar[job[w]] = "accepted"
        BY <1>8, <2>1, <2>2
          DEF WorkerFails, Fail, HeldBy, storeVars, outcomeBar, permitBar, Outcome, Permit
      <3>2. outcomeBar' = [outcomeBar EXCEPT ![job[w]] = "dead"]
        BY <1>8, <2>1, <2>2
          DEF WorkerFails, Fail, HeldBy, storeVars, outcomeBar, permitBar, Outcome, Permit
      <3>3. UNCHANGED permitBar
        BY <1>8, <2>1, <2>2
          DEF WorkerFails, Fail, HeldBy, storeVars, outcomeBar, permitBar, Outcome, Permit
      <3> QED
        BY <2>1, <3>1, <3>2, <3>3 DEF D!Next, D!GiveUp
    <2>3. CASE ~(HeldBy(job[w], w) /\ Exhausted(job[w]))
      BY <1>8, <2>1, <2>3
        DEF WorkerFails, Fail, HeldBy, storeVars, outcomeBar, permitBar, Outcome, Permit,
            D!vars
    <2> QED
      BY <2>2, <2>3
  <1>9. ASSUME NEW w \in Workers,
               HandlerHeartbeats(w) \/ HandlerRaises(w) \/ WorkerCrashes(w)
        PROVE  UNCHANGED D!vars
    BY <1>9 DEF HandlerHeartbeats, Heartbeat, HandlerRaises, WorkerCrashes, storeVars,
                outcomeBar, permitBar, Outcome, Permit, D!vars
  <1>10. CASE UNCHANGED vars
    BY <1>10 DEF vars, storeVars, outcomeBar, permitBar, Outcome, Permit, D!vars
  <1> QED
    BY <1>1, <1>2, <1>3, <1>4, <1>5, <1>6, <1>7, <1>8, <1>9, <1>10 DEF Next, RunOnce

(* The pipeline implements the abstract at-most-once delivery service.     *)
THEOREM Refinement == Spec => ImplementsDelivery
  <1>1. Init => D!Init
    BY DEF Init, StoreInit, D!Init, outcomeBar, permitBar, Outcome, Permit
  <1>2. IInv /\ [Next]_vars => [D!Next]_D!vars
    BY RefinesNext
  <1> QED
    BY <1>1, <1>2, Invariance, PTL DEF Spec, ImplementsDelivery, D!Spec
=============================================================================
