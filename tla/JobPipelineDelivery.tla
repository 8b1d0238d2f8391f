------------------------ MODULE JobPipelineDelivery ------------------------
(***************************************************************************)
(* JobPipeline implements Delivery: the refinement mapping, and the claims *)
(* of the repository's documents that the pipeline does not meet.          *)
(***************************************************************************)
EXTENDS JobPipeline

Outcome(j) ==
    CASE status[j] = "NONE" -> "unknown"
      [] status[j] = "COMPLETED" -> "delivered"
      [] status[j] = "DLQ" -> "dead"
      [] OTHER -> "accepted"

Permit(j) ==
    IF j \notin ledger THEN "free" ELSE IF effects[j] = 0 THEN "issued" ELSE "used"

outcomeBar == [j \in Jobs |-> Outcome(j)]
permitBar == [j \in Jobs |-> Permit(j)]

D == INSTANCE Delivery WITH outcome <- outcomeBar, permit <- permitBar

(* The pipeline implements the at-most-once delivery contract.             *)
ImplementsDelivery == D!Spec

(* jobs/__init__.py: the side effects "must happen exactly once even when  *)
(* a worker crashes mid-job".  Of a completed job whose effect no worker   *)
(* is still about to perform, the effect has happened.                     *)
ExactlyOnce ==
    \A j \in Jobs :
        status[j] = "COMPLETED" /\ (\A w \in Workers : ~(pc[w] = "effect" /\ job[w] = j))
            => effects[j] = 1
=============================================================================
