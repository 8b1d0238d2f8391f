---------------------------- MODULE MCJobPipeline ----------------------------
(* Small instances of the job pipeline for TLC.                                 *)
EXTENDS JobPipelineDelivery

(* One attempt for the first job, two for the others, so that both a job   *)
(* that dead-letters at once and one that retries are present.             *)
MCMaxAttempts == LET first == CHOOSE j \in Jobs : TRUE
                 IN [j \in Jobs |-> IF j = first THEN 1 ELSE 2]
=============================================================================
