---------------------------- MODULE AccountClaims ----------------------------
(***************************************************************************)
(* Two statements of docs/ARCHITECTURE.md about interruptions.             *)
(***************************************************************************)
EXTENDS AccountTurns

(* docs/ARCHITECTURE.md:173, "the write-idempotency guard is keyed by      *)
(* normalised text so a repeated instruction after an interruption is not  *)
(* recorded twice": said of one connected session and of the instructions  *)
(* that the guard has a key for.                                           *)
RecordedOnce == connected => \A r \in Writes : Key[r] # NoKey => records[r] <= 1

(* docs/ARCHITECTURE.md:173, "pending identity-verification requests       *)
(* survive": the request a challenge was begun for is still held, by the   *)
(* registry or by the response that is about to resume it.                 *)
RequestSurvives ==
    owed # NoRequest =>
        \/ pending = owed
        \/ \E g \in Turns : at[g] = "confirming" /\ request[g] = owed
=============================================================================
