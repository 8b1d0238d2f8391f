--------------------------- MODULE AnsweredClaims ---------------------------
(***************************************************************************)
(* What documents say of AnsweredTurns and the code does not do.           *)
(***************************************************************************)
EXTENDS AnsweredTurns

(* README.md:170: the project retains historical versions for explicit     *)
(* historical queries; _prefer_active_policy_versions says the same.  But  *)
(* historical wording is version wording too, and a conflict it resolves   *)
(* leaves the preferred, active document alone (answer, generate).         *)
HistoricalKeepsOld ==
    Answered /\ "historical" \in signals =>
        \A c \in HasStatus(Relevant(gathered, support), "superseded") :
            c \in AnswerEvidence(signals, Relevant(gathered, support), preferred)
=============================================================================
