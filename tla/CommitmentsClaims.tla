-------------------------- MODULE CommitmentsClaims --------------------------
(***************************************************************************)
(* What documents say of Commitments and the code does not do.             *)
(***************************************************************************)
EXTENDS Commitments

(* A promise for an exact day, said with its year or resolved from a month *)
(* and a day, is taken: pre_orchestrator.py:22 lists "explicit month/day   *)
(* dates missing a year" among what it fixes, README.md:146 lets explicit  *)
(* dates be normalised, and scripts/test_production_router.py:19 expects   *)
(* "25 August 2026" to be one.  But MONTH_RE spoils most of them, and      *)
(* those that it repaired when it sees them again after verification.      *)
ExplicitDateIsTaken ==
    /\ reply = "unverified_date"
    /\ turn.said.topic = "promise" /\ ~Vague(turn.said)
    /\ turn.said.mention.form \in {"month_day", "month_day_year", "day_month_year"}
    /\ ~turn.said.mention.suffixed
    => named \notin Meant(turn.said.mention, turn.on)
=============================================================================
