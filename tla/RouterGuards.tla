---------------------------- MODULE RouterGuards ----------------------------
(***************************************************************************)
(* How a decision of the router model becomes one that is acted upon: the  *)
(* schema of router_schema.py and apply_deterministic_guards (guards.py).  *)
(***************************************************************************)
CONSTANT NoTool

ASSUME NoToolAssumption == NoTool \notin {"account_data", "write"}

(* The intents that the guards tell apart; "ambiguous" stands for          *)
(* out_of_scope too, "business" for all that no rule names, among them     *)
(* identity_verification.  The tools are those that read account data and  *)
(* those that write.                                                       *)
Intents == {"policy_question", "privacy_sensitive", "prompt_injection", "ambiguous",
            "business"}

Tools == {"account_data", "write"}

Decisions == [intent : Intents, rag : BOOLEAN, needsTool : BOOLEAN,
              tool : Tools \cup {NoTool}, clarify : BOOLEAN]

-----------------------------------------------------------------------------
WithoutTool(d) == [d EXCEPT !.needsTool = FALSE, !.tool = NoTool]

(* Rules 1 and 2: somebody else's account, the caller's own identity.      *)
IdentityRules(text, d) ==
    CASE "third_party" \in text /\ (d.intent # "privacy_sensitive" \/ d.needsTool
                                        \/ d.tool # NoTool) ->
            [WithoutTool(d) EXCEPT !.intent = "privacy_sensitive", !.rag = FALSE,
                                   !.clarify = FALSE]
      [] "third_party" \notin text /\ "own_identity" \in text
            /\ d.intent \in {"privacy_sensitive", "ambiguous"} ->
            [intent |-> "business", rag |-> FALSE, needsTool |-> TRUE,
             tool |-> "account_data", clarify |-> FALSE]
      [] OTHER -> d

(* Rule 3: policy questions are for retrieval.                             *)
PolicyRule(d) ==
    IF d.intent = "policy_question" THEN [WithoutTool(d) EXCEPT !.rag = TRUE] ELSE d

(* Rule 4.                                                                 *)
UnsafeRule(d) ==
    IF d.intent \in {"privacy_sensitive", "prompt_injection"} THEN WithoutTool(d) ELSE d

(* Rule 5: a tool is named and wanted, or there is none.                   *)
ToolRule(d) == IF d.needsTool /\ d.tool # NoTool THEN d ELSE WithoutTool(d)

AccountDataRule(text, d) ==
    IF d.tool = "account_data" /\ "third_party" \in text
    THEN [WithoutTool(d) EXCEPT !.intent = "privacy_sensitive"] ELSE d

(* Mutation: the policy rule leaves the tool alone.                        *)
GuardedPolicyKeepsTool(text, d) ==
    LET i == IdentityRules(text, d)
        p == IF i.intent = "policy_question" THEN [i EXCEPT !.rag = TRUE] ELSE i
    IN  AccountDataRule(text, ToolRule(UnsafeRule(p)))

Guarded(text, d) ==
    AccountDataRule(text, ToolRule(UnsafeRule(PolicyRule(IdentityRules(text, d)))))
=============================================================================
