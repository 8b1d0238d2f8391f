--------------------------- MODULE PipelineStates ---------------------------
(***************************************************************************)
(* The state machine the retrieval pipeline is documented by: the table    *)
(* TRANSITIONS of rag/state_machine.py, from START to COMPLETE.            *)
(***************************************************************************)
EXTENDS Naturals

VARIABLE state

States == {"START", "ANALYZE_QUERY", "RETRIEVE", "EVALUATE_EVIDENCE", "REWRITE_QUERY",
           "DECOMPOSE_QUERY", "RESOLVE_CONFLICT", "GENERATE_ANSWER", "ASK_CLARIFICATION",
           "ABSTAIN", "COMPLETE"}

Transitions == [s \in States |->
    CASE s = "START" -> {"ANALYZE_QUERY"}
      [] s = "ANALYZE_QUERY" -> {"RETRIEVE", "ASK_CLARIFICATION", "ABSTAIN"}
      [] s \in {"REWRITE_QUERY", "DECOMPOSE_QUERY"} -> {"RETRIEVE"}
      [] s = "RETRIEVE" -> {"EVALUATE_EVIDENCE"}
      [] s = "EVALUATE_EVIDENCE" ->
            {"GENERATE_ANSWER", "REWRITE_QUERY", "DECOMPOSE_QUERY", "RESOLVE_CONFLICT",
             "ASK_CLARIFICATION", "ABSTAIN"}
      [] s = "RESOLVE_CONFLICT" -> {"GENERATE_ANSWER", "ASK_CLARIFICATION", "ABSTAIN"}
      [] s \in {"GENERATE_ANSWER", "ASK_CLARIFICATION", "ABSTAIN"} -> {"COMPLETE"}
      [] s = "COMPLETE" -> {}]

Start == state = "START"
Move == state' \in Transitions[state]

StateMachine == Start /\ [][Move]_state
=============================================================================
