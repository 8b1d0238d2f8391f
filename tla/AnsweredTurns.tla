---------------------------- MODULE AnsweredTurns ----------------------------
(***************************************************************************)
(* BFSIOrchestrator.handle (integration/orchestrator.py): one request goes *)
(* to the router model, its decision through the guards, then to retrieval *)
(* and to a tool, as far as the decision says and each allows, until there *)
(* is a reply.                                                             *)
(***************************************************************************)
EXTENDS SelfCorrectingRAG, RouterGuards

CONSTANTS
    Backend,    \* the router in use: "vllm" (web server) or "local" (console)
    Requests    \* texts: [text: what the guards look for, signals: what the analysis does]

ASSUME RequestsAssumption ==
    Requests \subseteq [text : SUBSET {"third_party", "own_identity"},
                        signals : SUBSET Signals]

VARIABLES
    text,
    stage,      \* how far handle is
    decision,   \* after the guards
    toolRuns,   \* tools executed, and what the last returned
    toolResult,
    reply       \* IntegratedResponse.source, "none" before

turnVars == <<text, stage, decision, toolRuns, toolResult, reply>>
vars == <<ragVars, turnVars>>

NoDecision == [intent |-> "business", rag |-> FALSE, needsTool |-> FALSE,
               tool |-> NoTool, clarify |-> FALSE]

Sources == {"router", "rag", "clarification", "safe_fallback", "tool", "rag_and_tool",
            "tool_clarification", "tool_error"}

TypeOK ==
    /\ RagTypeOK
    /\ text \subseteq {"third_party", "own_identity"}
    /\ stage \in {"model", "repair", "decided", "retrieving", "acting", "returned", "raised"}
    /\ decision \in Decisions
    /\ toolRuns \in 0 .. 1
    /\ toolResult \in {"none", "ok", "clarify", "refused"}
    /\ reply \in Sources \cup {"none"}

Init ==
    /\ RagInit
    /\ \E r \in Requests : text = r.text /\ signals = r.signals
    /\ stage = "model"
    /\ decision = NoDecision
    /\ toolRuns = 0 /\ toolResult = "none"
    /\ reply = "none"

-----------------------------------------------------------------------------
Returning(source) ==
    /\ stage' = "returned"
    /\ reply' = source

(* route raises: the request failed or timed out, or no answer of the      *)
(* model was accepted.                                                     *)
RouterFails ==
    /\ stage \in {"model", "repair"}
    /\ Returning("safe_fallback")
    /\ UNCHANGED <<ragVars, text, decision, toolRuns, toolResult>>

(* A completion without a JSON object that fits the schema (any may be one)*)
(* is repaired once, by the local router only.                             *)
ModelAnswersBadly ==
    /\ stage = "model" /\ Backend = "local"
    /\ stage' = "repair"
    /\ UNCHANGED <<ragVars, text, decision, toolRuns, toolResult, reply>>

ModelDecides ==
    /\ stage \in {"model", "repair"}
    /\ \E d \in Decisions : decision' = Guarded(text, d)
    /\ stage' = "decided"
    /\ UNCHANGED <<ragVars, text, toolRuns, toolResult, reply>>

-----------------------------------------------------------------------------
AsksBack ==
    /\ stage = "decided" /\ decision.clarify
    /\ Returning("clarification")
    /\ UNCHANGED <<ragVars, text, decision, toolRuns, toolResult>>

StartsRetrieval ==
    /\ stage = "decided" /\ ~decision.clarify /\ decision.rag
    /\ stage' = "retrieving"
    /\ UNCHANGED <<ragVars, text, decision, toolRuns, toolResult, reply>>

SkipsRetrieval ==
    /\ stage = "decided" /\ ~decision.clarify /\ ~decision.rag
    /\ stage' = "acting"
    /\ UNCHANGED <<ragVars, text, decision, toolRuns, toolResult, reply>>

RetrievalStep ==
    /\ stage = "retrieving"
    /\ Answer
    /\ UNCHANGED turnVars

(* Embedding or index fail: the exception leaves handle.                   *)
RetrievalRaises ==
    /\ stage = "retrieving" /\ state = "RETRIEVE"
    /\ stage' = "raised"
    /\ UNCHANGED <<ragVars, text, decision, toolRuns, toolResult, reply>>

TakesAnswer ==
    /\ stage = "retrieving" /\ Answered
    /\ stage' = "acting"
    /\ UNCHANGED <<ragVars, text, decision, toolRuns, toolResult, reply>>

(* Mutation: a tool is called whether or not retrieval could answer.       *)
TakesAbstentionAndActs ==
    /\ stage = "retrieving" /\ state = "COMPLETE" /\ ~Answered
    /\ stage' = "acting"
    /\ UNCHANGED <<ragVars, text, decision, toolRuns, toolResult, reply>>

(* Not answerable: handle returns, whatever tool the decision names.       *)
TakesAbstention ==
    /\ stage = "retrieving" /\ state = "COMPLETE" /\ ~Answered
    /\ Returning(IF verdict = "AMBIGUOUS" THEN "clarification" ELSE "safe_fallback")
    /\ UNCHANGED <<ragVars, text, decision, toolRuns, toolResult>>

-----------------------------------------------------------------------------
ToolWanted == decision.needsTool /\ decision.tool # NoTool

ExecutesTool ==
    /\ stage = "acting" /\ ToolWanted /\ toolResult = "none"
    /\ toolRuns' = toolRuns + 1
    /\ toolResult' \in {"ok", "clarify", "refused"}
    /\ UNCHANGED <<ragVars, text, stage, decision, reply>>

(* The durable executor's submission failed.                               *)
ToolRaises ==
    /\ stage = "acting" /\ ToolWanted /\ toolResult = "none"
    /\ toolRuns' = toolRuns + 1
    /\ stage' = "raised"
    /\ UNCHANGED <<ragVars, text, decision, toolResult, reply>>

ReplySource ==
    CASE toolResult = "clarify" -> "tool_clarification"
      [] toolResult = "refused" -> "tool_error"
      [] toolResult = "ok" -> IF Answered THEN "rag_and_tool" ELSE "tool"
      [] toolResult = "none" -> IF Answered THEN "rag" ELSE "router"

Replies ==
    /\ stage = "acting"
    /\ ToolWanted => toolResult # "none"
    /\ Returning(ReplySource)
    /\ UNCHANGED <<ragVars, text, decision, toolRuns, toolResult>>

Next ==
    \/ RouterFails \/ ModelAnswersBadly \/ ModelDecides
    \/ AsksBack \/ StartsRetrieval \/ SkipsRetrieval
    \/ RetrievalStep \/ RetrievalRaises \/ TakesAnswer \/ TakesAbstention
    \/ ExecutesTool \/ ToolRaises \/ Replies

Spec == Init /\ [][Next]_vars

(* The coroutine runs on: the model's client has a timeout, the loop is    *)
(* bounded, and neither waits for anybody else.                            *)
FairSpec == Spec /\ WF_vars(Next)

-----------------------------------------------------------------------------
(* The trace of a retrieval follows the documented state machine           *)
(* (rag/state_machine.py), through every correction and early end.         *)
FollowsPipelineStates == P!StateMachine

(* An answer rests on no open conflict.  Where the wording asks about      *)
(* versions, none is left among all chunks of the supporting documents;    *)
(* for any other, none among those the evaluator took for support, unless  *)
(* the other chunks of their documents resolve it (answer, evaluate).      *)
ConflictIsSettled ==
    Answered /\ support # {} =>
        /\ "versioned" \in signals => ~Unresolved(Relevant(gathered, support))
        /\ Unresolved(support) => Resolved(Relevant(gathered, support))

(* An answer about the present cites no superseded chunk of a policy whose *)
(* version in force was among the evidence, and of the versions in force   *)
(* only one document (_prefer_active_policy_versions), whichever retrieval *)
(* brought which version and whatever document a conflict preferred.       *)
CurrentAnswers ==
    \A c, k \in cited : "historical" \notin signals =>
        /\ Status[Source[c]] = "superseded" =>
             HasStatus(Kin(Relevant(gathered, support), c), "active") = {}
        /\ Family[Source[c]] = Family[Source[k]] /\ Status[Source[c]] = "active"
             /\ Status[Source[k]] = "active" => IdOf(c) = IdOf(k)

(* A policy question is answered from citations or not at all: neither the *)
(* router's own words nor a tool answer it, whatever the model decided     *)
(* (apply_deterministic_guards, handle).  And whatever three retrievals    *)
(* brought together, what is cited was kept to the end and is of documents *)
(* found to support the question (_relevant_chunks).                       *)
PolicyIsGrounded ==
    /\ stage = "returned" /\ decision.intent = "policy_question" =>
         /\ reply \in {"rag", "clarification", "safe_fallback"}
         /\ reply = "rag" => cited # {}
         /\ toolRuns = 0
    /\ \A c \in cited : c \in gathered /\ \E s \in support : IdOf(s) = IdOf(c)

(* No tool runs for somebody else's private data or an unsafe request, nor *)
(* for one that was asked back or whose policy part retrieval could not    *)
(* answer: a caller who hears that never had anything recorded.            *)
ToolsRunOnlySafely ==
    toolRuns > 0 =>
        /\ "third_party" \notin text
        /\ decision.intent \notin {"policy_question", "privacy_sensitive", "prompt_injection"}
        /\ ~decision.clarify
        /\ decision.rag => Answered

(* Every request is replied to, or its exception reaches the session.      *)
Responds == stage = "model" ~> stage \in {"returned", "raised"}
=============================================================================
