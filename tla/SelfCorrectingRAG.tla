-------------------------- MODULE SelfCorrectingRAG --------------------------
(***************************************************************************)
(* SelfCorrectingRAG.answer (rag/self_correcting.py): analyse, retrieve,   *)
(* judge what has been gathered so far, and answer, rewrite the query and  *)
(* retrieve again, or abstain.  One action per entry of its trace.         *)
(*                                                                         *)
(* The call has no await in it, so nothing interleaves with it; what makes *)
(* it hard is what three retrievals may bring together.                    *)
(***************************************************************************)
EXTENDS PolicyEvidence

CONSTANTS
    TopK,               \* chunks a retrieval returns
    ManyK,              \* chunks retrieve_many returns for several subqueries
    KeepCap,            \* chunks _merge_chunks keeps (10)
    SupportCap,         \* chunks _supported_chunks keeps (5)
    MaxIterations       \* max_retrieval_iterations (3)

ASSUME LoopAssumption ==
    /\ TopK \in Nat \ {0} /\ ManyK \in Nat \ {0}
    /\ KeepCap \in Nat \ {0} /\ SupportCap \in Nat \ {0}
    /\ MaxIterations \in Nat \ {0}

VARIABLES
    state,          \* where the trace is
    signals,        \* what the analysis finds in the question
    iteration,      \* of the loop, 0 before it
    gathered,       \* accumulated_chunks
    support,        \* the chunks evaluate counted as supporting
    verdict,        \* of the evaluation in force, "none" before the first
    preferred,      \* preferred_doc
    cited           \* the chunks whose sentences the answer quotes

ragVars == <<state, signals, iteration, gathered, support, verdict, preferred, cited>>

P == INSTANCE PipelineStates

Verdicts == {"SUFFICIENT", "LOW_RELEVANCE", "INSUFFICIENT", "CONFLICT"}

RagTypeOK ==
    /\ state \in P!States
    /\ signals \subseteq Signals
    /\ iteration \in 0 .. MaxIterations
    /\ gathered \subseteq Chunks
    /\ support \subseteq gathered
    /\ verdict \in Verdicts \cup {"none", "AMBIGUOUS", "OUT_OF_SCOPE"}
    /\ preferred \in Ids \cup {NoId}
    /\ cited \subseteq Chunks

RagInit ==
    /\ state = "START"
    /\ iteration = 0
    /\ gathered = {} /\ support = {} /\ cited = {}
    /\ verdict = "none"
    /\ preferred = NoId

-----------------------------------------------------------------------------
AnalyzesQuery ==
    /\ state = "START"
    /\ state' = "ANALYZE_QUERY"
    /\ UNCHANGED <<signals, iteration, gathered, support, verdict, preferred, cited>>

AsksForClarification ==
    /\ state = "ANALYZE_QUERY"
    /\ QueryKind(signals) = "ambiguous"
    /\ state' = "ASK_CLARIFICATION"
    /\ verdict' = "AMBIGUOUS"
    /\ UNCHANGED <<signals, iteration, gathered, support, preferred, cited>>

RefusesScope ==
    /\ state = "ANALYZE_QUERY"
    /\ QueryKind(signals) = "out_of_scope"
    /\ state' = "ABSTAIN"
    /\ verdict' = "OUT_OF_SCOPE"
    /\ UNCHANGED <<signals, iteration, gathered, support, preferred, cited>>

(* Mutation: only the first pass is counted.                               *)
RetrievesUncounted ==
    /\ \/ state = "ANALYZE_QUERY" /\ QueryKind(signals) \notin {"ambiguous", "out_of_scope"}
       \/ state = "REWRITE_QUERY"
    /\ state' = "RETRIEVE"
    /\ iteration' = IF state = "ANALYZE_QUERY" THEN 1 ELSE iteration
    /\ UNCHANGED <<signals, gathered, support, verdict, preferred, cited>>

Retrieves ==
    /\ \/ state = "ANALYZE_QUERY" /\ QueryKind(signals) \notin {"ambiguous", "out_of_scope"}
       \/ state = "REWRITE_QUERY"
    /\ state' = "RETRIEVE"
    /\ iteration' = iteration + 1
    /\ UNCHANGED <<signals, gathered, support, verdict, preferred, cited>>

(* retrieve, or retrieve_many where the first query has several parts:     *)
(* scores decide which chunks, and whether any passes the threshold.       *)
Limit ==
    IF iteration = 1 /\ QueryKind(signals) = "multi_part" THEN ManyK ELSE TopK

Retrieved == {R \in SUBSET Chunks : Cardinality(R) <= Limit}

(* _merge_chunks: the best KeepCap of old and new.                         *)
Kept(merged) ==
    IF Cardinality(merged) <= KeepCap THEN {merged}
    ELSE {K \in SUBSET merged : Cardinality(K) = KeepCap}

Merges ==
    /\ state = "RETRIEVE"
    /\ state' = "EVALUATE_EVIDENCE"
    /\ \E R \in Retrieved : gathered' \in Kept(gathered \cup R)
    /\ UNCHANGED <<signals, iteration, support, verdict, preferred, cited>>

-----------------------------------------------------------------------------
(* evaluate: an account action has no policy and without chunks there is   *)
(* no support.  Otherwise some of what was gathered supports the question; *)
(* a conflict among it comes before its strength, which scores decide.     *)
Supports(U) ==
    IF QueryKind(signals) = "unsupported" \/ gathered = {} THEN U = {}
    ELSE U \in SUBSET gathered /\ U # {} /\ Cardinality(U) <= SupportCap

Evaluated(U) ==
    IF U = {} THEN {"INSUFFICIENT"}
    ELSE IF Unresolved(U) THEN {"CONFLICT"}
    ELSE {"SUFFICIENT", "LOW_RELEVANCE", "INSUFFICIENT"}

(* Mutation: the version check is given what the evaluator looked at.      *)
JudgedOnSupport(U, v) ==
    LET versionCheck == v = "SUFFICIENT" /\ "versioned" \in signals
    IN  IF v = "CONFLICT" \/ (versionCheck /\ Unresolved(U))
        THEN IF Resolved(U) THEN "SUFFICIENT" ELSE "CONFLICT"
        ELSE v

(* What answer makes of the evaluation v.  A question worded about policy  *)
(* versions is checked against all chunks of the supporting documents, and *)
(* so is a conflict, which those may resolve.                              *)
Judged(U, v) ==
    LET versionCheck == v = "SUFFICIENT" /\ "versioned" \in signals
        evidence == Relevant(gathered, U)
    IN  IF v = "CONFLICT" \/ (versionCheck /\ Unresolved(evidence))
        THEN IF Resolved(evidence) THEN "SUFFICIENT" ELSE "CONFLICT"
        ELSE v

(* preferred_document_id is taken where one of the two checks ran.         *)
Prefers(U, v) ==
    IF v = "CONFLICT" \/ (v = "SUFFICIENT" /\ "versioned" \in signals)
    THEN Preferred(Relevant(gathered, U)) ELSE NoId

(* One pass through the loop ends with a verdict on the evidence.          *)
Concludes(outcomes, next) ==
    /\ state = "EVALUATE_EVIDENCE"
    /\ \E U \in SUBSET gathered : Supports(U) /\ \E v \in Evaluated(U) :
        /\ Judged(U, v) \in outcomes
        /\ support' = U
        /\ verdict' = Judged(U, v)
        /\ preferred' = Prefers(U, v)
    /\ state' = next
    /\ UNCHANGED <<signals, iteration, gathered, cited>>

Weak == {"LOW_RELEVANCE", "INSUFFICIENT"}

FindsSufficient == Concludes({"SUFFICIENT"}, "GENERATE_ANSWER")

FindsConflict == Concludes({"CONFLICT"}, "ABSTAIN")

GivesUp ==
    /\ iteration >= MaxIterations
    /\ Concludes(Weak, "ABSTAIN")

(* Another pass; nothing of this evaluation is looked at again.            *)
Rewrites ==
    /\ state = "EVALUATE_EVIDENCE"
    /\ \E U \in SUBSET gathered : Supports(U) /\ \E v \in Evaluated(U) : Judged(U, v) \in Weak
    /\ state' = "REWRITE_QUERY"
    /\ UNCHANGED <<signals, iteration, gathered, support, verdict, preferred, cited>>

(* Mutation: the limit is compared after the rewrite.                      *)
RewritesQueryOnceMore == iteration <= MaxIterations /\ Rewrites

(* Mutation: the next retrieval is entered without a rewrite in the trace. *)
RewritesQueryUntraced ==
    /\ state = "EVALUATE_EVIDENCE" /\ iteration < MaxIterations
    /\ \E U \in SUBSET gathered : Supports(U) /\ \E v \in Evaluated(U) : Judged(U, v) \in Weak
    /\ state' = "RETRIEVE"
    /\ iteration' = iteration + 1
    /\ UNCHANGED <<signals, gathered, support, verdict, preferred, cited>>

RewritesQuery == iteration < MaxIterations /\ Rewrites

-----------------------------------------------------------------------------
(* _prefer_active_policy_versions and generate: up to three sentences of   *)
(* the evidence, ranked by their scores, and their chunks as citations.    *)
(* Every chunk has one: only a chunk of blanks and # signs would have none.*)
Quotes(E) == {Q \in SUBSET E : Q # {} /\ Cardinality(Q) <= 3}

(* Mutation: the answer is made from everything that was gathered.         *)
GeneratesFromAll ==
    /\ state = "GENERATE_ANSWER"
    /\ state' = "COMPLETE"
    /\ cited' \in Quotes(AnswerEvidence(signals, gathered, preferred))
    /\ UNCHANGED <<signals, iteration, gathered, support, verdict, preferred>>

GeneratesAnswer ==
    /\ state = "GENERATE_ANSWER"
    /\ state' = "COMPLETE"
    /\ cited' \in Quotes(AnswerEvidence(signals, Relevant(gathered, support), preferred))
    /\ UNCHANGED <<signals, iteration, gathered, support, verdict, preferred>>

(* The result of an abstention calls low relevance insufficient.           *)
Returns ==
    /\ state \in {"ASK_CLARIFICATION", "ABSTAIN"}
    /\ state' = "COMPLETE"
    /\ verdict' = IF verdict = "LOW_RELEVANCE" THEN "INSUFFICIENT" ELSE verdict
    /\ UNCHANGED <<signals, iteration, gathered, support, preferred, cited>>

Answer ==
    \/ AnalyzesQuery \/ AsksForClarification \/ RefusesScope
    \/ Retrieves \/ Merges
    \/ FindsSufficient \/ FindsConflict \/ RewritesQuery \/ GivesUp
    \/ GeneratesAnswer \/ Returns

Answered == state = "COMPLETE" /\ verdict = "SUFFICIENT"
=============================================================================
