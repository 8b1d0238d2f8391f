--------------------------- MODULE PolicyEvidence ---------------------------
(***************************************************************************)
(* What the retrieval loop computes from a set of retrieved chunks: which  *)
(* of them support a question, whether their claims conflict, and which    *)
(* may enter the answer (rag/self_correcting.py, evidence_evaluator.py,    *)
(* conflict_detector.py, answer_generator.py).                             *)
(*                                                                         *)
(* Similarity scores are left open: whatever they decide alone, which      *)
(* chunks come first and whether they are strong enough, is any choice.    *)
(***************************************************************************)
EXTENDS Integers, FiniteSets

CONSTANTS
    Chunks,     \* chunk ids of the index
    Source,     \* Source[c]: the document a chunk was cut from
    Docs,       \* documents of the knowledge base, each a file
    Id,         \* Id[d]: document_id; versions of a policy may share one
    Family,     \* Family[d]: the title, normalised
    Status,     \* Status[d]: "active", "superseded" or "unknown"
    Date,       \* Date[d]: effective_date, 0 when the file has none
    Version,    \* Version[d]: version, 0 when the file has none
    Says,       \* Says[c]: the claims <<topic, value>> PATTERNS finds in c
    Macros,     \* the document_id of the approved support phrases
    NoId        \* no preferred document

ASSUME CorpusAssumption ==
    /\ IsFiniteSet(Chunks)
    /\ Source \in [Chunks -> Docs]
    /\ Status \in [Docs -> {"active", "superseded", "unknown"}]
    /\ Date \in [Docs -> Nat] /\ Version \in [Docs -> Nat]
    /\ \A d \in Docs : Id[d] # NoId

(* Two active versions of a policy differ in what they are ordered by.     *)
ASSUME VersionsAreOrdered ==
    \A d, e \in Docs :
        /\ Family[d] = Family[e] /\ Status[d] = "active" /\ Status[e] = "active"
        /\ Date[d] = Date[e] /\ Version[d] = Version[e]
        => Id[d] = Id[e]

Ids == {Id[d] : d \in Docs}
IdOf(c) == Id[Source[c]]
HasStatus(S, status) == {c \in S : Status[Source[c]] = status}

-----------------------------------------------------------------------------
(* ConflictDetector.detect.  A claim is an item per chunk that states it.  *)
Items(S) == UNION {{[topic |-> claim[1], value |-> claim[2], chunk |-> c] :
                        claim \in Says[c]} : c \in S}

(* The index is finite, and so is what its texts claim.                    *)
ASSUME ClaimsAssumption == IsFiniteSet(Items(Chunks))

Conflicting(S) ==
    {i \in Items(S) : \E j \in Items(S) : j.topic = i.topic /\ j.value # i.value}

ItemsOf(I, status) == {i \in I : Status[Source[i.chunk]] = status}

Latest(I) == {i \in I : \A j \in I : Date[Source[j.chunk]] <= Date[Source[i.chunk]]}

OneIsSuperseded(S) ==
    /\ Cardinality(ItemsOf(Conflicting(S), "active")) = 1
    /\ ItemsOf(Conflicting(S), "superseded") # {}

OneIsLatest(S) ==
    LET active == ItemsOf(Conflicting(S), "active")
    IN  Cardinality(active) >= 2 /\ Cardinality(Latest(active)) = 1

Resolved(S) == Conflicting(S) # {} /\ (OneIsSuperseded(S) \/ OneIsLatest(S))

Unresolved(S) == Conflicting(S) # {} /\ ~Resolved(S)

(* preferred_document_id, where the analysis names one.                    *)
Preferred(S) ==
    IF Resolved(S)
    THEN IdOf((CHOOSE i \in Latest(ItemsOf(Conflicting(S), "active")) : TRUE).chunk)
    ELSE NoId

-----------------------------------------------------------------------------
(* _relevant_chunks: all chunks of the documents that support the question.*)
Relevant(S, support) ==
    IF support = {} THEN S ELSE {c \in S : IdOf(c) \in {IdOf(s) : s \in support}}

(* _prefer_active_policy_versions, of a question about the present.        *)
Kin(S, c) == {k \in S : Family[Source[k]] = Family[Source[c]]}

Newer(c, k) ==
    \/ Date[Source[c]] > Date[Source[k]]
    \/ Date[Source[c]] = Date[Source[k]] /\ Version[Source[c]] >= Version[Source[k]]

NewestActive(S, c) ==
    {a \in HasStatus(Kin(S, c), "active") :
        \A k \in HasStatus(Kin(S, c), "active") : Newer(a, k)}

(* Mutation: an active version does not drive the superseded one out.      *)
InForceBesideOld(S) ==
    {c \in S : Status[Source[c]] = "active" => IdOf(c) \in {IdOf(a) : a \in NewestActive(S, c)}}

(* A family that has an active chunk keeps no superseded one, and of its   *)
(* active ones those of the document with the latest date and version.     *)
InForce(S) ==
    {c \in S :
        HasStatus(Kin(S, c), "active") # {} =>
            /\ Status[Source[c]] # "superseded"
            /\ Status[Source[c]] = "active" =>
                 IdOf(c) \in {IdOf(a) : a \in NewestActive(S, c)}}

-----------------------------------------------------------------------------
(* generate: the preferred document decides a resolved conflict, support   *)
(* phrases are left out where anything else is there.                      *)
OnlyPreferred(S, preferred) ==
    LET chosen == {c \in S : IdOf(c) = preferred}
    IN  IF preferred = NoId \/ chosen = {} THEN S ELSE chosen

WithoutMacros(S) ==
    LET policy == {c \in S : IdOf(c) # Macros}
    IN  IF policy = {} THEN S ELSE policy

(* The chunks an answer to a question with these signals is made from.     *)
AnswerEvidence(signals, S, preferred) ==
    LET narrowed == IF "historical" \in signals THEN S ELSE InForce(S)
        decided == OnlyPreferred(narrowed, preferred)
    IN  IF "wording" \in signals THEN decided ELSE WithoutMacros(decided)

-----------------------------------------------------------------------------
(* The signals QueryAnalyzer.analyze, the version wording and the macros   *)
(* test look for in a question, and the order in which they decide.        *)
Signals == {"account_action", "domain", "foreign", "vague", "parts",
            "versioned", "historical", "wording"}

QueryKind(signals) ==
    CASE "account_action" \in signals -> "unsupported"
      [] "account_action" \notin signals /\ "domain" \notin signals
            /\ "foreign" \in signals -> "out_of_scope"
      [] "account_action" \notin signals /\ signals \cap {"domain", "foreign"} = {}
            /\ "vague" \in signals -> "ambiguous"
      [] OTHER -> IF "parts" \in signals THEN "multi_part" ELSE "policy_question"
=============================================================================
