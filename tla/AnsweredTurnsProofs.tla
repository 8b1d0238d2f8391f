------------------------ MODULE AnsweredTurnsProofs ------------------------
(***************************************************************************)
(* Proofs about AnsweredTurns, for any knowledge base, any requests and    *)
(* any limits of the retrieval loop.                                       *)
(***************************************************************************)
EXTENDS AnsweredTurns, FiniteOrders

(* The guards return a decision; for what is said about somebody else, for *)
(* policy questions and for unsafe requests it has no tool.                *)
LEMMA GuardedDecides ==
    ASSUME NEW t \in SUBSET {"third_party", "own_identity"}, NEW d \in Decisions
    PROVE  /\ Guarded(t, d) \in Decisions
           /\ Guarded(t, d).intent = "policy_question" =>
                Guarded(t, d).rag /\ Guarded(t, d).tool = NoTool
           /\ Guarded(t, d).intent \in {"privacy_sensitive", "prompt_injection"} =>
                Guarded(t, d).tool = NoTool
           /\ "third_party" \in t => Guarded(t, d).tool = NoTool
<1>1. WithoutTool(d) \in Decisions /\ WithoutTool(d).tool = NoTool
  BY DEF WithoutTool, Decisions
<1> DEFINE i == IdentityRules(t, d)
<1>2. /\ i \in Decisions
      /\ "third_party" \in t => i.intent = "privacy_sensitive" /\ i.tool = NoTool
  BY NoToolAssumption DEF IdentityRules, WithoutTool, Decisions, Intents, Tools
<1> DEFINE p == PolicyRule(i)
<1> HIDE DEF i
<1>3. /\ p \in Decisions
      /\ p.intent = i.intent
      /\ p.intent = "policy_question" => p.rag /\ p.tool = NoTool
      /\ i.tool = NoTool => p.tool = NoTool
  BY <1>2 DEF PolicyRule, WithoutTool, Decisions
<1> DEFINE u == UnsafeRule(p)
<1> HIDE DEF p
<1>4. /\ u \in Decisions
      /\ u.intent = p.intent /\ u.rag = p.rag
      /\ u.intent \in {"privacy_sensitive", "prompt_injection"} => u.tool = NoTool
      /\ p.tool = NoTool => u.tool = NoTool
  BY <1>3 DEF UnsafeRule, WithoutTool, Decisions
<1> DEFINE r == ToolRule(u)
<1> HIDE DEF u
<1>5. /\ r \in Decisions
      /\ r.intent = u.intent /\ r.rag = u.rag
      /\ u.tool = NoTool => r.tool = NoTool
  BY <1>4 DEF ToolRule, WithoutTool, Decisions
<1> DEFINE g == AccountDataRule(t, r)
<1> HIDE DEF r
<1>6. CASE "third_party" \in t
  <2>1. r.tool = NoTool
    BY <1>2, <1>3, <1>4, <1>5, <1>6
  <2>2. g = r
    BY <2>1, NoToolAssumption DEF AccountDataRule
  <2> QED
    BY <2>1, <2>2, <1>2, <1>3, <1>4, <1>5 DEF Guarded, i, p, u, r
<1>7. CASE "third_party" \notin t
  <2>1. g = r
    BY <1>7 DEF AccountDataRule
  <2> QED
    BY <2>1, <1>7, <1>2, <1>3, <1>4, <1>5 DEF Guarded, i, p, u, r
<1> QED
  BY <1>6, <1>7

(* A rule that comes later takes back nothing that an earlier one          *)
(* established (apply_deterministic_guards runs its rules once, in         *)
(* order): in the decision they return, no rule has anything left to       *)
(* correct, so guarding a second time changes nothing.                     *)
THEOREM GuardsAgree ==
    ASSUME NEW t \in SUBSET {"third_party", "own_identity"}, NEW d \in Decisions
    PROVE  /\ IdentityRules(t, Guarded(t, d)) = Guarded(t, d)
           /\ PolicyRule(Guarded(t, d)) = Guarded(t, d)
           /\ UnsafeRule(Guarded(t, d)) = Guarded(t, d)
           /\ ToolRule(Guarded(t, d)) = Guarded(t, d)
           /\ AccountDataRule(t, Guarded(t, d)) = Guarded(t, d)
           /\ Guarded(t, Guarded(t, d)) = Guarded(t, d)
<1> DEFINE i == IdentityRules(t, d)
<1>1. /\ i \in Decisions
      /\ "third_party" \in t => i.intent = "privacy_sensitive" /\ ~i.needsTool /\ i.tool = NoTool
      /\ "third_party" \notin t /\ "own_identity" \in t =>
             i.intent \notin {"privacy_sensitive", "ambiguous"}
  BY NoToolAssumption DEF IdentityRules, WithoutTool, Decisions, Intents, Tools
<1> DEFINE u == UnsafeRule(PolicyRule(i))
<1> HIDE DEF i
<1>2. u \in Decisions /\ u.intent = i.intent
  BY <1>1 DEF PolicyRule, UnsafeRule, WithoutTool, Decisions
<1>3. i.tool = NoTool => u.tool = NoTool
  BY <1>1 DEF PolicyRule, UnsafeRule, WithoutTool, Decisions
<1> DEFINE r == ToolRule(u)
<1> HIDE DEF u
<1>4. /\ r \in Decisions /\ r.intent = u.intent
      /\ u.tool = NoTool => r.tool = NoTool
      /\ r.needsTool <=> r.tool # NoTool
  BY <1>2 DEF ToolRule, WithoutTool, Decisions
<1> DEFINE g == Guarded(t, d)
<1>5. g = r
  BY <1>1, <1>3, <1>4, NoToolAssumption DEF AccountDataRule, Guarded, r, u, i
<1>6. /\ g \in Decisions
      /\ g.intent = "policy_question" => g.rag /\ g.tool = NoTool
      /\ g.intent \in {"privacy_sensitive", "prompt_injection"} => g.tool = NoTool
      /\ "third_party" \in t => g.intent = "privacy_sensitive" /\ g.tool = NoTool
      /\ "third_party" \notin t /\ "own_identity" \in t =>
             g.intent \notin {"privacy_sensitive", "ambiguous"}
      /\ g.needsTool <=> g.tool # NoTool
  BY GuardedDecides, <1>1, <1>2, <1>4, <1>5
<1> HIDE DEF g
<1>7. ~g.needsTool => WithoutTool(g) = g
  BY <1>6 DEF WithoutTool, Decisions
<1>8. IdentityRules(t, g) = g
  BY <1>6 DEF IdentityRules
<1>9. PolicyRule(g) = g
  BY <1>6, <1>7 DEF PolicyRule, Decisions
<1>10. UnsafeRule(g) = g
  BY <1>6, <1>7 DEF UnsafeRule
<1>11. ToolRule(g) = g
  BY <1>6, <1>7 DEF ToolRule
<1>12. AccountDataRule(t, g) = g
  BY <1>6, NoToolAssumption DEF AccountDataRule
<1>13. Guarded(t, g) = g
  BY <1>8, <1>9, <1>10, <1>11, <1>12 DEF Guarded
<1> QED
  BY <1>8, <1>9, <1>10, <1>11, <1>12, <1>13 DEF g

-----------------------------------------------------------------------------
(* What an answer is generated from is part of what is relevant.           *)
LEMMA EvidenceIsRelevant ==
    ASSUME NEW S, NEW doc, NEW sig
    PROVE  /\ AnswerEvidence(sig, S, doc) \subseteq S
           /\ "historical" \notin sig => AnswerEvidence(sig, S, doc) \subseteq InForce(S)
BY DEF AnswerEvidence, WithoutMacros, OnlyPreferred, InForce

(* What is relevant shares its document with a supporting chunk.           *)
LEMMA RelevantIsOfSupport ==
    ASSUME NEW S, NEW U, U # {}
    PROVE  \A c \in Relevant(S, U) : c \in S /\ \E s \in U : IdOf(s) = IdOf(c)
BY DEF Relevant

(* Of the active chunks of a family that are in force, all are of one      *)
(* document.                                                               *)
LEMMA OneVersionInForce ==
    ASSUME NEW S \in SUBSET Chunks, NEW c \in InForce(S), NEW k \in InForce(S),
           Family[Source[c]] = Family[Source[k]],
           Status[Source[c]] = "active", Status[Source[k]] = "active"
    PROVE  IdOf(c) = IdOf(k)
<1>1. Kin(S, c) = Kin(S, k)
  BY DEF Kin
<1>2. c \in HasStatus(Kin(S, c), "active") /\ k \in HasStatus(Kin(S, k), "active")
  BY DEF HasStatus, Kin, InForce
<1>3. PICK a \in NewestActive(S, c) : IdOf(c) = IdOf(a)
  BY <1>2 DEF InForce
<1>4. PICK b \in NewestActive(S, c) : IdOf(k) = IdOf(b)
  BY <1>1, <1>2 DEF InForce, NewestActive
<1>5. /\ a \in Chunks /\ b \in Chunks
      /\ Family[Source[a]] = Family[Source[b]]
      /\ Status[Source[a]] = "active" /\ Status[Source[b]] = "active"
      /\ Newer(a, b) /\ Newer(b, a)
  BY DEF NewestActive, HasStatus, Kin
<1>6. /\ Source[a] \in Docs /\ Source[b] \in Docs
      /\ Date[Source[a]] \in Nat /\ Date[Source[b]] \in Nat
      /\ Version[Source[a]] \in Nat /\ Version[Source[b]] \in Nat
  BY <1>5, CorpusAssumption
<1>7. Date[Source[a]] = Date[Source[b]] /\ Version[Source[a]] = Version[Source[b]]
  BY <1>5, <1>6 DEF Newer
<1>8. Id[Source[a]] = Id[Source[b]]
  BY <1>5, <1>6, <1>7, VersionsAreOrdered
<1> QED
  BY <1>3, <1>4, <1>8 DEF IdOf

(* A conflict that is resolved has an active claim to prefer.              *)
LEMMA PreferredIsAnId ==
    ASSUME NEW S \in SUBSET Chunks
    PROVE  Preferred(S) \in Ids \cup {NoId}
<1> DEFINE active == ItemsOf(Conflicting(S), "active")
<1>1. active \subseteq Items(Chunks) /\ \A i \in active : i.chunk \in S
  BY DEF ItemsOf, Conflicting, Items
<1>2. ASSUME Resolved(S) PROVE Latest(active) # {}
  <2>1. CASE OneIsSuperseded(S)
    <3>1. IsFiniteSet(active)
      BY <1>1, ClaimsAssumption, FS_Subset
    <3>2. PICK i : active = {i}
      BY <3>1, <2>1, FS_Singleton DEF OneIsSuperseded
    <3>3. Date[Source[i.chunk]] \in Nat
      BY <3>2, <1>1, CorpusAssumption
    <3>4. i \in Latest({i})
      BY <3>3 DEF Latest
    <3> QED
      BY <3>2, <3>4
  <2>2. CASE OneIsLatest(S)
    BY <2>2, FS_EmptySet DEF OneIsLatest
  <2> QED
    BY <1>2, <2>1, <2>2 DEF Resolved
<1>3. CASE Resolved(S)
  <2>1. PICK i \in active : i = CHOOSE j \in Latest(active) : TRUE
    BY <1>2, <1>3 DEF Latest
  <2>2. IdOf(i.chunk) \in Ids
    BY <1>1, CorpusAssumption DEF IdOf, Ids
  <2> QED
    BY <1>3, <2>1, <2>2 DEF Preferred
<1>4. CASE ~Resolved(S)
  BY <1>4 DEF Preferred
<1> QED
  BY <1>3, <1>4

-----------------------------------------------------------------------------
(* What the evidence in force shows of the conflicts in it.                *)
Settled ==
    /\ "versioned" \in signals => ~Unresolved(Relevant(gathered, support))
    /\ Unresolved(support) => Resolved(Relevant(gathered, support))

(* The support and the verdict are those of the last evaluation: there are *)
(* none before it, and only a sufficient one leads to an answer.           *)
RagInv ==
    /\ state \in {"START", "ANALYZE_QUERY"} => iteration = 0
    /\ state = "REWRITE_QUERY" => iteration < MaxIterations
    /\ state \in {"START", "ANALYZE_QUERY", "RETRIEVE", "EVALUATE_EVIDENCE",
                  "REWRITE_QUERY"} => support = {}
    /\ verdict = "SUFFICIENT" =>
         /\ state \in {"GENERATE_ANSWER", "COMPLETE"}
         /\ support # {} /\ Settled
    /\ state = "GENERATE_ANSWER" => verdict = "SUFFICIENT"
    /\ cited # {} =>
         /\ Answered
         /\ cited \subseteq AnswerEvidence(signals, Relevant(gathered, support), preferred)
    /\ Answered => cited # {}

(* An evaluation found sufficient has support and settles its conflicts.   *)
LEMMA SufficientIsSettled ==
    ASSUME NEW U, NEW v \in Evaluated(U), Judged(U, v) = "SUFFICIENT"
    PROVE  /\ U # {}
           /\ "versioned" \in signals => ~Unresolved(Relevant(gathered, U))
           /\ Unresolved(U) => Resolved(Relevant(gathered, U))
<1> DEFINE E == Relevant(gathered, U)
<1> HIDE DEF E
<1>1. v \in {"SUFFICIENT", "CONFLICT", "LOW_RELEVANCE", "INSUFFICIENT"}
  BY DEF Evaluated
<1>2. v = "SUFFICIENT" => U # {} /\ ~Unresolved(U)
  BY DEF Evaluated
<1>3. v = "CONFLICT" => U # {} /\ Resolved(E)
  BY DEF Evaluated, Judged, E
<1>4. v \in {"SUFFICIENT", "CONFLICT"}
  BY <1>1 DEF Judged
<1>5. v = "SUFFICIENT" /\ "versioned" \in signals => ~Unresolved(E) \/ Resolved(E)
  BY DEF Judged, E
<1>6. Resolved(E) => ~Unresolved(E)
  BY DEF Unresolved
<1> QED
  BY <1>2, <1>3, <1>4, <1>5, <1>6 DEF E

(* An evaluation that ends the loop, in an answer or in abstention.        *)
LEMMA ConcludesPreserves ==
    ASSUME RagTypeOK, RagInv, NEW outcomes \in SUBSET Verdicts, NEW next \in P!States,
           Concludes(outcomes, next),
           \/ outcomes = {"SUFFICIENT"} /\ next = "GENERATE_ANSWER"
           \/ "SUFFICIENT" \notin outcomes /\ next = "ABSTAIN"
    PROVE  RagTypeOK' /\ RagInv'
<1>0. PICK U \in SUBSET gathered : \E w \in Evaluated(U) :
        /\ Judged(U, w) \in outcomes
        /\ support' = U /\ verdict' = Judged(U, w) /\ preferred' = Prefers(U, w)
  BY DEF Concludes
<1>1. PICK v \in Evaluated(U) :
        /\ Judged(U, v) \in outcomes
        /\ support' = U /\ verdict' = Judged(U, v) /\ preferred' = Prefers(U, v)
  BY <1>0
<1>2. /\ state = "EVALUATE_EVIDENCE" /\ state' = next
      /\ UNCHANGED <<signals, iteration, gathered, cited>>
  BY DEF Concludes
<1>3. Relevant(gathered, U) \in SUBSET Chunks
  BY DEF Relevant, RagTypeOK
<1>4. preferred' \in Ids \cup {NoId}
  BY <1>1, <1>3, PreferredIsAnId DEF Prefers
<1>5. RagTypeOK'
  BY <1>1, <1>2, <1>4 DEF RagTypeOK, Verdicts
<1>6. cited = {}
  BY <1>2 DEF RagInv, Answered
<1>7. verdict' = "SUFFICIENT" => support' # {} /\ Settled'
  BY <1>1, <1>2, SufficientIsSettled DEF Settled
<1>8. RagInv'
  BY <1>1, <1>2, <1>6, <1>7 DEF RagInv, Answered
<1> QED
  BY <1>5, <1>8

(* A step of the retrieval loop preserves RagInv.                          *)
LEMMA AnswerPreserves ==
    ASSUME RagTypeOK, RagInv, Answer
    PROVE  RagTypeOK' /\ RagInv'
<1>1. CASE AnalyzesQuery
  BY <1>1 DEF AnalyzesQuery, RagTypeOK, RagInv, Settled, Answered, P!States
<1>2. CASE AsksForClarification
  BY <1>2 DEF AsksForClarification, RagTypeOK, RagInv, Settled, Answered, P!States
<1>3. CASE RefusesScope
  BY <1>3 DEF RefusesScope, RagTypeOK, RagInv, Settled, Answered, P!States
<1>4. CASE Retrieves
  BY <1>4, LoopAssumption DEF Retrieves, RagTypeOK, RagInv, Settled, Answered, P!States
<1>5. CASE Merges
  <2>1. gathered' \subseteq Chunks
    BY <1>5 DEF Merges, Retrieved, Kept, RagTypeOK
  <2>2. support = {} /\ support' = {}
    BY <1>5 DEF Merges, RagInv
  <2> QED
    BY <1>5, <2>1, <2>2 DEF Merges, RagTypeOK, RagInv, Settled, Answered, P!States
<1>6. CASE FindsSufficient
  BY <1>6, ConcludesPreserves DEF FindsSufficient, RagTypeOK, Verdicts, P!States
<1>7. CASE FindsConflict
  BY <1>7, ConcludesPreserves DEF FindsConflict, RagTypeOK, Verdicts, P!States
<1>8. CASE GivesUp
  BY <1>8, ConcludesPreserves DEF GivesUp, RagTypeOK, Weak, Verdicts, P!States
<1>9. CASE RewritesQuery
  BY <1>9 DEF RewritesQuery, Rewrites, RagTypeOK, RagInv, Settled, Answered, P!States
<1>10. CASE GeneratesAnswer
  <2> DEFINE E == AnswerEvidence(signals, Relevant(gathered, support), preferred)
  <2>1. /\ cited' # {} /\ cited' \subseteq E
    BY <1>10 DEF GeneratesAnswer, Quotes
  <2>2. E \subseteq Chunks
    BY EvidenceIsRelevant DEF Relevant, RagTypeOK
  <2>3. E' = E /\ Settled' = Settled
    BY <1>10 DEF GeneratesAnswer, Settled
  <2> HIDE DEF E
  <2>4. RagTypeOK'
    BY <1>10, <2>1, <2>2 DEF GeneratesAnswer, RagTypeOK, P!States
  <2>5. RagInv'
    BY <1>10, <2>1, <2>3 DEF GeneratesAnswer, RagInv, Answered, E
  <2> QED
    BY <2>4, <2>5
<1>11. CASE Returns
  BY <1>11 DEF Returns, RagTypeOK, RagInv, Settled, Answered, Verdicts, P!States
<1> QED
  BY <1>1, <1>2, <1>3, <1>4, <1>5, <1>6, <1>7, <1>8, <1>9, <1>10, <1>11 DEF Answer

-----------------------------------------------------------------------------
(* A decision to act upon has passed the guards (NoDecision asks nothing). *)
DecisionInv ==
    /\ decision.intent = "policy_question" => decision.rag /\ decision.tool = NoTool
    /\ decision.intent \in {"privacy_sensitive", "prompt_injection"} => decision.tool = NoTool
    /\ "third_party" \in text => decision.tool = NoTool

(* A tool is run where the decision is acted upon, once, and after an      *)
(* answer where the decision asks for one.                                 *)
StageInv ==
    /\ stage \in {"model", "repair", "decided", "retrieving"} => toolRuns = 0
    /\ stage = "retrieving" => decision.rag /\ ~decision.clarify
    /\ stage = "acting" => ~decision.clarify /\ (decision.rag => Answered)
    /\ toolRuns > 0 => ToolWanted /\ ~decision.clarify /\ (decision.rag => Answered)
    /\ toolResult = "none" /\ stage = "acting" => toolRuns = 0
    /\ toolResult # "none" => toolRuns > 0

ReplyInv ==
    stage = "returned" /\ decision.intent = "policy_question" =>
        /\ reply \in {"rag", "clarification", "safe_fallback"}
        /\ reply = "rag" => cited # {}

IInv == TypeOK /\ RagInv /\ DecisionInv /\ StageInv /\ ReplyInv

(* A request that the router has not seen yet.                             *)
LEMMA InitEstablishes == Init => IInv
<1> SUFFICES ASSUME Init PROVE IInv
  OBVIOUS
<1>1. TypeOK
  BY RequestsAssumption, LoopAssumption, NoToolAssumption
  DEF Init, RagInit, TypeOK, RagTypeOK, NoDecision, Decisions, Intents, Verdicts, P!States
<1>2. RagInv
  BY LoopAssumption DEF Init, RagInit, RagInv, Answered
<1>3. DecisionInv /\ StageInv /\ ReplyInv
  BY DEF Init, NoDecision, DecisionInv, StageInv, ReplyInv
<1> QED
  BY <1>1, <1>2, <1>3 DEF IInv

(* A step of handle alone leaves the retrieval invariant alone.            *)
LEMMA RagUnchanged ==
    ASSUME RagTypeOK, RagInv, UNCHANGED ragVars
    PROVE  RagTypeOK' /\ RagInv' /\ Answered' = Answered
BY DEF ragVars, RagTypeOK, RagInv, Settled, Answered, Unresolved, Resolved

(* IInv is inductive.                                                      *)
LEMMA NextPreserves == IInv /\ [Next]_vars => IInv'
<1> SUFFICES ASSUME IInv, [Next]_vars PROVE IInv'
  OBVIOUS
<1> USE DEF IInv
<1>0. decision \in Decisions /\ RagTypeOK
  BY DEF TypeOK
<1>1. CASE RouterFails
  <2>1. RagTypeOK' /\ RagInv' /\ Answered' = Answered
    BY <1>0, <1>1, RagUnchanged DEF RouterFails
  <2> QED
    BY <1>1, <2>1 DEF RouterFails, Returning, TypeOK, Sources, DecisionInv, StageInv,
                      ReplyInv, ToolWanted
<1>2. CASE ModelAnswersBadly
  <2>1. RagTypeOK' /\ RagInv' /\ Answered' = Answered
    BY <1>0, <1>2, RagUnchanged DEF ModelAnswersBadly
  <2> QED
    BY <1>2, <2>1 DEF ModelAnswersBadly, TypeOK, DecisionInv, StageInv, ReplyInv, ToolWanted
<1>3. CASE ModelDecides
  <2>1. RagTypeOK' /\ RagInv' /\ Answered' = Answered
    BY <1>0, <1>3, RagUnchanged DEF ModelDecides
  <2>2. PICK d \in Decisions : decision' = Guarded(text, d)
    BY <1>3 DEF ModelDecides
  <2>3. decision' \in Decisions /\ DecisionInv'
    BY <1>3, <2>2, GuardedDecides DEF ModelDecides, TypeOK, DecisionInv
  <2>4. TypeOK'
    BY <1>3, <2>1, <2>3 DEF ModelDecides, TypeOK
  <2>5. StageInv' /\ ReplyInv'
    BY <1>3, <1>0 DEF ModelDecides, StageInv, ReplyInv, ToolWanted, TypeOK
  <2> QED
    BY <2>1, <2>3, <2>4, <2>5
<1>4. CASE AsksBack
  <2>1. RagTypeOK' /\ RagInv' /\ Answered' = Answered
    BY <1>0, <1>4, RagUnchanged DEF AsksBack
  <2> QED
    BY <1>4, <2>1 DEF AsksBack, Returning, TypeOK, Sources, DecisionInv, StageInv, ReplyInv,
                      ToolWanted
<1>5. CASE StartsRetrieval
  <2>1. RagTypeOK' /\ RagInv' /\ Answered' = Answered
    BY <1>0, <1>5, RagUnchanged DEF StartsRetrieval
  <2> QED
    BY <1>5, <2>1 DEF StartsRetrieval, TypeOK, DecisionInv, StageInv, ReplyInv, ToolWanted
<1>6. CASE SkipsRetrieval
  <2>1. RagTypeOK' /\ RagInv' /\ Answered' = Answered
    BY <1>0, <1>6, RagUnchanged DEF SkipsRetrieval
  <2> QED
    BY <1>6, <2>1 DEF SkipsRetrieval, TypeOK, DecisionInv, StageInv, ReplyInv, ToolWanted
<1>7. CASE RetrievalStep
  <2>1. RagTypeOK' /\ RagInv'
    BY <1>0, <1>7, AnswerPreserves DEF RetrievalStep
  <2> QED
    BY <1>7, <2>1 DEF RetrievalStep, turnVars, TypeOK, DecisionInv, StageInv, ReplyInv,
                      ToolWanted
<1>8. CASE RetrievalRaises
  <2>1. RagTypeOK' /\ RagInv' /\ Answered' = Answered
    BY <1>0, <1>8, RagUnchanged DEF RetrievalRaises
  <2> QED
    BY <1>8, <2>1 DEF RetrievalRaises, TypeOK, DecisionInv, StageInv, ReplyInv, ToolWanted
<1>9. CASE TakesAnswer
  <2>1. RagTypeOK' /\ RagInv' /\ Answered' = Answered
    BY <1>0, <1>9, RagUnchanged DEF TakesAnswer
  <2> QED
    BY <1>9, <2>1 DEF TakesAnswer, TypeOK, DecisionInv, StageInv, ReplyInv, ToolWanted
<1>10. CASE TakesAbstention
  <2>1. RagTypeOK' /\ RagInv' /\ Answered' = Answered
    BY <1>0, <1>10, RagUnchanged DEF TakesAbstention
  <2> QED
    BY <1>10, <2>1 DEF TakesAbstention, Returning, TypeOK, Sources, DecisionInv, StageInv,
                       ReplyInv, ToolWanted
<1>11. CASE ExecutesTool
  <2>1. RagTypeOK' /\ RagInv' /\ Answered' = Answered
    BY <1>0, <1>11, RagUnchanged DEF ExecutesTool
  <2> QED
    BY <1>11, <2>1 DEF ExecutesTool, TypeOK, DecisionInv, StageInv, ReplyInv, ToolWanted
<1>12. CASE ToolRaises
  <2>1. RagTypeOK' /\ RagInv' /\ Answered' = Answered
    BY <1>0, <1>12, RagUnchanged DEF ToolRaises
  <2> QED
    BY <1>12, <2>1 DEF ToolRaises, TypeOK, DecisionInv, StageInv, ReplyInv, ToolWanted
<1>13. CASE Replies
  <2>1. RagTypeOK' /\ RagInv' /\ Answered' = Answered
    BY <1>0, <1>13, RagUnchanged DEF Replies
  <2>2. ReplySource \in Sources
    BY DEF ReplySource, Sources, TypeOK
  <2>3. TypeOK' /\ DecisionInv' /\ StageInv'
    BY <1>13, <2>1, <2>2 DEF Replies, Returning, TypeOK, DecisionInv, StageInv, ToolWanted
  <2>4. ASSUME decision.intent = "policy_question" PROVE reply' = "rag" /\ cited # {}
    <3>1. Answered /\ toolResult = "none"
      BY <1>13, <2>4 DEF Replies, DecisionInv, StageInv, ToolWanted
    <3> QED
      BY <1>13, <3>1 DEF Replies, Returning, ReplySource, RagInv
  <2>5. ReplyInv'
    BY <1>13, <2>4 DEF Replies, Returning, ReplyInv, ragVars
  <2> QED
    BY <2>1, <2>3, <2>5
<1>14. CASE UNCHANGED vars
  <2>1. RagTypeOK' /\ RagInv' /\ Answered' = Answered
    BY <1>0, <1>14, RagUnchanged DEF vars
  <2> QED
    BY <1>14, <2>1 DEF vars, turnVars, TypeOK, DecisionInv, StageInv, ReplyInv, ToolWanted,
                       ragVars
<1> QED
  BY <1>1, <1>2, <1>3, <1>4, <1>5, <1>6, <1>7, <1>8, <1>9, <1>10, <1>11, <1>12, <1>13, <1>14
  DEF Next

(* IInv holds throughout.                                                  *)
LEMMA Inductive == Spec => []IInv
BY InitEstablishes, NextPreserves, PTL DEF Spec

-----------------------------------------------------------------------------
(* Variables of AnsweredTurns stay within their types.                     *)
THEOREM TypeCorrect == Spec => []TypeOK
<1>1. IInv => TypeOK
  BY DEF IInv
<1> QED
  BY <1>1, Inductive, PTL

(* An answer rests on no open conflict (SelfCorrectingRAG.answer), for any *)
(* corpus and any choice of the retrievals and of the evaluator.           *)
THEOREM ConflictsAreSettled == Spec => []ConflictIsSettled
<1>1. IInv => ConflictIsSettled
  BY DEF IInv, RagInv, Answered, Settled, ConflictIsSettled
<1> QED
  BY <1>1, Inductive, PTL

(* An answer about the present cites the version in force, and one         *)
(* (_prefer_active_policy_versions).                                       *)
THEOREM AnswersAreCurrent == Spec => []CurrentAnswers
<1>1. ASSUME IInv PROVE CurrentAnswers
  <2> SUFFICES ASSUME NEW c \in cited, NEW k \in cited, "historical" \notin signals
               PROVE  /\ Status[Source[c]] = "superseded" =>
                           HasStatus(Kin(Relevant(gathered, support), c), "active") = {}
                      /\ Family[Source[c]] = Family[Source[k]]
                           /\ Status[Source[c]] = "active" /\ Status[Source[k]] = "active"
                         => IdOf(c) = IdOf(k)
    BY DEF CurrentAnswers
  <2> DEFINE E == Relevant(gathered, support)
  <2>1. E \in SUBSET Chunks
    BY <1>1 DEF IInv, TypeOK, RagTypeOK, Relevant
  <2>2. cited \subseteq AnswerEvidence(signals, E, preferred)
    BY <1>1 DEF IInv, RagInv
  <2> HIDE DEF E
  <2>3. c \in InForce(E) /\ k \in InForce(E)
    BY <2>2, EvidenceIsRelevant
  <2>4. Status[Source[c]] = "superseded" => HasStatus(Kin(E, c), "active") = {}
    BY <2>3 DEF InForce
  <2> QED
    BY <2>1, <2>3, <2>4, OneVersionInForce DEF E
<1> QED
  BY <1>1, Inductive, PTL

(* A policy question is answered from citations of supporting documents or *)
(* not at all (apply_deterministic_guards, handle, _relevant_chunks).      *)
THEOREM PoliciesAreGrounded == Spec => []PolicyIsGrounded
<1>1. ASSUME IInv PROVE PolicyIsGrounded
  <2>1. ASSUME NEW c \in cited PROVE c \in gathered /\ \E s \in support : IdOf(s) = IdOf(c)
    <3>1. support # {} /\ cited \subseteq AnswerEvidence(signals, Relevant(gathered, support),
                                                       preferred)
      BY <1>1 DEF IInv, RagInv, Answered
    <3> QED
      BY <3>1, EvidenceIsRelevant, RelevantIsOfSupport
  <2>2. decision.intent = "policy_question" => toolRuns = 0
    BY <1>1 DEF IInv, TypeOK, DecisionInv, StageInv, ToolWanted
  <2> QED
    BY <1>1, <2>1, <2>2 DEF IInv, ReplyInv, PolicyIsGrounded
<1> QED
  BY <1>1, Inductive, PTL

(* Tools run for the caller's own, safe and answerable requests only       *)
(* (apply_deterministic_guards, handle).                                   *)
THEOREM ToolsAreSafe == Spec => []ToolsRunOnlySafely
<1>1. IInv => ToolsRunOnlySafely
  BY DEF IInv, DecisionInv, StageInv, ToolWanted, ToolsRunOnlySafely
<1> QED
  BY <1>1, Inductive, PTL

(* Every trace of a retrieval is one of the documented state machine       *)
(* (rag/state_machine.py, TRANSITIONS): the loop implements it.            *)
THEOREM TracesAreDocumented == Spec => FollowsPipelineStates
<1>1. Init => P!Start
  BY DEF Init, RagInit, P!Start
<1>2. ASSUME [Next]_vars PROVE [P!Move]_state
  <2>1. Answer => P!Move
    BY DEF Answer, AnalyzesQuery, AsksForClarification, RefusesScope, Retrieves, Merges,
           FindsSufficient, FindsConflict, RewritesQuery, Rewrites, GivesUp, Concludes,
           GeneratesAnswer, Returns, P!Move, P!Transitions, P!States
  <2>2. UNCHANGED ragVars => UNCHANGED state
    BY DEF ragVars
  <2>3. RetrievalStep => P!Move
    BY <2>1 DEF RetrievalStep
  <2> QED
    BY <1>2, <2>2, <2>3 DEF Next, vars, RouterFails, ModelAnswersBadly, ModelDecides, AsksBack,
       StartsRetrieval, SkipsRetrieval, RetrievalRaises, TakesAnswer, TakesAbstention,
       ExecutesTool, ToolRaises, Replies
<1> QED
  BY <1>1, <1>2, PTL DEF Spec, FollowsPipelineStates, P!StateMachine
-----------------------------------------------------------------------------
(* Every policy that is among the evidence keeps a chunk in force: of its  *)
(* active chunks one is newest (_prefer_active_policy_versions).           *)
LEMMA EveryFamilyStaysInForce ==
    ASSUME NEW S \in SUBSET Chunks, NEW c \in S
    PROVE  \E k \in InForce(S) : Family[Source[k]] = Family[Source[c]]
<1> DEFINE active == HasStatus(Kin(S, c), "active")
<1>1. CASE active = {}
  BY <1>1 DEF InForce
<1>2. CASE active # {}
  <2> DEFINE newer == [a \in active |-> {b \in active : ~Newer(a, b)}]
  <2>1. /\ active \subseteq S /\ IsFiniteSet(active)
        /\ \A a \in active : Kin(S, a) = Kin(S, c) /\ Status[Source[a]] = "active"
                             /\ Family[Source[a]] = Family[Source[c]]
    BY CorpusAssumption, FS_Subset DEF HasStatus, Kin
  <2>2. \A a \in active : Date[Source[a]] \in Nat /\ Version[Source[a]] \in Nat
    BY <2>1, CorpusAssumption
  <2>3. /\ \A a \in active : Newer(a, a)
        /\ \A a, b, e \in active : ~Newer(a, b) /\ ~Newer(b, e) => ~Newer(a, e)
    BY <2>2 DEF Newer
  <2>4. newer \in [active -> SUBSET active]
    OBVIOUS
  <2>5. /\ \A a \in active : a \notin newer[a]
        /\ \A a \in active : \A b \in newer[a] : newer[b] \subseteq newer[a]
    BY <2>3
  <2>6. PICK a \in active : newer[a] = {}
    <3>1. IsFiniteSet(active)
      BY <2>1
    <3> HIDE DEF newer, active
    <3> QED
      BY <1>2, <2>4, <2>5, <3>1, FiniteOrderHasMinimum
  <2>7. \A k \in active : Newer(a, k)
    BY <2>6
  <2>8. a \in NewestActive(S, a)
    BY <2>1, <2>7 DEF NewestActive
  <2>9. a \in InForce(S)
    BY <2>1, <2>8 DEF InForce
  <2> QED
    BY <2>1, <2>9
<1> QED
  BY <1>1, <1>2

(* ... so that where anything is relevant there is something to quote.     *)
LEMMA EvidenceIsLeft ==
    ASSUME NEW S \in SUBSET Chunks, S # {}, NEW sig, NEW doc
    PROVE  Quotes(AnswerEvidence(sig, S, doc)) # {}
<1> DEFINE narrowed == IF "historical" \in sig THEN S ELSE InForce(S)
           decided == OnlyPreferred(narrowed, doc)
<1>1. narrowed # {}
  BY EveryFamilyStaysInForce
<1> HIDE DEF narrowed
<1>2. decided # {}
  BY <1>1 DEF OnlyPreferred
<1> HIDE DEF decided
<1>3. WithoutMacros(decided) # {}
  BY <1>2 DEF WithoutMacros
<1>4. AnswerEvidence(sig, S, doc) # {}
  BY <1>2, <1>3 DEF AnswerEvidence, decided, narrowed
<1>5. PICK c \in AnswerEvidence(sig, S, doc) : TRUE
  BY <1>4
<1>6. Cardinality({c}) = 1
  BY FS_Singleton
<1>7. {c} \in Quotes(AnswerEvidence(sig, S, doc))
  BY <1>5, <1>6 DEF Quotes
<1> QED
  BY <1>7

(* Merging keeps no more than KeepCap chunks.                              *)
Capped == IsFiniteSet(gathered) /\ Cardinality(gathered) <= KeepCap

LEMMA StaysCapped == Spec => []Capped
<1>1. Init => Capped
  BY FS_EmptySet, LoopAssumption DEF Init, RagInit, Capped
<1>2. ASSUME IInv, Capped, [Next]_vars PROVE Capped'
  <2>1. CASE RetrievalStep /\ Merges
    <3>1. PICK R \in Retrieved : gathered' \in Kept(gathered \cup R)
      BY <2>1 DEF Merges
    <3>2. IsFiniteSet(gathered \cup R)
      BY <1>2, CorpusAssumption, FS_Subset DEF Retrieved, IInv, TypeOK, RagTypeOK
    <3>3. gathered' \subseteq gathered \cup R /\ Cardinality(gathered') <= KeepCap
      BY <3>1, LoopAssumption DEF Kept
    <3> QED
      BY <3>2, <3>3, FS_Subset DEF Capped
  <2>2. CASE UNCHANGED gathered
    BY <1>2, <2>2 DEF Capped
  <2>3. UNCHANGED gathered \/ (RetrievalStep /\ Merges)
    BY <1>2
    DEF Next, vars, ragVars, RouterFails, ModelAnswersBadly, ModelDecides, AsksBack,
        StartsRetrieval, SkipsRetrieval, RetrievalStep, RetrievalRaises, TakesAnswer,
        TakesAbstention, ExecutesTool, ToolRaises, Replies, Answer, AnalyzesQuery,
        AsksForClarification, RefusesScope, Retrieves, FindsSufficient, FindsConflict,
        RewritesQuery, Rewrites, GivesUp, Concludes, GeneratesAnswer, Returns
  <2> QED
    BY <2>1, <2>2, <2>3
<1> QED
  BY <1>1, <1>2, Inductive, PTL DEF Spec

(* What the loop chooses from is never empty: the chunks of a retrieval,   *)
(* the support of an evaluation, the sentences of an answer.               *)
NeverStuck ==
    /\ state = "RETRIEVE" => \E R \in Retrieved : Kept(gathered \cup R) # {}
    /\ state = "EVALUATE_EVIDENCE" =>
         \E U \in SUBSET gathered : Supports(U) /\ Evaluated(U) # {}
    /\ state = "GENERATE_ANSWER" =>
         Quotes(AnswerEvidence(signals, Relevant(gathered, support), preferred)) # {}

(* The retrieval loop never finds itself without a way on: in particular   *)
(* no choice of versions, preferred document or macros leaves an answer    *)
(* found sufficient without evidence (generate).                           *)
THEOREM EvidenceNeverRunsOut == Spec => []NeverStuck
<1>1. ASSUME IInv, Capped PROVE NeverStuck
  <2>1. /\ gathered \in SUBSET Chunks /\ support \in SUBSET gathered
        /\ state = "GENERATE_ANSWER" => support # {}
    BY <1>1 DEF IInv, TypeOK, RagTypeOK, RagInv
  <2>2. \E R \in Retrieved : Kept(gathered \cup R) # {}
    <3>1. {} \in Retrieved
      BY FS_EmptySet, LoopAssumption DEF Retrieved, Limit
    <3>2. Kept(gathered \cup {}) = {gathered}
      BY <1>1 DEF Kept, Capped
    <3> QED
      BY <3>1, <3>2
  <2>3. \E U \in SUBSET gathered : Supports(U) /\ Evaluated(U) # {}
    <3>1. \A U : Evaluated(U) # {}
      BY DEF Evaluated
    <3>2. CASE QueryKind(signals) = "unsupported" \/ gathered = {}
      BY <3>1, <3>2 DEF Supports
    <3>3. CASE ~(QueryKind(signals) = "unsupported" \/ gathered = {})
      <4>1. PICK c \in gathered : TRUE
        BY <3>3
      <4>2. Cardinality({c}) = 1 /\ {c} # {} /\ {c} \in SUBSET gathered
        BY <4>1, FS_Singleton
      <4>3. Supports({c})
        BY <3>3, <4>2, LoopAssumption DEF Supports
      <4> QED
        BY <3>1, <4>2, <4>3
    <3> QED
      BY <3>2, <3>3
  <2>4. ASSUME state = "GENERATE_ANSWER"
        PROVE  Quotes(AnswerEvidence(signals, Relevant(gathered, support), preferred)) # {}
    <3>1. PICK c \in support : TRUE
      BY <2>1, <2>4
    <3>2. c \in Relevant(gathered, support) /\ Relevant(gathered, support) \in SUBSET Chunks
      BY <2>1, <3>1 DEF Relevant
    <3> QED
      BY <3>2, EvidenceIsLeft
  <2> QED
    BY <2>2, <2>3, <2>4 DEF NeverStuck
<1> QED
  BY <1>1, Inductive, StaysCapped, PTL

-----------------------------------------------------------------------------
(* How many entries the trace of a retrieval can still have.               *)
RetrievalLeft ==
    LET passes == 3 * (MaxIterations - iteration)
    IN  CASE state = "START" -> passes + 6
          [] state = "ANALYZE_QUERY" -> passes + 5
          [] state = "RETRIEVE" -> passes + 4
          [] state = "EVALUATE_EVIDENCE" -> passes + 3
          [] state = "REWRITE_QUERY" -> passes + 2
          [] state \in {"GENERATE_ANSWER", "ASK_CLARIFICATION", "ABSTAIN"} -> 1
          [] OTHER -> 0

(* How many steps handle can still take.                                   *)
StepsLeft ==
    CASE stage = "model" -> 3 * MaxIterations + 12
      [] stage = "repair" -> 3 * MaxIterations + 11
      [] stage = "decided" -> 3 * MaxIterations + 10
      [] stage = "retrieving" -> RetrievalLeft + 3
      [] stage = "acting" -> IF toolResult = "none" THEN 2 ELSE 1
      [] OTHER -> 0

LEMMA RetrievalIsBounded ==
    ASSUME IInv
    PROVE  RetrievalLeft \in 0 .. 3 * MaxIterations + 6
<1>1. iteration \in 0 .. MaxIterations /\ MaxIterations \in Nat
  BY LoopAssumption DEF IInv, TypeOK, RagTypeOK
<1>2. 3 * (MaxIterations - iteration) \in 0 .. 3 * MaxIterations
  BY <1>1
<1> DEFINE passes == 3 * (MaxIterations - iteration)
<1> HIDE DEF passes
<1>3. RetrievalLeft \in {passes + 6, passes + 5, passes + 4, passes + 3, passes + 2, 1, 0}
  BY DEF RetrievalLeft, passes
<1> QED
  BY <1>1, <1>2, <1>3 DEF passes

(* Each entry of the trace is one less to come: the rewrite is guarded by  *)
(* the limit that the next retrieval uses up.                              *)
LEMMA RetrievalRunsDown ==
    ASSUME IInv, IInv', Answer
    PROVE  RetrievalLeft' \in Int /\ RetrievalLeft' < RetrievalLeft
<1>1. /\ iteration \in 0 .. MaxIterations /\ iteration' \in 0 .. MaxIterations
      /\ MaxIterations \in Nat
      /\ state = "REWRITE_QUERY" => iteration < MaxIterations
      /\ state = "ANALYZE_QUERY" => iteration = 0
  BY LoopAssumption DEF IInv, TypeOK, RagTypeOK, RagInv
<1>2. CASE AnalyzesQuery
  BY <1>1, <1>2 DEF AnalyzesQuery, RetrievalLeft
<1>3. CASE AsksForClarification \/ RefusesScope
  BY <1>1, <1>3 DEF AsksForClarification, RefusesScope, RetrievalLeft
<1>4. CASE Retrieves
  BY <1>1, <1>4 DEF Retrieves, RetrievalLeft
<1>5. CASE Merges
  BY <1>1, <1>5 DEF Merges, RetrievalLeft
<1>6. CASE FindsSufficient \/ FindsConflict \/ GivesUp
  <2>1. /\ state = "EVALUATE_EVIDENCE" /\ state' \in {"GENERATE_ANSWER", "ABSTAIN"}
        /\ iteration' = iteration
    BY <1>6 DEF FindsSufficient, FindsConflict, GivesUp, Concludes
  <2> QED
    BY <1>1, <2>1 DEF RetrievalLeft
<1>7. CASE RewritesQuery
  BY <1>1, <1>7 DEF RewritesQuery, Rewrites, RetrievalLeft
<1>8. CASE GeneratesAnswer \/ Returns
  BY <1>1, <1>8 DEF GeneratesAnswer, Returns, RetrievalLeft
<1> QED
  BY <1>2, <1>3, <1>4, <1>5, <1>6, <1>7, <1>8 DEF Answer

RunsDown == StepsLeft \in 0 .. 3 * MaxIterations + 12 /\ StepsLeft' < StepsLeft

(* Every step of handle, whatever it retrieves and whatever fails, is one  *)
(* less to come of a number that MaxIterations bounds: a request is over   *)
(* after at most 3 * MaxIterations + 12 steps (Responds, but for fairness).*)
THEOREM StepsRunOut == Spec => [][RunsDown]_vars
<1>1. ASSUME IInv, IInv', Next PROVE RunsDown
  <2>1. /\ RetrievalLeft \in 0 .. 3 * MaxIterations + 6 /\ MaxIterations \in Nat
        /\ stage \in {"model", "repair", "decided", "retrieving", "acting", "returned", "raised"}
    BY <1>1, RetrievalIsBounded, LoopAssumption DEF IInv, TypeOK
  <2>2. StepsLeft \in 0 .. 3 * MaxIterations + 12
    BY <2>1 DEF StepsLeft
  <2> SUFFICES StepsLeft' < StepsLeft
    BY <2>2 DEF RunsDown
  <2>3. CASE RouterFails \/ AsksBack \/ TakesAbstention \/ Replies
    BY <2>1, <2>3 DEF RouterFails, AsksBack, TakesAbstention, Replies, Returning, StepsLeft
  <2>4. CASE ModelAnswersBadly \/ ModelDecides
    BY <2>1, <2>4 DEF ModelAnswersBadly, ModelDecides, StepsLeft
  <2>5. CASE StartsRetrieval
    <3>1. RetrievalLeft' = RetrievalLeft
      BY <2>5 DEF StartsRetrieval, ragVars, RetrievalLeft
    <3> QED
      BY <2>1, <2>5, <3>1 DEF StartsRetrieval, StepsLeft
  <2>6. CASE SkipsRetrieval
    BY <2>1, <2>6 DEF SkipsRetrieval, StepsLeft
  <2>7. CASE RetrievalStep
    <3>1. RetrievalLeft' \in Int /\ RetrievalLeft' < RetrievalLeft
      BY <1>1, <2>7, RetrievalRunsDown DEF RetrievalStep
    <3>2. stage = "retrieving" /\ stage' = "retrieving"
      BY <2>7 DEF RetrievalStep, turnVars
    <3> QED
      BY <2>1, <3>1, <3>2 DEF StepsLeft
  <2>8. CASE RetrievalRaises \/ TakesAnswer
    BY <2>1, <2>8 DEF RetrievalRaises, TakesAnswer, StepsLeft
  <2>9. CASE ExecutesTool \/ ToolRaises
    BY <2>1, <2>9 DEF ExecutesTool, ToolRaises, StepsLeft
  <2> QED
    BY <1>1, <2>3, <2>4, <2>5, <2>6, <2>7, <2>8, <2>9 DEF Next
<1>2. IInv /\ IInv' /\ [Next]_vars => [RunsDown]_vars
  BY <1>1
<1> QED
  BY <1>2, Inductive, PTL DEF Spec
=============================================================================
