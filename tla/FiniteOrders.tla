---------------------------- MODULE FiniteOrders ----------------------------
(***************************************************************************)
(* A fact about finite sets that the queue of JobStore and the versions of *)
(* PolicyEvidence both rest on.                                            *)
(***************************************************************************)
EXTENDS FiniteSetTheorems, TLAPS

(* Of finitely many things in a strict order, one has nothing below it.     *)
LEMMA FiniteOrderHasMinimum ==
    ASSUME NEW S, IsFiniteSet(S), S # {}, NEW below \in [S -> SUBSET S],
           \A x \in S : x \notin below[x],
           \A x \in S : \A y \in below[x] : below[y] \subseteq below[x]
    PROVE  \E x \in S : below[x] = {}
  <1> DEFINE Below == {below[x] : x \in S}
  <1>1. Below \subseteq FiniteSubsetsOf(S) /\ Below # {}
    BY FS_FiniteSubsetsOfFinite
  <1>2. PICK B \in Below : \A C \in Below : <<C, B>> \notin StrictSubsetOrdering(S)
    BY <1>1, FS_StrictSubsetOrderingWellFounded, WFMin
  <1>3. PICK x \in S : B = below[x]
    BY <1>2
  <1>4. ASSUME NEW y \in below[x] PROVE FALSE
    <2>1. /\ below[y] \subseteq below[x] /\ y \notin below[y]
          /\ below[y] \in Below /\ below[y] \in SUBSET S /\ below[x] \in SUBSET S
      BY <1>3
    <2>2. below[y] # below[x]
      BY <2>1, <1>4
    <2>3. <<below[y], below[x]>> \in StrictSubsetOrdering(S)
      BY <2>1, <2>2 DEF StrictSubsetOrdering
    <2> QED
      BY <1>2, <1>3, <2>1, <2>3
  <1> QED
    BY <1>3, <1>4
=============================================================================
