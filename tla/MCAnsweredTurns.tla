--------------------------- MODULE MCAnsweredTurns ---------------------------
(***************************************************************************)
(* A knowledge base of four documents in five chunks: the grace period of  *)
(* the collections policy, in a superseded version and in one in force     *)
(* that states it in two overlapping chunks; a page that is younger than   *)
(* both and repeats the old figure; and the support phrases.               *)
(***************************************************************************)
EXTENDS AnsweredClaims, TLC

CONSTANTS grace5, grace7, overlap7, faq5, phrase

MCChunks == {grace5, grace7, overlap7, faq5, phrase}
MCDocs == {"collections_v1", "collections_v2", "faq", "support_macros"}

MCSource == grace5 :> "collections_v1" @@ grace7 :> "collections_v2"
            @@ overlap7 :> "collections_v2" @@ faq5 :> "faq"
            @@ phrase :> "support_macros"

MCId == [d \in MCDocs |-> d]
MCFamily == [d \in MCDocs |-> IF d \in {"faq", "support_macros"} THEN d ELSE "collections"]
MCStatus == [d \in MCDocs |-> IF d = "collections_v1" THEN "superseded" ELSE "active"]
MCDate == [d \in MCDocs |-> CASE d = "collections_v1" -> 1
                              [] d = "collections_v2" -> 2
                              [] OTHER -> 3]
MCVersion == [d \in MCDocs |-> IF d = "collections_v2" THEN 2 ELSE 1]
MCSays == [c \in MCChunks |->
    IF c = phrase THEN {}
    ELSE {<<"grace_period_days", IF c \in {grace5, faq5} THEN 5 ELSE 7>>}]

(* Requests with each thing a guard or the analysis looks for, and those   *)
(* whose wording combines them.                                            *)
MCRequests ==
    {[text |-> {}, signals |-> s] :
        s \in {{"domain"}, {"domain", "versioned"}, {"domain", "versioned", "historical"},
               {"domain", "historical", "parts"}, {"foreign", "vague"}, {"vague"},
               {"account_action", "domain"}, {"domain", "wording"}}}
    \cup {[text |-> {"third_party"}, signals |-> {"domain"}],
          [text |-> {"own_identity"}, signals |-> {"domain", "versioned"}],
          [text |-> {"third_party", "own_identity"}, signals |-> {"vague"}]}
=============================================================================
