---------------------------- MODULE MCAccountTurns ----------------------------
(* A balance query, two disputes that the guard takes for one, and a       *)
(* request for a human, which needs no verification and has no key.        *)
EXTENDS AccountClaims

CONSTANTS balance, dispute, otherDispute, human

MCRequests == {balance, dispute, otherDispute, human}
MCWrites == {dispute, otherDispute, human}
MCProtected == {balance, dispute, otherDispute}
MCKey == [r \in MCRequests |-> IF r \in {dispute, otherDispute} THEN "open_dispute" ELSE "none"]
MCJob == [r \in MCRequests |-> r]
MCNoKey == "none"
=============================================================================
