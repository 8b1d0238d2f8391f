------------------------------ MODULE Delivery ------------------------------
(***************************************************************************)
(* What the job pipeline promises a client, without workers, leases or     *)
(* retries: an accepted key is settled as delivered or dead, delivered is  *)
(* final, and its external effect is preceded by a permit that is issued   *)
(* once and used at most once.  A key is delivered only after its permit   *)
(* has been issued.                                                        *)
(***************************************************************************)
CONSTANT Jobs

VARIABLES
    outcome,        \* what GET /v1/jobs/{id} can tell
    permit          \* the right to perform the external effect

vars == <<outcome, permit>>

Outcomes == {"unknown", "accepted", "delivered", "dead"}
Permits == {"free", "issued", "used"}

Init ==
    /\ outcome = [j \in Jobs |-> "unknown"]
    /\ permit = [j \in Jobs |-> "free"]

Accept(j) ==
    /\ outcome[j] = "unknown"
    /\ outcome' = [outcome EXCEPT ![j] = "accepted"]
    /\ UNCHANGED permit

(* A slow worker may still be issued the permit of a key given up by       *)
(* another one.                                                            *)
IssuePermit(j) ==
    /\ outcome[j] # "unknown"
    /\ permit[j] = "free"
    /\ permit' = [permit EXCEPT ![j] = "issued"]
    /\ UNCHANGED outcome

UsePermit(j) ==
    /\ permit[j] = "issued"
    /\ permit' = [permit EXCEPT ![j] = "used"]
    /\ UNCHANGED outcome

Deliver(j) ==
    /\ outcome[j] = "accepted"
    /\ permit[j] # "free"
    /\ outcome' = [outcome EXCEPT ![j] = "delivered"]
    /\ UNCHANGED permit

GiveUp(j) ==
    /\ outcome[j] = "accepted"
    /\ outcome' = [outcome EXCEPT ![j] = "dead"]
    /\ UNCHANGED permit

Revive(j) ==
    /\ outcome[j] = "dead"
    /\ outcome' = [outcome EXCEPT ![j] = "accepted"]
    /\ UNCHANGED permit

Next ==
    \E j \in Jobs :
        Accept(j) \/ IssuePermit(j) \/ UsePermit(j) \/ Deliver(j) \/ GiveUp(j) \/ Revive(j)

Spec == Init /\ [][Next]_vars
=============================================================================
