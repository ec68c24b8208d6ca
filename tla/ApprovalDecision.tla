-------------------------- MODULE ApprovalDecision --------------------------
(***************************************************************************)
(* What a governance approval promises, without sessions, locks or         *)
(* entitlement rows: a request is filed once and decided once, and the     *)
(* entitlement mutation it asks for is executed exactly when, and exactly  *)
(* as often as, it is approved (approval_service.py, TRANSACTION SAFETY    *)
(* and REPLAY / CONCURRENT-APPROVAL SAFETY).                               *)
(***************************************************************************)
EXTENDS Naturals

CONSTANTS
    Requests,   \* rows of approval_requests
    Absent      \* the decision of a request that was never filed

VARIABLES
    decision,   \* what has been decided about each request
    effects     \* how often its mutation has been executed

vars == <<decision, effects>>

Init ==
    /\ decision = [r \in Requests |-> Absent]
    /\ effects = [r \in Requests |-> 0]

File(r) ==
    /\ decision[r] = Absent
    /\ decision' = [decision EXCEPT ![r] = "PENDING"]
    /\ UNCHANGED effects

Approve(r) ==
    /\ decision[r] = "PENDING"
    /\ decision' = [decision EXCEPT ![r] = "APPROVED"]
    /\ effects' = [effects EXCEPT ![r] = @ + 1]

Decline(r, outcome) ==
    /\ decision[r] = "PENDING"
    /\ decision' = [decision EXCEPT ![r] = outcome]
    /\ UNCHANGED effects

Next ==
    \E r \in Requests :
        \/ File(r)
        \/ Approve(r)
        \/ \E outcome \in {"REJECTED", "CANCELED"} : Decline(r, outcome)

Spec == Init /\ [][Next]_vars
=============================================================================
