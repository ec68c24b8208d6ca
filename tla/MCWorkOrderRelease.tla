------------------------- MODULE MCWorkOrderRelease -------------------------
(* Small instances of WorkOrderRelease for TLC, and the properties that hold
   as long as operations do not overlap.                                   *)
EXTENDS WorkOrderRelease, TLC

CONSTANTS t1, t2, e1, i1, i2, f1, Scenarios

Attached == [x \in Evidences \cup Inspections |-> IF x = i2 THEN None ELSE t1]
RequiredItems == {i1}

Nothing == [r \in Rows |-> "ABSENT"]
OneTask(state) == [Nothing EXCEPT ![t1] = state]
FewRows == { Nothing, OneTask("PENDING"), OneTask("COMPLETED") }

Fresh == [status |-> "DRAFT", assigned |-> FALSE]
Inspected == [status |-> "COMPLETED", assigned |-> TRUE]
FewOrders == { Fresh, Inspected }
-----------------------------------------------------------------------------
(* The scenario of a behaviour, fixed at its start:
     "concurrent"  operations in every order, dying anywhere;
     "serial"      one operation at a time, as many as one likes.
   Each scenario leaves some rows out to stay small.                       *)
VARIABLE scenario

LeftOut == IF scenario = "serial" THEN {t2, i2} ELSE {i1, f1}

MCInit == /\ Init /\ scenario \in Scenarios
          /\ scenario = "serial" <=> order = Fresh
          /\ scenario = "serial" => row = Nothing

AllDone == \A s \in Sessions : session[s].at \in {"idle", "done"}

SerialNext ==
    \/ AllDone /\ Insert
    \/ \E s \in Sessions : (AllDone /\ Arrive(s)) \/ Continue(s)
    \/ /\ \A s \in Sessions : At(s, "done")
       /\ session' = [s \in Sessions |-> Idle]
       /\ UNCHANGED <<order, rows, released>>

MCNext == /\ UNCHANGED scenario
          /\ \/ scenario = "concurrent" /\ Next
             \/ scenario = "serial" /\ SerialNext
          /\ \A r \in LeftOut : row'[r] = "ABSENT"
          /\ \A s \in Sessions : session'[s].row \notin LeftOut
          /\ outside' \subseteq IF scenario = "serial" THEN {"MATERIAL"} ELSE {"COMPLIANCE"}

MCSpec == MCInit /\ [][MCNext]_<<vars, scenario>>
-----------------------------------------------------------------------------
(* The blocker categories of release_readiness_service's header, as what the
   rows of the work order must look like for it to be READY.               *)
Ready ==
    /\ \A t \in Tasks : row[t] \in {"ABSENT", "COMPLETED"}
    /\ \A e \in Evidences : TaskOf[e] # None => row[e] \in {"ABSENT", "ACCEPTED"}
    /\ \A t \in needing : Proven(t)
    /\ \A i \in Inspections : row[i] \in {"ABSENT"} \cup Cleared
    /\ \A f \in Findings : row[f] \in {"ABSENT", "CLOSED"}
    /\ outside = {}

(* "Cannot close work order: Release readiness is BLOCKED": a work order that
   no other request is working on is closed only when READY.               *)
ClosedWhenReady ==
    [][scenario = "serial" /\ order.status # "CLOSED" /\ order'.status = "CLOSED" => Ready]_vars

(* "Cannot add tasks to a CLOSED work order" and the two task gates: a closed
   work order has no unfinished task, and every task that requires evidence
   has some, although tasks may be added after the gate of INSPECTION.     *)
ClosedTasksComplete ==
    scenario = "serial" /\ order.status = "CLOSED" =>
        /\ \A t \in Tasks : row[t] \in {"ABSENT", "COMPLETED"}
        /\ \A t \in needing : Proven(t)

(* "an explicit inspector attempting to sign off on their own uploaded evidence
   is always rejected": nobody completes a required inspection of a task that
   they uploaded evidence for.                                             *)
IndependentInspector ==
    [][scenario = "serial" => \A i \in Required :
          row[i] # "COMPLETED" /\ row'[i] = "COMPLETED" =>
             \A e \in Evidences : Exists(e) /\ TaskOf[e] = TaskOf[i] /\ TaskOf[i] # None =>
                uploader[e] # inspector'[i]]_vars

(* "Rejected evidence must be resubmitted [...] before it can be accepted
   again."                                                                 *)
RejectedIsResubmitted ==
    [][\A e \in Evidences : row[e] = "REJECTED" => row'[e] # "ACCEPTED"]_vars
=============================================================================
