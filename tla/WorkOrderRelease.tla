-------------------------- MODULE WorkOrderRelease --------------------------
(***************************************************************************)
(* One work order on its way to release, with the rows that can hold it    *)
(* back: its tasks, the evidence for them, inspection requirements and     *)
(* findings.  Every operation loads rows, checks them, and commits later,  *)
(* without a lock: a gate is a series of SELECTs followed by an UPDATE.    *)
(*                                                                         *)
(*   work_order_service          transitions with their gates, tasks       *)
(*   release_readiness_service   the gate in front of CLOSED               *)
(*   evidence_service, inspection_service, finding_service                 *)
(*                                                                         *)
(* Part requirements and compliance assessments (PartInventory and the     *)
(* assessment services) enter as two categories that block or do not.      *)
(***************************************************************************)
EXTENDS Naturals, Sequences

CONSTANTS
    Sessions,       \* HTTP requests; each performs one operation
    Tasks, Evidences, Inspections, Findings,    \* rows that may exist
    Users,
    None,           \* no user, no task, no row
    TaskOf,         \* task of an evidence or inspection row; None: the work order
    Required,       \* inspections that are required inspection items (RII)
    OpeningOrders,  \* what create_work_order is called with
    OpeningRows     \* statuses of the rows to start from

OrderStatuses == {"DRAFT", "OPEN", "PLANNED", "ASSIGNED", "IN_PROGRESS", "ON_HOLD",
                  "INSPECTION", "COMPLETED", "CLOSED", "CANCELLED"}
TaskStates == {"PENDING", "IN_PROGRESS", "COMPLETED", "CANCELLED"}
EvidenceStatuses == {"REQUIRED", "UPLOADED", "SUBMITTED", "AWAITING_REVIEW",
                     "ACCEPTED", "REJECTED"}
InspectionStatuses == {"PENDING", "NOT_REQUIRED", "COMPLETED", "REJECTED"}
FindingStatuses == {"OPEN", "IN_PROGRESS", "CLOSED"}
RowStatuses == {"ABSENT"} \cup TaskStates \cup EvidenceStatuses
                  \cup InspectionStatuses \cup FindingStatuses

Rows == Tasks \cup Evidences \cup Inspections \cup Findings
Order == [status : OrderStatuses, assigned : BOOLEAN]

ASSUME ReleaseAssumption ==
    /\ None \notin Rows \cup Users
    /\ Tasks \cap (Evidences \cup Inspections \cup Findings) = {}
    /\ Findings \cap (Evidences \cup Inspections) = {}      \* tables of their own
    /\ TaskOf \in [Evidences \cup Inspections -> Tasks \cup {None}]
    /\ Required \subseteq Inspections
    /\ OpeningOrders \subseteq { o \in Order : o.status = "ASSIGNED" => o.assigned }
    /\ OpeningRows \subseteq [Rows -> RowStatuses]

VARIABLES
    order,      \* the work order: status, has a technician
    row,        \* status of every other row
    needing,    \* tasks with evidence_required
    uploader,   \* uploaded_by_user_id of the evidence
    inspector,  \* inspector_user_id of the inspections
    disposed,   \* findings with a disposition
    outside,    \* categories of other components that block now
    session,    \* per HTTP request: phase and what its session holds
    released    \* history: the tasks the last closing request found completed,
                \* and those of them it found to have the evidence they require

vars == <<order, row, needing, uploader, inspector, disposed, outside, session, released>>
-----------------------------------------------------------------------------
OrderTransitions ==
    [DRAFT       |-> {"OPEN", "CANCELLED"},
     OPEN        |-> {"PLANNED", "ASSIGNED", "CANCELLED"},
     PLANNED     |-> {"ASSIGNED", "CANCELLED"},
     ASSIGNED    |-> {"IN_PROGRESS", "PLANNED", "CANCELLED"},
     IN_PROGRESS |-> {"ON_HOLD", "INSPECTION", "CANCELLED"},
     ON_HOLD     |-> {"IN_PROGRESS", "CANCELLED"},
     INSPECTION  |-> {"COMPLETED", "IN_PROGRESS", "CANCELLED"},
     COMPLETED   |-> {"CLOSED"},
     CLOSED      |-> {},
     CANCELLED   |-> {}]

EvidenceTransitions ==
    [REQUIRED        |-> {"UPLOADED"},
     UPLOADED        |-> {"SUBMITTED"},
     SUBMITTED       |-> {"AWAITING_REVIEW", "REJECTED"},
     AWAITING_REVIEW |-> {"ACCEPTED", "REJECTED"},
     ACCEPTED        |-> {},
     REJECTED        |-> {"UPLOADED", "SUBMITTED"}]

InspectionTransitions ==
    [PENDING      |-> {"COMPLETED", "NOT_REQUIRED", "REJECTED"},
     REJECTED     |-> {"PENDING"},
     COMPLETED    |-> {},
     NOT_REQUIRED |-> {}]

Terminal == {"CLOSED", "CANCELLED"}
Cleared == {"COMPLETED", "NOT_REQUIRED"}    \* inspection statuses that pass a gate

Exists(r) == row[r] # "ABSENT"
Attachable(x) == TaskOf[x] # None => Exists(TaskOf[x])
-----------------------------------------------------------------------------
(* release_readiness_service: one SELECT per category, in this order.  `seen`
   are the tasks its first SELECT returned, `must` those of them with
   evidence_required.                                                      *)
Categories == <<"TASK_EXECUTION", "EVIDENCE", "INSPECTION", "MATERIAL", "COMPLIANCE", "FINDING">>

(* Mutant: a task that requires evidence but has none does not block. *)
BlocksUnlessRecorded(category, seen, must) ==
    CASE category = "TASK_EXECUTION" -> \E t \in seen : row[t] # "COMPLETED"
      [] category = "EVIDENCE" ->
            \E e \in Evidences : Exists(e) /\ TaskOf[e] \in seen /\ row[e] # "ACCEPTED"
      [] category = "INSPECTION" ->
            \E i \in Inspections : /\ Exists(i) /\ TaskOf[i] \in seen \cup {None}
                                   /\ row[i] \notin Cleared
      [] category = "FINDING" -> \E f \in Findings : Exists(f) /\ row[f] # "CLOSED"
      [] OTHER -> category \in outside

(* Mutant: unfinished tasks do not block, the earlier gate having seen them. *)
BlocksButTasks(category, seen, must) ==
    CASE category = "TASK_EXECUTION" -> FALSE
      [] category = "EVIDENCE" ->
            \/ \E e \in Evidences : Exists(e) /\ TaskOf[e] \in seen /\ row[e] # "ACCEPTED"
            \/ \E t \in must : \A e \in Evidences : ~(Exists(e) /\ TaskOf[e] = t)
      [] category = "INSPECTION" ->
            \E i \in Inspections : /\ Exists(i) /\ TaskOf[i] \in seen \cup {None}
                                   /\ row[i] \notin Cleared
      [] category = "FINDING" -> \E f \in Findings : Exists(f) /\ row[f] # "CLOSED"
      [] OTHER -> category \in outside

Blocks(category, seen, must) ==
    CASE category = "TASK_EXECUTION" -> \E t \in seen : row[t] # "COMPLETED"
      [] category = "EVIDENCE" ->
            \/ \E e \in Evidences : Exists(e) /\ TaskOf[e] \in seen /\ row[e] # "ACCEPTED"
            \/ \E t \in must : \A e \in Evidences : ~(Exists(e) /\ TaskOf[e] = t)
      [] category = "INSPECTION" ->
            \E i \in Inspections : /\ Exists(i) /\ TaskOf[i] \in seen \cup {None}
                                   /\ row[i] \notin Cleared
      [] category = "FINDING" -> \E f \in Findings : Exists(f) /\ row[f] # "CLOSED"
      [] OTHER -> category \in outside
-----------------------------------------------------------------------------
Phases == {"idle", "gate", "readiness", "writeStatus", "writeAssigned", "createTask",
           "updateTask", "writeRow", "independence", "writeInspection",
           "writeDisposition", "closeFinding", "done"}

(* loaded: the status the session loaded; target: the one it will write;
   judged: how many categories of the readiness have been found clear.     *)
Request(phase, r, loaded, target, user) ==
    [at |-> phase, row |-> r, loaded |-> loaded, target |-> target, user |-> user,
     seen |-> {}, must |-> {}, judged |-> 0]

Idle == Request("idle", None, "ABSENT", "ABSENT", None)
Done == Request("done", None, "ABSENT", "ABSENT", None)

Init == /\ order \in OpeningOrders
        /\ row \in OpeningRows
        /\ needing = {} /\ disposed = {} /\ outside = {}
        /\ released = [tasks |-> {}, must |-> {}]
        /\ uploader = [e \in Evidences |-> None]
        /\ inspector = [i \in Inspections |-> None]
        /\ session = [s \in Sessions |-> Idle]

At(s, phase) == session[s].at = phase
Goto(s, new) == session' = [session EXCEPT ![s] = new]
Step(s, phase) == session' = [session EXCEPT ![s].at = phase]
End(s) == Goto(s, Done)

rows == <<row, needing, uploader, inspector, disposed, outside>>
-----------------------------------------------------------------------------
(* transition_work_order.  The status and the technician are loaded once. *)

StartTransition(s, target) ==
    /\ At(s, "idle") /\ target \in OrderTransitions[order.status]
    /\ target \in {"ASSIGNED", "IN_PROGRESS"} => order.assigned
    /\ Goto(s, Request(CASE target \in {"INSPECTION", "COMPLETED"} -> "gate"
                          [] target = "CLOSED" -> "readiness"
                          [] OTHER -> "writeStatus",
                       None, order.status, target, None))
    /\ UNCHANGED <<order, rows, released>>

(* The gates in front of INSPECTION and COMPLETED: one SELECT each. *)
GatePasses(target) ==
    IF target = "INSPECTION"
    THEN \A t \in Tasks : row[t] \in {"ABSENT", "COMPLETED"}
    ELSE \A i \in Inspections :
            Exists(i) /\ Attachable(i) => row[i] \in Cleared

CheckGate(s) ==
    /\ At(s, "gate")
    /\ IF GatePasses(session[s].target) THEN Step(s, "writeStatus") ELSE End(s)
    /\ UNCHANGED <<order, rows, released>>

(* A category that blocks refuses the close, whatever the later ones say. *)
Judge(s) ==
    LET n    == session[s].judged + 1
        seen == IF n = 1 THEN { t \in Tasks : Exists(t) } ELSE session[s].seen
        must == IF n = 1 THEN needing \cap seen ELSE session[s].must
    IN  /\ At(s, "readiness")
        /\ IF Blocks(Categories[n], seen, must) THEN End(s)
           ELSE Goto(s, [at |-> IF n = Len(Categories) THEN "writeStatus" ELSE "readiness",
                         row |-> None, loaded |-> session[s].loaded, target |-> "CLOSED",
                         user |-> None, seen |-> seen, must |-> must, judged |-> n])
        /\ UNCHANGED <<order, rows, released>>

WriteStatus(s) ==
    /\ At(s, "writeStatus")
    /\ order' = [order EXCEPT !.status = session[s].target]
    /\ released' = IF session[s].target = "CLOSED"
                   THEN [tasks |-> session[s].seen, must |-> session[s].must]
                   ELSE released
    /\ End(s)
    /\ UNCHANGED rows

(* assign_work_order *)
StartAssign(s) ==
    /\ At(s, "idle") /\ order.status \notin Terminal
    /\ Goto(s, Request("writeAssigned", None, order.status, "ABSENT", None))
    /\ UNCHANGED <<order, rows, released>>

WriteAssigned(s) ==
    /\ At(s, "writeAssigned")
    /\ order' = [status |-> IF session[s].loaded \in {"OPEN", "PLANNED"} THEN "ASSIGNED"
                            ELSE order.status,
                 assigned |-> TRUE]
    /\ End(s)
    /\ UNCHANGED <<rows, released>>
-----------------------------------------------------------------------------
(* Tasks. *)

(* Mutant: create_task does not look at the work order. *)
StartCreateTaskAnyway(s, t, state) ==
    /\ At(s, "idle") /\ ~Exists(t)
    /\ Goto(s, Request("createTask", t, "ABSENT", state, None))
    /\ UNCHANGED <<order, rows, released>>

StartCreateTask(s, t, state) ==
    /\ At(s, "idle") /\ ~Exists(t) /\ order.status \notin Terminal
    /\ Goto(s, Request("createTask", t, "ABSENT", state, None))
    /\ UNCHANGED <<order, rows, released>>

CreateTask(s) ==
    LET t == session[s].row
    IN  /\ At(s, "createTask") /\ ~Exists(t)    \* two requests never create one row
        /\ row' = [row EXCEPT ![t] = session[s].target]
        /\ needing' \in {needing, needing \cup {t}}
        /\ End(s)
        /\ UNCHANGED <<order, uploader, inspector, disposed, outside, released>>

(* update_task: of what it writes only evidence_required matters. *)
StartUpdateTask(s, t) ==
    /\ At(s, "idle") /\ Exists(t) /\ order.status \notin Terminal
    /\ Goto(s, Request("updateTask", t, "ABSENT", "ABSENT", None))
    /\ UNCHANGED <<order, rows, released>>

UpdateTask(s) ==
    /\ At(s, "updateTask")
    /\ needing' \in {needing \cup {session[s].row}, needing \ {session[s].row}}
    /\ End(s)
    /\ UNCHANGED <<order, row, uploader, inspector, disposed, outside, released>>

StartCompleteTask(s, t) ==
    /\ At(s, "idle") /\ row[t] \in {"PENDING", "IN_PROGRESS"}
    /\ Goto(s, Request("writeRow", t, row[t], "COMPLETED", None))
    /\ UNCHANGED <<order, rows, released>>

(* The UPDATE of a status column: only if it differs from the loaded one. *)
WriteRow(s) ==
    /\ At(s, "writeRow")
    /\ row' = IF session[s].target = session[s].loaded THEN row
              ELSE [row EXCEPT ![session[s].row] = session[s].target]
    /\ End(s)
    /\ UNCHANGED <<order, needing, uploader, inspector, disposed, outside, released>>
-----------------------------------------------------------------------------
(* Evidence: create, transition, verify, reject. *)

CreateEvidence(e, u) ==
    /\ ~Exists(e) /\ Attachable(e)
    /\ row' = [row EXCEPT ![e] = "UPLOADED"]
    /\ uploader' = [uploader EXCEPT ![e] = u]
    /\ UNCHANGED <<order, needing, inspector, disposed, outside, session, released>>

(* verify_evidence and reject_evidence accept evidence of any status. *)
StartEvidence(s, e, target) ==
    /\ At(s, "idle") /\ Exists(e)
    /\ target \in EvidenceTransitions[row[e]] \cup {"ACCEPTED", "REJECTED"}
    /\ Goto(s, Request("writeRow", e, row[e], target, None))
    /\ UNCHANGED <<order, rows, released>>
-----------------------------------------------------------------------------
(* Inspection requirements. *)

CreateInspection(i) ==
    /\ ~Exists(i) /\ Attachable(i)
    /\ row' = [row EXCEPT ![i] = "PENDING"]
    /\ UNCHANGED <<order, needing, uploader, inspector, disposed, outside, session, released>>

StartInspection(s, i, target, u) ==
    /\ At(s, "idle") /\ Exists(i) /\ target \in InspectionTransitions[row[i]]
    /\ Goto(s, Request(CASE target # "COMPLETED" -> "writeRow"
                          [] target = "COMPLETED" /\ i \in Required -> "independence"
                          [] OTHER -> "writeInspection",
                       i, row[i], target, IF target = "COMPLETED" THEN u ELSE None))
    /\ UNCHANGED <<order, rows, released>>

(* Mutant: rejected evidence does not count as work performed. *)
ExecutorsUnlessRejected(i) ==
    { uploader[e] : e \in { e \in Evidences :
        Exists(e) /\ row[e] # "REJECTED" /\ TaskOf[e] = TaskOf[i] /\ TaskOf[i] # None } }

Executors(i) ==
    { uploader[e] : e \in { e \in Evidences :
        Exists(e) /\ TaskOf[e] = TaskOf[i] /\ TaskOf[i] # None } }

CheckIndependence(s) ==
    /\ At(s, "independence")
    /\ IF session[s].user \in Executors(session[s].row) THEN End(s)
       ELSE Step(s, "writeInspection")
    /\ UNCHANGED <<order, rows, released>>

WriteInspection(s) ==
    LET i == session[s].row
    IN  /\ At(s, "writeInspection")
        /\ row' = [row EXCEPT ![i] = "COMPLETED"]
        /\ inspector' = [inspector EXCEPT ![i] = session[s].user]
        /\ End(s)
        /\ UNCHANGED <<order, needing, uploader, disposed, outside, released>>
-----------------------------------------------------------------------------
(* Findings. *)

CreateFinding(f) ==
    /\ ~Exists(f)
    /\ row' = [row EXCEPT ![f] = "OPEN"]
    /\ UNCHANGED <<order, needing, uploader, inspector, disposed, outside, session, released>>

StartFinding(s, f, phase) ==
    /\ At(s, "idle") /\ Exists(f) /\ row[f] # "CLOSED"
    /\ Goto(s, Request(phase, f, row[f], "ABSENT", None))
    /\ UNCHANGED <<order, rows, released>>

WriteDisposition(s) ==
    LET f == session[s].row
    IN  /\ At(s, "writeDisposition")
        /\ disposed' = disposed \cup {f}
        /\ row' = IF session[s].loaded = "OPEN" THEN [row EXCEPT ![f] = "IN_PROGRESS"] ELSE row
        /\ End(s)
        /\ UNCHANGED <<order, needing, uploader, inspector, outside, released>>

(* The dispositions are loaded lazily, after the finding. *)
CloseFinding(s) ==
    LET f == session[s].row
    IN  /\ At(s, "closeFinding")
        /\ row' = IF f \in disposed THEN [row EXCEPT ![f] = "CLOSED"] ELSE row
        /\ End(s)
        /\ UNCHANGED <<order, needing, uploader, inspector, disposed, outside, released>>
-----------------------------------------------------------------------------
(* Part requirements and assessments come and go in other components. *)
OutsideChanges(category) ==
    /\ outside' = IF category \in outside THEN outside \ {category}
                  ELSE outside \cup {category}
    /\ UNCHANGED <<order, row, needing, uploader, inspector, disposed, session, released>>

Crash(s) ==
    /\ session[s].at \notin {"idle", "done"}
    /\ End(s)
    /\ UNCHANGED <<order, rows, released>>

Arrive(s) ==
    \/ \E target \in OrderStatuses : StartTransition(s, target)
    \/ StartAssign(s)
    \/ \E t \in Tasks : \/ \E state \in TaskStates : StartCreateTask(s, t, state)
                        \/ StartUpdateTask(s, t) \/ StartCompleteTask(s, t)
    \/ \E e \in Evidences, target \in EvidenceStatuses : StartEvidence(s, e, target)
    \/ \E i \in Inspections, target \in InspectionStatuses, u \in Users :
          StartInspection(s, i, target, u)
    \/ \E f \in Findings, phase \in {"writeDisposition", "closeFinding"} :
          StartFinding(s, f, phase)

Continue(s) ==
    \/ CheckGate(s) \/ Judge(s) \/ WriteStatus(s) \/ WriteAssigned(s)
    \/ CreateTask(s) \/ UpdateTask(s) \/ WriteRow(s)
    \/ CheckIndependence(s) \/ WriteInspection(s)
    \/ WriteDisposition(s) \/ CloseFinding(s)

Insert ==
    \/ \E e \in Evidences, u \in Users : CreateEvidence(e, u)
    \/ \E i \in Inspections : CreateInspection(i)
    \/ \E f \in Findings : CreateFinding(f)
    \/ \E category \in {"MATERIAL", "COMPLIANCE"} : OutsideChanges(category)

Next == Insert \/ \E s \in Sessions : Arrive(s) \/ Continue(s) \/ Crash(s)

Spec == Init /\ [][Next]_vars
-----------------------------------------------------------------------------
Session == [at : Phases, row : Rows \cup {None}, loaded : RowStatuses \cup OrderStatuses,
            target : RowStatuses \cup OrderStatuses, user : Users \cup {None},
            seen : SUBSET Tasks, must : SUBSET Tasks, judged : 0..Len(Categories)]

TypeOK ==
    /\ order \in Order
    /\ row \in [Rows -> RowStatuses]
    /\ needing \subseteq Tasks
    /\ released \in [tasks : SUBSET Tasks, must : SUBSET Tasks]
    /\ uploader \in [Evidences -> Users \cup {None}]
    /\ inspector \in [Inspections -> Users \cup {None}]
    /\ disposed \subseteq Findings
    /\ outside \subseteq {"MATERIAL", "COMPLIANCE"}
    /\ session \in [Sessions -> Session]

Proven(t) == \E e \in Evidences : Exists(e) /\ TaskOf[e] = t

(* What a session holds while it waits to use it; a category found clear by a
   closing request stays clear for the tasks it saw where it cannot return.  *)
SessionsOK ==
    \A s \in Sessions :
       /\ At(s, "gate") => session[s].target \in {"INSPECTION", "COMPLETED"}
       /\ At(s, "readiness") => session[s].judged < Len(Categories)
       /\ At(s, "writeStatus") => session[s].target \in OrderStatuses
       /\ At(s, "createTask") => session[s].row \in Tasks /\ session[s].target \in TaskStates
       /\ At(s, "updateTask") => session[s].row \in Tasks
       /\ At(s, "writeRow") => /\ session[s].row \in Rows
                              /\ Exists(session[s].row)
                              /\ session[s].target \in RowStatuses \ {"ABSENT"}
                              /\ (session[s].row \in Tasks => session[s].target = "COMPLETED")
       /\ session[s].at \in {"independence", "writeInspection"} =>
             session[s].row \in Inspections
       /\ session[s].at \in {"writeDisposition", "closeFinding"} =>
             session[s].row \in Findings
       /\ At(s, "writeStatus") /\ session[s].target = "CLOSED" =>
             session[s].judged = Len(Categories)
       /\ session[s].judged > 0 => \A t \in session[s].seen : row[t] = "COMPLETED"
       /\ session[s].judged > 1 => \A t \in session[s].must : Proven(t)

(* "TASK_EXECUTION" and "EVIDENCE" (a task that declares evidence_required has
   some): what the gate in front of CLOSED has seen of the tasks stays true of
   them for good, whatever runs between its SELECTs and afterwards.         *)
ReleasedTasksDone ==
    /\ \A t \in released.tasks : row[t] = "COMPLETED"
    /\ \A t \in released.must : Proven(t)

ReleaseInv == TypeOK /\ SessionsOK /\ ReleasedTasksDone
=============================================================================
