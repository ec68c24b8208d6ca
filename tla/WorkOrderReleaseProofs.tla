----------------------- MODULE WorkOrderReleaseProofs -----------------------
(* Theorems about WorkOrderRelease, for every set of rows and requests.    *)
(*                                                                         *)
(* Overlapping operations: none takes a task out of COMPLETED or deletes a *)
(* row (Monotone), so what a closing request's first two SELECTs found     *)
(* clear is still true when it commits, and remains so.                    *)
(*                                                                         *)
(* One operation at a time: what the one request in progress has checked   *)
(* is true of the rows until it commits, so a gate is as good as atomic.   *)
EXTENDS MCWorkOrderRelease, TLAPS

(* SessionsOK for the state v of one session and the rows rw. *)
Holds(v, rw) ==
    /\ v.at = "gate" => v.target \in {"INSPECTION", "COMPLETED"}
    /\ v.at = "readiness" => v.judged < Len(Categories)
    /\ v.at = "writeStatus" => v.target \in OrderStatuses
    /\ v.at = "createTask" => v.row \in Tasks /\ v.target \in TaskStates
    /\ v.at = "updateTask" => v.row \in Tasks
    /\ v.at = "writeRow" => /\ v.row \in Rows /\ rw[v.row] # "ABSENT"
                            /\ v.target \in RowStatuses \ {"ABSENT"}
                            /\ (v.row \in Tasks => v.target = "COMPLETED")
    /\ v.at \in {"independence", "writeInspection"} => v.row \in Inspections
    /\ v.at \in {"writeDisposition", "closeFinding"} => v.row \in Findings
    /\ v.at = "writeStatus" /\ v.target = "CLOSED" => v.judged = Len(Categories)
    /\ v.judged > 0 => \A t \in v.seen : rw[t] = "COMPLETED"
    /\ v.judged > 1 => \A t \in v.must : \E e \in Evidences : rw[e] # "ABSENT" /\ TaskOf[e] = t

(* Rows stay, and completed tasks stay completed. *)
Monotone(old, new) ==
    /\ \A r \in Rows : old[r] # "ABSENT" => new[r] # "ABSENT"
    /\ \A t \in Tasks : old[t] = "COMPLETED" => new[t] = "COMPLETED"

LEMMA SessionsHold == SessionsOK <=> \A s \in Sessions : Holds(session[s], row)
  BY DEF SessionsOK, Holds, At, Exists, Proven

LEMMA SessionsHoldNext ==
    (\A s \in Sessions : Holds(session'[s], row')) => SessionsOK'
  BY DEF SessionsOK, Holds, At, Exists, Proven

(* What a session holds survives what the others do. *)
LEMMA HoldsKept ==
    ASSUME NEW v \in Session, NEW old, NEW new, Holds(v, old), Monotone(old, new)
    PROVE  Holds(v, new)
  <1>1. ASSUME v.at = "writeRow" PROVE new[v.row] # "ABSENT"
    BY <1>1 DEF Holds, Monotone
  <1>2. ASSUME v.judged > 0 PROVE \A t \in v.seen : new[t] = "COMPLETED"
    BY <1>2 DEF Holds, Monotone, Session
  <1>3. ASSUME v.judged > 1
        PROVE  \A t \in v.must : \E e \in Evidences : new[e] # "ABSENT" /\ TaskOf[e] = t
    BY <1>3 DEF Holds, Monotone, Rows
  <1>4. QED BY <1>1, <1>2, <1>3 DEF Holds

(* One session moves, the rows move monotonically: what all sessions hold is true. *)
LEMMA OneSessionMoves ==
    ASSUME NEW s \in Sessions, NEW v \in Session, NEW old, NEW new,
           NEW ss \in [Sessions -> Session], NEW ss2,
           \A x \in Sessions : Holds(ss[x], old), Monotone(old, new),
           ss2 = [ss EXCEPT ![s] = v], Holds(v, new)
    PROVE  /\ ss2 \in [Sessions -> Session]
           /\ \A x \in Sessions : Holds(ss2[x], new)
  <1>1. ASSUME NEW x \in Sessions, x # s PROVE Holds(ss2[x], new)
    <2>1. ss2[x] = ss[x] BY <1>1
    <2>2. Holds(ss[x], new) BY HoldsKept
    <2> QED BY <2>1, <2>2
  <1>2. QED BY <1>1

Status == RowStatuses \cup OrderStatuses

LEMMA RequestOK ==
    ASSUME NEW phase \in Phases, NEW r \in Rows \cup {None}, NEW loaded \in Status,
           NEW target \in Status, NEW user \in Users \cup {None}
    PROVE  /\ Request(phase, r, loaded, target, user) \in Session
           /\ Request(phase, r, loaded, target, user).at = phase
           /\ Request(phase, r, loaded, target, user).row = r
           /\ Request(phase, r, loaded, target, user).target = target
           /\ Request(phase, r, loaded, target, user).judged = 0
  BY DEF Request, Session, Status, Categories

LEMMA DoneHolds == Done \in Session /\ \A rw : Holds(Done, rw)
  <1>1. "ABSENT" \in Status /\ "done" \in Phases BY DEF Status, RowStatuses, Phases
  <1>2. Done \in Session /\ Done.at = "done" /\ Done.judged = 0
    BY <1>1, RequestOK DEF Done
  <1>3. QED BY <1>2 DEF Holds

LEMMA StatusesOK ==
    /\ EvidenceStatuses \cup InspectionStatuses \cup TaskStates \cup FindingStatuses
         \subseteq RowStatuses \ {"ABSENT"}
    /\ RowStatuses \cup OrderStatuses \subseteq Status
  BY DEF EvidenceStatuses, InspectionStatuses, TaskStates, FindingStatuses, RowStatuses, Status
-----------------------------------------------------------------------------
(* An operation that only moves its own session, to v. *)
LEMMA OnlySessionMoves ==
    ASSUME ReleaseInv, NEW s \in Sessions, NEW v \in Session, Holds(v, row), Goto(s, v),
           UNCHANGED <<order, rows, released>>
    PROVE  ReleaseInv'
  <1>1. /\ session \in [Sessions -> Session]
        /\ \A x \in Sessions : Holds(session[x], row)
    BY SessionsHold DEF ReleaseInv, TypeOK
  <1>2. Monotone(row, row) /\ row' = row BY DEF Monotone, rows
  <1>3. session' \in [Sessions -> Session] /\ \A x \in Sessions : Holds(session'[x], row)
    BY <1>1, <1>2, OneSessionMoves DEF Goto
  <1>4. TypeOK' BY <1>3 DEF ReleaseInv, TypeOK, rows
  <1>5. SessionsOK' BY <1>2, <1>3, SessionsHoldNext
  <1>6. ReleasedTasksDone' BY DEF ReleaseInv, ReleasedTasksDone, rows, Proven, Exists
  <1>7. QED BY <1>4, <1>5, <1>6 DEF ReleaseInv

(* An operation that ends with its commit, or an insert outside any session. *)
LEMMA RowsMove ==
    ASSUME ReleaseInv, \/ session' = session
                       \/ \E s \in Sessions : End(s),
           row' \in [Rows -> RowStatuses], Monotone(row, row'), order' \in Order,
           needing' \subseteq Tasks, uploader' \in [Evidences -> Users \cup {None}],
           inspector' \in [Inspections -> Users \cup {None}], disposed' \subseteq Findings,
           outside' \subseteq {"MATERIAL", "COMPLIANCE"}, released' = released
    PROVE  ReleaseInv'
  <1>1. /\ session \in [Sessions -> Session]
        /\ \A x \in Sessions : Holds(session[x], row)
    BY SessionsHold DEF ReleaseInv, TypeOK
  <1>2. session' \in [Sessions -> Session] /\ \A x \in Sessions : Holds(session'[x], row')
    <2>1. CASE session' = session
      <3> SUFFICES ASSUME NEW x \in Sessions PROVE Holds(session[x], row')
        BY <1>1, <2>1
      <3> QED BY <1>1, HoldsKept
    <2>2. ASSUME NEW s \in Sessions, End(s)
          PROVE  session' \in [Sessions -> Session] /\ \A x \in Sessions : Holds(session'[x], row')
      BY <1>1, <2>2, DoneHolds, OneSessionMoves DEF End, Goto
    <2>3. QED BY <2>1, <2>2
  <1>3. TypeOK' BY <1>2 DEF ReleaseInv, TypeOK
  <1>4. SessionsOK' BY <1>2, SessionsHoldNext
  <1>5. ReleasedTasksDone'
    <2>1. released.tasks \subseteq Tasks /\ released.must \subseteq Tasks
      BY DEF ReleaseInv, TypeOK
    <2>2. \A e \in Evidences : Exists(e) => Exists(e)'
      BY DEF Monotone, Exists, Rows
    <2>3. QED BY <2>1, <2>2 DEF ReleaseInv, ReleasedTasksDone, Proven, Monotone
  <1>6. QED BY <1>3, <1>4, <1>5 DEF ReleaseInv
-----------------------------------------------------------------------------
LEMMA ArriveOK ==
    ASSUME ReleaseInv, NEW s \in Sessions, Arrive(s)
    PROVE  ReleaseInv'
  <1> USE DEF ReleaseInv
  <1>1. /\ order \in Order /\ row \in [Rows -> RowStatuses]
        /\ "ABSENT" \in Status /\ None \in Rows \cup {None} /\ None \in Users \cup {None}
    BY DEF TypeOK, Status, RowStatuses
  <1>2. order.status \in Status BY <1>1 DEF Order, Status
  <1>3. \A r \in Rows : row[r] \in Status BY <1>1, StatusesOK
  <1>4. ASSUME NEW target \in OrderStatuses, StartTransition(s, target) PROVE ReleaseInv'
    <2> DEFINE phase == CASE target \in {"INSPECTION", "COMPLETED"} -> "gate"
                          [] target = "CLOSED" -> "readiness"
                          [] OTHER -> "writeStatus"
               v == Request(phase, None, order.status, target, None)
    <2>1. /\ phase \in Phases
          /\ phase = "gate" => target \in {"INSPECTION", "COMPLETED"}
          /\ phase = "writeStatus" => target # "CLOSED"
          /\ phase \in {"gate", "readiness", "writeStatus"}
      BY DEF Phases
    <2>2. target \in Status BY DEF Status
    <2> HIDE DEF phase
    <2>3. v \in Session /\ v.at = phase /\ v.target = target /\ v.judged = 0
      BY <1>1, <1>2, <2>1, <2>2, RequestOK
    <2> HIDE DEF v
    <2>4. Holds(v, row) BY <2>1, <2>3 DEF Holds, Categories
    <2>5. Goto(s, v) /\ UNCHANGED <<order, rows, released>>
      BY <1>4 DEF StartTransition, v, phase
    <2>6. QED BY <2>3, <2>4, <2>5, OnlySessionMoves
  <1>5. ASSUME StartAssign(s) PROVE ReleaseInv'
    <2> DEFINE v == Request("writeAssigned", None, order.status, "ABSENT", None)
    <2>0. "writeAssigned" \in Phases BY DEF Phases
    <2>1. v \in Session /\ v.at = "writeAssigned" /\ v.judged = 0
      BY <1>1, <1>2, <2>0, RequestOK, SMTT(30)
    <2> HIDE DEF v
    <2>2. Holds(v, row) BY <2>1 DEF Holds
    <2>3. Goto(s, v) /\ UNCHANGED <<order, rows, released>> BY <1>5 DEF StartAssign, v
    <2>4. QED BY <2>1, <2>2, <2>3, OnlySessionMoves
  <1>6. ASSUME NEW t \in Tasks, NEW state \in TaskStates, StartCreateTask(s, t, state)
        PROVE  ReleaseInv'
    <2> DEFINE v == Request("createTask", t, "ABSENT", state, None)
    <2>1. /\ v \in Session /\ v.at = "createTask" /\ v.judged = 0
          /\ v.row = t /\ v.target = state
      BY <1>1, StatusesOK, RequestOK DEF Phases, Rows
    <2> HIDE DEF v
    <2>2. Holds(v, row) BY <2>1 DEF Holds
    <2>3. Goto(s, v) /\ UNCHANGED <<order, rows, released>> BY <1>6 DEF StartCreateTask, v
    <2>4. QED BY <2>1, <2>2, <2>3, OnlySessionMoves
  <1>7. ASSUME NEW t \in Tasks, StartUpdateTask(s, t) PROVE ReleaseInv'
    <2> DEFINE v == Request("updateTask", t, "ABSENT", "ABSENT", None)
    <2>1. v \in Session /\ v.at = "updateTask" /\ v.judged = 0 /\ v.row = t
      BY <1>1, RequestOK DEF Phases, Rows
    <2> HIDE DEF v
    <2>2. Holds(v, row) BY <2>1 DEF Holds
    <2>3. Goto(s, v) /\ UNCHANGED <<order, rows, released>> BY <1>7 DEF StartUpdateTask, v
    <2>4. QED BY <2>1, <2>2, <2>3, OnlySessionMoves
  <1>8. ASSUME NEW t \in Tasks, StartCompleteTask(s, t) PROVE ReleaseInv'
    <2> DEFINE v == Request("writeRow", t, row[t], "COMPLETED", None)
    <2>1. "COMPLETED" \in RowStatuses \ {"ABSENT"} /\ "COMPLETED" \in Status
      BY DEF RowStatuses, TaskStates, Status
    <2>2. t \in Rows /\ row[t] # "ABSENT" BY <1>8 DEF StartCompleteTask, Rows
    <2>3. /\ v \in Session /\ v.at = "writeRow" /\ v.judged = 0
          /\ v.row = t /\ v.target = "COMPLETED"
      BY <1>1, <1>3, <2>1, <2>2, RequestOK DEF Phases
    <2> HIDE DEF v
    <2>4. Holds(v, row) BY <2>1, <2>2, <2>3 DEF Holds
    <2>5. Goto(s, v) /\ UNCHANGED <<order, rows, released>> BY <1>8 DEF StartCompleteTask, v
    <2>6. QED BY <2>3, <2>4, <2>5, OnlySessionMoves
  <1>9. ASSUME NEW e \in Evidences, NEW target \in EvidenceStatuses, StartEvidence(s, e, target)
        PROVE  ReleaseInv'
    <2> DEFINE v == Request("writeRow", e, row[e], target, None)
    <2>1. target \in RowStatuses \ {"ABSENT"} /\ target \in Status BY StatusesOK
    <2>2. e \in Rows /\ e \notin Tasks /\ row[e] # "ABSENT"
      BY <1>9, ReleaseAssumption DEF StartEvidence, Rows, Exists
    <2>3. /\ v \in Session /\ v.at = "writeRow" /\ v.judged = 0
          /\ v.row = e /\ v.target = target
      BY <1>1, <1>3, <2>1, <2>2, RequestOK DEF Phases
    <2> HIDE DEF v
    <2>4. Holds(v, row) BY <2>1, <2>2, <2>3 DEF Holds
    <2>5. Goto(s, v) /\ UNCHANGED <<order, rows, released>> BY <1>9 DEF StartEvidence, v
    <2>6. QED BY <2>3, <2>4, <2>5, OnlySessionMoves
  <1>10. ASSUME NEW i \in Inspections, NEW target \in InspectionStatuses, NEW u \in Users,
                StartInspection(s, i, target, u)
         PROVE  ReleaseInv'
    <2> DEFINE phase == CASE target # "COMPLETED" -> "writeRow"
                          [] target = "COMPLETED" /\ i \in Required -> "independence"
                          [] OTHER -> "writeInspection"
               user == IF target = "COMPLETED" THEN u ELSE None
               v == Request(phase, i, row[i], target, user)
    <2>1. phase \in {"writeRow", "independence", "writeInspection"} /\ phase \in Phases
      BY DEF Phases
    <2>2. target \in RowStatuses \ {"ABSENT"} /\ target \in Status /\ user \in Users \cup {None}
      BY StatusesOK
    <2>3. i \in Rows /\ i \notin Tasks /\ row[i] # "ABSENT"
      BY <1>10, ReleaseAssumption DEF StartInspection, Rows, Exists
    <2> HIDE DEF phase, user
    <2>4. /\ v \in Session /\ v.at = phase /\ v.judged = 0
          /\ v.row = i /\ v.target = target
      BY <1>1, <1>3, <2>1, <2>2, <2>3, RequestOK
    <2> HIDE DEF v
    <2>5. Holds(v, row) BY <2>1, <2>2, <2>3, <2>4 DEF Holds
    <2>6. Goto(s, v) /\ UNCHANGED <<order, rows, released>>
      BY <1>10 DEF StartInspection, v, phase, user
    <2>7. QED BY <2>4, <2>5, <2>6, OnlySessionMoves
  <1>11. ASSUME NEW f \in Findings, NEW phase \in {"writeDisposition", "closeFinding"},
                StartFinding(s, f, phase)
         PROVE  ReleaseInv'
    <2> DEFINE v == Request(phase, f, row[f], "ABSENT", None)
    <2>1. phase \in Phases /\ f \in Rows BY DEF Phases, Rows
    <2>2. v \in Session /\ v.at = phase /\ v.judged = 0 /\ v.row = f
      BY <1>1, <1>3, <2>1, RequestOK
    <2> HIDE DEF v
    <2>3. Holds(v, row) BY <2>2 DEF Holds
    <2>4. Goto(s, v) /\ UNCHANGED <<order, rows, released>> BY <1>11 DEF StartFinding, v
    <2>5. QED BY <2>2, <2>3, <2>4, OnlySessionMoves
  <1>12. QED
    BY <1>4, <1>5, <1>6, <1>7, <1>8, <1>9, <1>10, <1>11 DEF Arrive
-----------------------------------------------------------------------------
LEMMA JudgeOK ==
    ASSUME ReleaseInv, NEW s \in Sessions, Judge(s)
    PROVE  ReleaseInv'
  <1> DEFINE n    == session[s].judged + 1
             seen == IF n = 1 THEN { t \in Tasks : Exists(t) } ELSE session[s].seen
             must == IF n = 1 THEN needing \cap seen ELSE session[s].must
             v    == [at |-> IF n = Len(Categories) THEN "writeStatus" ELSE "readiness",
                      row |-> None, loaded |-> session[s].loaded, target |-> "CLOSED",
                      user |-> None, seen |-> seen, must |-> must, judged |-> n]
  <1>1. /\ session[s] \in Session /\ Holds(session[s], row) /\ needing \subseteq Tasks
        /\ session[s].at = "readiness"
    BY SessionsHold DEF ReleaseInv, TypeOK, Judge, At
  <1>2. Len(Categories) = 6 BY DEF Categories
  <1>3. session[s].judged \in 0..5 /\ n \in 1..6
    <2>1. session[s].judged \in 0..6 BY <1>1, <1>2 DEF Session
    <2>2. session[s].judged < 6 BY <1>1, <1>2 DEF Holds
    <2>3. QED BY <2>1, <2>2
  <1>4. CASE Blocks(Categories[n], seen, must)
    <2>1. Goto(s, Done) /\ UNCHANGED <<order, rows, released>> BY <1>4 DEF Judge, End
    <2>2. QED BY <2>1, DoneHolds, OnlySessionMoves
  <1>5. CASE ~Blocks(Categories[n], seen, must)
    <2>1. Goto(s, v) /\ UNCHANGED <<order, rows, released>> BY <1>5 DEF Judge
    <2>2. seen \subseteq Tasks /\ must \subseteq Tasks BY <1>1 DEF Session
    <2>3. \A t \in seen : row[t] = "COMPLETED"
      <3>1. CASE n = 1
        <4>1. Categories[n] = "TASK_EXECUTION" BY <3>1 DEF Categories
        <4>2. QED BY <1>5, <4>1 DEF Blocks
      <3>2. CASE n # 1 BY <1>1, <1>3, <3>2 DEF Holds
      <3>3. QED BY <3>1, <3>2
    <2>4. ASSUME n > 1
          PROVE  \A t \in must : \E e \in Evidences : row[e] # "ABSENT" /\ TaskOf[e] = t
      <3>1. CASE n = 2
        <4>1. Categories[n] = "EVIDENCE" BY <3>1 DEF Categories
        <4>2. QED BY <1>5, <4>1 DEF Blocks, Exists
      <3>2. CASE n # 2 BY <1>1, <1>3, <2>4, <3>2 DEF Holds
      <3>3. QED BY <3>1, <3>2
    <2>5. /\ v \in Session /\ v.judged = n /\ v.seen = seen /\ v.must = must
          /\ v.target = "CLOSED" /\ v.at = IF n = 6 THEN "writeStatus" ELSE "readiness"
      <3>1. {"writeStatus", "readiness"} \subseteq Phases BY DEF Phases
      <3>2. "CLOSED" \in OrderStatuses BY DEF OrderStatuses
      <3> HIDE DEF seen, must, n
      <3>3. QED BY <1>1, <1>2, <1>3, <2>2, <3>1, <3>2 DEF Session
    <2>6. Holds(v, row)
      <3>1. "CLOSED" \in OrderStatuses BY DEF OrderStatuses
      <3> HIDE DEF v, seen, must, n
      <3>2. QED BY <1>2, <1>3, <2>3, <2>4, <2>5, <3>1 DEF Holds
    <2> HIDE DEF v
    <2>7. QED BY <2>1, <2>5, <2>6, OnlySessionMoves
  <1>6. QED BY <1>4, <1>5

LEMMA WriteStatusOK ==
    ASSUME ReleaseInv, NEW s \in Sessions, WriteStatus(s)
    PROVE  ReleaseInv'
  <1>1. /\ session \in [Sessions -> Session] /\ session[s].at = "writeStatus"
        /\ \A x \in Sessions : Holds(session[x], row)
    BY SessionsHold DEF ReleaseInv, TypeOK, WriteStatus, At
  <1>2. row' = row /\ Monotone(row, row') BY DEF WriteStatus, rows, Monotone
  <1>3. session' \in [Sessions -> Session] /\ \A x \in Sessions : Holds(session'[x], row')
    BY <1>1, <1>2, DoneHolds, OneSessionMoves DEF WriteStatus, End, Goto
  <1>4. session[s] \in Session /\ Holds(session[s], row) BY <1>1
  <1>5. order' \in Order BY <1>1, <1>4 DEF WriteStatus, ReleaseInv, TypeOK, Order, Holds
  <1>6. CASE session[s].target = "CLOSED"
    <2>1. session[s].judged = 6 BY <1>1, <1>4, <1>6 DEF Holds, Categories
    <2>2. /\ \A t \in session[s].seen : row[t] = "COMPLETED"
          /\ \A t \in session[s].must : \E e \in Evidences : row[e] # "ABSENT" /\ TaskOf[e] = t
      BY <1>4, <2>1 DEF Holds
    <2>3. released' = [tasks |-> session[s].seen, must |-> session[s].must]
      BY <1>6 DEF WriteStatus
    <2>4. released' \in [tasks : SUBSET Tasks, must : SUBSET Tasks] BY <1>4, <2>3 DEF Session
    <2>5. ReleasedTasksDone'
      BY <1>2, <2>2, <2>3 DEF ReleasedTasksDone, Proven, Exists
    <2>6. TypeOK' BY <1>3, <1>5, <2>4 DEF ReleaseInv, TypeOK, WriteStatus, rows
    <2>7. QED BY <1>3, <2>5, <2>6, SessionsHoldNext DEF ReleaseInv
  <1>7. CASE session[s].target # "CLOSED"
    <2>1. released' = released BY <1>7 DEF WriteStatus
    <2>2. TypeOK' BY <1>3, <1>5, <2>1 DEF ReleaseInv, TypeOK, WriteStatus, rows
    <2>3. ReleasedTasksDone' BY <1>2, <2>1 DEF ReleaseInv, ReleasedTasksDone, Proven, Exists
    <2>4. QED BY <1>3, <2>2, <2>3, SessionsHoldNext DEF ReleaseInv
  <1>8. QED BY <1>6, <1>7

(* An operation that changes the status of row r only, to st. *)
LEMMA OneRowMoves ==
    ASSUME ReleaseInv, NEW r \in Rows, NEW st \in RowStatuses \ {"ABSENT"},
           row[r] = "COMPLETED" /\ r \in Tasks => st = "COMPLETED",
           row' = [row EXCEPT ![r] = st] \/ row' = row
    PROVE  row' \in [Rows -> RowStatuses] /\ Monotone(row, row')
  BY DEF ReleaseInv, TypeOK, Monotone, Rows

LEMMA ContinueOK ==
    ASSUME ReleaseInv, NEW s \in Sessions, Continue(s)
    PROVE  ReleaseInv'
  <1> DEFINE h == session[s]
  <1>1. /\ h \in Session /\ Holds(h, row) /\ TypeOK
    BY SessionsHold DEF ReleaseInv, TypeOK
  <1>2. ASSUME NEW phase \in {"writeStatus", "writeInspection"},
               Step(s, phase), UNCHANGED <<order, rows, released>>,
               \/ /\ phase = "writeStatus" /\ h.target \in {"INSPECTION", "COMPLETED"}
               \/ /\ phase = "writeInspection" /\ h.row \in Inspections
        PROVE  ReleaseInv'
    <2> DEFINE v == [at |-> phase, row |-> h.row, loaded |-> h.loaded, target |-> h.target,
                     user |-> h.user, seen |-> h.seen, must |-> h.must, judged |-> h.judged]
    <2>1. phase \in Phases /\ {"INSPECTION", "COMPLETED"} \subseteq OrderStatuses
      BY DEF Phases, OrderStatuses
    <2>2. v \in Session /\ v.at = phase /\ v.row = h.row /\ v.target = h.target
          /\ v.judged = h.judged /\ v.seen = h.seen /\ v.must = h.must
      BY <1>1, <2>1 DEF Session
    <2>3. [h EXCEPT !.at = phase] = v BY <1>1 DEF Session
    <2>4. Goto(s, v) BY <1>1, <1>2, <2>3 DEF Step, Goto, TypeOK
    <2> HIDE DEF v, h
    <2>5. Holds(v, row) BY <1>1, <1>2, <2>1, <2>2 DEF Holds
    <2>6. QED BY <1>2, <2>2, <2>4, <2>5, OnlySessionMoves
  <1>3. ASSUME Goto(s, Done), UNCHANGED <<order, rows, released>> PROVE ReleaseInv'
    BY <1>3, DoneHolds, OnlySessionMoves
  <1>4. ASSUME CheckGate(s) PROVE ReleaseInv'
    <2>1. h.target \in {"INSPECTION", "COMPLETED"} BY <1>1, <1>4 DEF CheckGate, At, Holds
    <2>2. QED BY <1>2, <1>3, <1>4, <2>1 DEF CheckGate, End
  <1>5. ASSUME CheckIndependence(s) PROVE ReleaseInv'
    <2>1. h.row \in Inspections BY <1>1, <1>5 DEF CheckIndependence, At, Holds
    <2>2. QED BY <1>2, <1>3, <1>5, <2>1 DEF CheckIndependence, End
  <1>6. ASSUME WriteAssigned(s) PROVE ReleaseInv'
    <2>1. order' \in Order BY <1>1, <1>6 DEF WriteAssigned, TypeOK, Order, OrderStatuses
    <2>2. Monotone(row, row') BY <1>6 DEF WriteAssigned, rows, Monotone
    <2>3. QED BY <1>1, <1>6, <2>1, <2>2, RowsMove DEF WriteAssigned, rows, TypeOK
  <1>7. ASSUME CreateTask(s) PROVE ReleaseInv'
    <2>1. /\ h.row \in Rows /\ h.row \in Tasks /\ row[h.row] = "ABSENT"
          /\ h.target \in RowStatuses \ {"ABSENT"}
      BY <1>1, <1>7, StatusesOK DEF CreateTask, At, Holds, Exists, Rows
    <2>2. row' \in [Rows -> RowStatuses] /\ Monotone(row, row')
      BY <1>7, <2>1, OneRowMoves DEF CreateTask
    <2>3. needing' \subseteq Tasks BY <1>1, <1>7, <2>1 DEF CreateTask, TypeOK
    <2>4. QED BY <1>1, <1>7, <2>2, <2>3, RowsMove DEF CreateTask, TypeOK
  <1>8. ASSUME UpdateTask(s) PROVE ReleaseInv'
    <2>1. h.row \in Tasks BY <1>1, <1>8 DEF UpdateTask, At, Holds
    <2>2. needing' \subseteq Tasks BY <1>1, <1>8, <2>1 DEF UpdateTask, TypeOK
    <2>3. Monotone(row, row') BY <1>8 DEF UpdateTask, Monotone
    <2>4. QED BY <1>1, <1>8, <2>2, <2>3, RowsMove DEF UpdateTask, TypeOK
  <1>9. ASSUME WriteRow(s) PROVE ReleaseInv'
    <2>1. /\ h.row \in Rows /\ h.target \in RowStatuses \ {"ABSENT"}
          /\ (h.row \in Tasks => h.target = "COMPLETED")
      BY <1>1, <1>9 DEF WriteRow, At, Holds
    <2>2. row' = [row EXCEPT ![h.row] = h.target] \/ row' = row BY <1>9 DEF WriteRow
    <2>3. row' \in [Rows -> RowStatuses] /\ Monotone(row, row')
      BY <2>1, <2>2, OneRowMoves
    <2>4. QED BY <1>1, <1>9, <2>3, RowsMove DEF WriteRow, TypeOK
  <1>10. ASSUME WriteInspection(s) PROVE ReleaseInv'
    <2>1. h.row \in Inspections /\ h.row \in Rows
      BY <1>1, <1>10 DEF WriteInspection, At, Holds, Rows
    <2>2. "COMPLETED" \in RowStatuses \ {"ABSENT"} BY DEF RowStatuses, TaskStates
    <2>3. row' \in [Rows -> RowStatuses] /\ Monotone(row, row')
      BY <1>10, <2>1, <2>2, OneRowMoves DEF WriteInspection
    <2>4. inspector' \in [Inspections -> Users \cup {None}]
      BY <1>1, <1>10 DEF WriteInspection, TypeOK, Session
    <2>5. QED BY <1>1, <1>10, <2>3, <2>4, RowsMove DEF WriteInspection, TypeOK
  <1>11. ASSUME WriteDisposition(s) PROVE ReleaseInv'
    <2>1. h.row \in Findings /\ h.row \in Rows /\ h.row \notin Tasks
      BY <1>1, <1>11, ReleaseAssumption DEF WriteDisposition, At, Holds, Rows
    <2>2. "IN_PROGRESS" \in RowStatuses \ {"ABSENT"} BY DEF RowStatuses, TaskStates
    <2>3. row' \in [Rows -> RowStatuses] /\ Monotone(row, row')
      BY <1>11, <2>1, <2>2, OneRowMoves DEF WriteDisposition
    <2>4. disposed' \subseteq Findings BY <1>1, <1>11, <2>1 DEF WriteDisposition, TypeOK
    <2>5. QED BY <1>1, <1>11, <2>3, <2>4, RowsMove DEF WriteDisposition, TypeOK
  <1>12. ASSUME CloseFinding(s) PROVE ReleaseInv'
    <2>1. h.row \in Findings /\ h.row \in Rows /\ h.row \notin Tasks
      BY <1>1, <1>12, ReleaseAssumption DEF CloseFinding, At, Holds, Rows
    <2>2. "CLOSED" \in RowStatuses \ {"ABSENT"} BY DEF RowStatuses, FindingStatuses
    <2>3. row' \in [Rows -> RowStatuses] /\ Monotone(row, row')
      BY <1>12, <2>1, <2>2, OneRowMoves DEF CloseFinding
    <2>4. QED BY <1>1, <1>12, <2>3, RowsMove DEF CloseFinding, TypeOK
  <1>13. QED
    BY <1>4, <1>5, <1>6, <1>7, <1>8, <1>9, <1>10, <1>11, <1>12, JudgeOK, WriteStatusOK
       DEF Continue

LEMMA InsertOK ==
    ASSUME ReleaseInv, Insert
    PROVE  ReleaseInv'
  <1>1. TypeOK BY DEF ReleaseInv
  <1>2. ASSUME NEW e \in Evidences, NEW u \in Users, CreateEvidence(e, u) PROVE ReleaseInv'
    <2>1. e \in Rows /\ row[e] = "ABSENT" BY <1>2 DEF CreateEvidence, Exists, Rows
    <2>2. "UPLOADED" \in RowStatuses \ {"ABSENT"} BY DEF RowStatuses, EvidenceStatuses
    <2>3. row' \in [Rows -> RowStatuses] /\ Monotone(row, row')
      BY <1>2, <2>1, <2>2, OneRowMoves DEF CreateEvidence
    <2>4. uploader' \in [Evidences -> Users \cup {None}]
      BY <1>1, <1>2 DEF CreateEvidence, TypeOK
    <2>5. QED BY <1>1, <1>2, <2>3, <2>4, RowsMove DEF CreateEvidence, TypeOK
  <1>3. ASSUME NEW i \in Inspections, CreateInspection(i) PROVE ReleaseInv'
    <2>1. i \in Rows /\ row[i] = "ABSENT" BY <1>3 DEF CreateInspection, Exists, Rows
    <2>2. "PENDING" \in RowStatuses \ {"ABSENT"} BY DEF RowStatuses, TaskStates
    <2>3. row' \in [Rows -> RowStatuses] /\ Monotone(row, row')
      BY <1>3, <2>1, <2>2, OneRowMoves DEF CreateInspection
    <2>4. QED BY <1>1, <1>3, <2>3, RowsMove DEF CreateInspection, TypeOK
  <1>4. ASSUME NEW f \in Findings, CreateFinding(f) PROVE ReleaseInv'
    <2>1. f \in Rows /\ row[f] = "ABSENT" BY <1>4 DEF CreateFinding, Exists, Rows
    <2>2. "OPEN" \in RowStatuses \ {"ABSENT"} BY DEF RowStatuses, FindingStatuses
    <2>3. row' \in [Rows -> RowStatuses] /\ Monotone(row, row')
      BY <1>4, <2>1, <2>2, OneRowMoves DEF CreateFinding
    <2>4. QED BY <1>1, <1>4, <2>3, RowsMove DEF CreateFinding, TypeOK
  <1>5. ASSUME NEW category \in {"MATERIAL", "COMPLIANCE"}, OutsideChanges(category)
        PROVE  ReleaseInv'
    <2>1. outside' \subseteq {"MATERIAL", "COMPLIANCE"}
      BY <1>1, <1>5 DEF OutsideChanges, TypeOK
    <2>2. Monotone(row, row') BY <1>5 DEF OutsideChanges, Monotone
    <2>3. QED BY <1>1, <1>5, <2>1, <2>2, RowsMove DEF OutsideChanges, TypeOK
  <1>6. QED BY <1>2, <1>3, <1>4, <1>5 DEF Insert
-----------------------------------------------------------------------------
LEMMA InitOK == Init => ReleaseInv
  <1> SUFFICES ASSUME Init PROVE ReleaseInv OBVIOUS
  <1>1. order \in Order /\ row \in [Rows -> RowStatuses] BY ReleaseAssumption DEF Init
  <1>2. "idle" \in Phases /\ "ABSENT" \in Status BY DEF Phases, Status, RowStatuses
  <1>3. Idle \in Session /\ Idle.at = "idle" /\ Idle.judged = 0 BY <1>2, RequestOK DEF Idle
  <1>4. session \in [Sessions -> Session] BY <1>3 DEF Init
  <1>5. \A s \in Sessions : Holds(session[s], row)
    <2>1. Holds(Idle, row) BY <1>3 DEF Holds
    <2>2. QED BY <2>1 DEF Init
  <1>6. TypeOK BY <1>1, <1>4 DEF Init, TypeOK
  <1>7. ReleasedTasksDone BY DEF Init, ReleasedTasksDone
  <1>8. QED BY <1>5, <1>6, <1>7, SessionsHold DEF ReleaseInv

LEMMA NextOK == ReleaseInv /\ [Next]_vars => ReleaseInv'
  <1> SUFFICES ASSUME ReleaseInv, [Next]_vars PROVE ReleaseInv' OBVIOUS
  <1>1. CASE Insert BY <1>1, InsertOK
  <1>2. ASSUME NEW s \in Sessions, Arrive(s) \/ Continue(s) PROVE ReleaseInv'
    BY <1>2, ArriveOK, ContinueOK
  <1>3. ASSUME NEW s \in Sessions, Crash(s) PROVE ReleaseInv'
    <2>1. Goto(s, Done) /\ UNCHANGED <<order, rows, released>> BY <1>3 DEF Crash, End
    <2>2. QED BY <2>1, DoneHolds, OnlySessionMoves
  <1>4. CASE UNCHANGED vars
    BY <1>4 DEF vars, ReleaseInv, TypeOK, SessionsOK, ReleasedTasksDone, At, Exists, Proven
  <1>5. QED BY <1>1, <1>2, <1>3, <1>4 DEF Next

(* Whatever operations overlap and wherever they die: the tasks a close found
   completed, and the evidence it found for them, are there when it commits
   CLOSED and for good (release_readiness_service, transition_work_order).   *)
THEOREM ReleaseInvariant == Spec => []ReleaseInv
  <1>1. Init => ReleaseInv BY InitOK
  <1>2. ReleaseInv /\ [Next]_vars => ReleaseInv' BY NextOK
  <1>3. QED BY <1>1, <1>2, PTL DEF Spec
-----------------------------------------------------------------------------
(* A request that holds nothing. *)
Quiet(s) == session[s].at \in {"idle", "done"} /\ session[s].judged = 0

(* What a request found when it arrived or at its gate is so until it ends. *)
Checked(s) ==
    /\ session[s].at \notin {"readiness", "writeStatus"} => session[s].judged = 0
    /\ session[s].at \in {"gate", "readiness", "writeStatus"} => order.status # "CLOSED"
    /\ session[s].at \in {"createTask", "updateTask", "writeAssigned"} =>
          order.status \notin Terminal
    /\ session[s].at \in {"updateTask", "independence", "writeInspection",
                         "writeDisposition", "closeFinding"} => Exists(session[s].row)
    /\ At(s, "writeRow") /\ session[s].row \in Inspections => session[s].target # "COMPLETED"
    /\ At(s, "writeInspection") /\ session[s].row \in Required =>
          session[s].user \notin Executors(session[s].row)

(* A closing request has seen all there is, and found it clear so far. *)
Judged(s) ==
    session[s].judged > 0 =>
       /\ session[s].seen = { t \in Tasks : Exists(t) }
       /\ session[s].must = needing
       /\ \A k \in 1..session[s].judged :
             ~Blocks(Categories[k], session[s].seen, session[s].must)

(* The rows between two operations. *)
RowsAttached == \A x \in Evidences \cup Inspections : Exists(x) => Attachable(x)
NeedingExist == \A t \in needing : Exists(t)
ClosedDone == order.status = "CLOSED" => /\ \A t \in Tasks : row[t] \in {"ABSENT", "COMPLETED"}
                                         /\ \A t \in needing : Proven(t)
SerialRows == RowsAttached /\ NeedingExist /\ ClosedDone

SerialSessions ==
    /\ \A s, x \in Sessions : s = x \/ Quiet(s) \/ Quiet(x)
    /\ \A s \in Sessions : Checked(s) /\ Judged(s)

SerialInv == scenario = "serial" => SerialRows /\ SerialSessions

(* Every step of the scenarios keeps ReleaseInv, fresh requests included. *)
LEMMA ScenarioStepOK == ReleaseInv /\ [MCNext]_<<vars, scenario>> => ReleaseInv'
  <1> SUFFICES ASSUME ReleaseInv, [MCNext]_<<vars, scenario>> PROVE ReleaseInv' OBVIOUS
  <1>1. CASE [Next]_vars BY <1>1, NextOK
  <1>2. CASE SerialNext
    <2>1. ASSUME session' = [s \in Sessions |-> Idle], UNCHANGED <<order, rows, released>>
          PROVE  ReleaseInv'
      <3>1. Idle \in Session /\ Idle.at = "idle" /\ Idle.judged = 0
        <4>1. "idle" \in Phases /\ "ABSENT" \in Status BY DEF Phases, Status, RowStatuses
        <4>2. QED BY <4>1, RequestOK DEF Idle
      <3>2. \A rw : Holds(Idle, rw) BY <3>1 DEF Holds
      <3>3. SessionsOK' BY <2>1, <3>2, SessionsHoldNext
      <3>4. TypeOK' BY <2>1, <3>1 DEF ReleaseInv, TypeOK, rows
      <3>5. ReleasedTasksDone' BY <2>1 DEF ReleaseInv, ReleasedTasksDone, rows, Proven, Exists
      <3>6. QED BY <3>3, <3>4, <3>5 DEF ReleaseInv
    <2>2. QED BY <1>2, <2>1, InsertOK, ArriveOK, ContinueOK DEF SerialNext
  <1>3. QED BY <1>1, <1>2 DEF MCNext, vars

LEMMA ScenarioInvariant == MCSpec => []ReleaseInv
  <1>1. MCInit => ReleaseInv BY InitOK DEF MCInit
  <1>2. QED BY <1>1, ScenarioStepOK, PTL DEF MCSpec

(* Nothing else is in progress when a request arrives. *)
LEMMA AllQuiet ==
    ASSUME SerialSessions, AllDone
    PROVE  \A s \in Sessions : Quiet(s)
  BY DEF SerialSessions, AllDone, Checked, Quiet

(* The request that continues is the only one in progress. *)
LEMMA OthersQuiet ==
    ASSUME SerialSessions, NEW s \in Sessions, session[s].at \notin {"idle", "done"}
    PROVE  \A x \in Sessions : x # s => Quiet(x)
  BY DEF SerialSessions, Quiet

(* One request moves; the others hold nothing that could become untrue. *)
LEMMA OneActs ==
    ASSUME NEW s \in Sessions, \A x \in Sessions : x # s => Quiet(x),
           \A x \in Sessions : x # s => session'[x] = session[x],
           Checked(s)', Judged(s)'
    PROVE  SerialSessions'
  <1>1. \A x \in Sessions : x # s => Quiet(x)' BY DEF Quiet
  <1>2. ASSUME NEW x \in Sessions, Quiet(x)' PROVE Checked(x)' /\ Judged(x)'
    BY <1>2 DEF Quiet, Checked, Judged, At
  <1>3. QED BY <1>1, <1>2 DEF SerialSessions

(* The request ends. *)
LEMMA Ends ==
    ASSUME ReleaseInv, NEW s \in Sessions, End(s), \A x \in Sessions : x # s => Quiet(x)
    PROVE  SerialSessions'
  <1>1. session \in [Sessions -> Session] BY DEF ReleaseInv, TypeOK
  <1>2. session'[s].at = "done" /\ session'[s].judged = 0
    BY <1>1 DEF End, Goto, Done, Request
  <1>3. \A x \in Sessions : x # s => session'[x] = session[x] BY <1>1 DEF End, Goto
  <1>4. Checked(s)' /\ Judged(s)' BY <1>2 DEF Checked, Judged, At
  <1>5. QED BY <1>3, <1>4, OneActs

(* A request arrives, having checked what its guard says. *)
LEMMA Arrives ==
    ASSUME ReleaseInv, SerialSessions, AllDone, NEW s \in Sessions,
           NEW phase, NEW r, NEW loaded, NEW target, NEW user,
           Goto(s, Request(phase, r, loaded, target, user)),
           UNCHANGED <<order, rows, released>>,
           phase \in {"gate", "readiness", "writeStatus"} => order.status # "CLOSED",
           phase \in {"createTask", "updateTask", "writeAssigned"} =>
              order.status \notin Terminal,
           phase \in {"updateTask", "independence", "writeInspection", "writeDisposition",
                      "closeFinding"} => Exists(r),
           phase = "writeRow" /\ r \in Inspections => target # "COMPLETED",
           phase = "writeInspection" => r \notin Required
    PROVE  SerialSessions'
  <1>1. session \in [Sessions -> Session] BY DEF ReleaseInv, TypeOK
  <1>2. /\ session'[s].at = phase /\ session'[s].row = r /\ session'[s].target = target
        /\ session'[s].judged = 0
    BY <1>1 DEF Goto, Request
  <1>3. \A x \in Sessions : x # s => session'[x] = session[x] BY <1>1 DEF Goto
  <1>4. Checked(s)' BY <1>2 DEF Checked, At, rows, Exists
  <1>5. Judged(s)' BY <1>2 DEF Judged
  <1>6. QED BY <1>3, <1>4, <1>5, AllQuiet, OneActs

LEMMA ArriveSerially ==
    ASSUME ReleaseInv, SerialSessions, AllDone, NEW s \in Sessions, Arrive(s)
    PROVE  SerialSessions'
  <1>1. ASSUME NEW target \in OrderStatuses, StartTransition(s, target) PROVE SerialSessions'
    <2> DEFINE phase == CASE target \in {"INSPECTION", "COMPLETED"} -> "gate"
                          [] target = "CLOSED" -> "readiness"
                          [] OTHER -> "writeStatus"
    <2>1. phase \in {"gate", "readiness", "writeStatus"} OBVIOUS
    <2>2. order.status # "CLOSED" BY <1>1 DEF StartTransition, OrderTransitions
    <2>3. /\ Goto(s, Request(phase, None, order.status, target, None))
          /\ UNCHANGED <<order, rows, released>>
      BY <1>1 DEF StartTransition
    <2> HIDE DEF phase
    <2>4. QED BY <2>1, <2>2, <2>3, Arrives
  <1>2. ASSUME StartAssign(s) PROVE SerialSessions'
    BY <1>2, Arrives DEF StartAssign
  <1>3. ASSUME NEW t \in Tasks, NEW state \in TaskStates, StartCreateTask(s, t, state)
        PROVE  SerialSessions'
    BY <1>3, Arrives DEF StartCreateTask
  <1>4. ASSUME NEW t \in Tasks, StartUpdateTask(s, t) PROVE SerialSessions'
    BY <1>4, Arrives DEF StartUpdateTask
  <1>5. ASSUME NEW t \in Tasks, StartCompleteTask(s, t) PROVE SerialSessions'
    <2>1. t \notin Inspections BY ReleaseAssumption
    <2>2. QED BY <1>5, <2>1, Arrives DEF StartCompleteTask
  <1>6. ASSUME NEW e \in Evidences, NEW target \in EvidenceStatuses, StartEvidence(s, e, target)
        PROVE  SerialSessions'
    <2>1. target # "COMPLETED" BY DEF EvidenceStatuses
    <2>2. QED BY <1>6, <2>1, Arrives DEF StartEvidence
  <1>7. ASSUME NEW i \in Inspections, NEW target \in InspectionStatuses, NEW u \in Users,
               StartInspection(s, i, target, u)
        PROVE  SerialSessions'
    <2> DEFINE phase == CASE target # "COMPLETED" -> "writeRow"
                          [] target = "COMPLETED" /\ i \in Required -> "independence"
                          [] OTHER -> "writeInspection"
    <2>1. /\ phase \in {"writeRow", "independence", "writeInspection"}
          /\ phase = "writeRow" => target # "COMPLETED"
          /\ phase = "writeInspection" => i \notin Required
      OBVIOUS
    <2>2. /\ Goto(s, Request(phase, i, row[i], target, IF target = "COMPLETED" THEN u ELSE None))
          /\ UNCHANGED <<order, rows, released>> /\ Exists(i)
      BY <1>7 DEF StartInspection
    <2> HIDE DEF phase
    <2>3. QED BY <2>1, <2>2, Arrives
  <1>8. ASSUME NEW f \in Findings, NEW phase \in {"writeDisposition", "closeFinding"},
               StartFinding(s, f, phase)
        PROVE  SerialSessions'
    BY <1>8, Arrives DEF StartFinding
  <1>9. QED BY <1>1, <1>2, <1>3, <1>4, <1>5, <1>6, <1>7, <1>8 DEF Arrive
-----------------------------------------------------------------------------
(* What the rows satisfy between operations survives a step that attaches what
   it inserts, needs what exists, and adds no task to a closed work order.  *)
LEMMA RowsKept ==
    ASSUME ReleaseInv, SerialRows, Monotone(row, row'),
           \A x \in Evidences \cup Inspections :
              row'[x] # "ABSENT" => Exists(x) \/ Attachable(x),
           \A t \in needing' : t \in needing \/ row'[t] # "ABSENT",
           order'.status = "CLOSED" =>
              /\ order.status = "CLOSED" /\ needing' \subseteq needing
              /\ \A t \in Tasks : row'[t] # "ABSENT" => Exists(t)
    PROVE  SerialRows'
  <1> USE DEF SerialRows
  <1>1. /\ needing \subseteq Tasks
        /\ \A x \in Evidences \cup Inspections : TaskOf[x] # None => TaskOf[x] \in Tasks
    BY ReleaseAssumption DEF ReleaseInv, TypeOK
  <1>2. RowsAttached'
    BY <1>1 DEF RowsAttached, Attachable, Exists, Monotone, Rows
  <1>3. NeedingExist'
    BY <1>1 DEF NeedingExist, Exists, Monotone, Rows
  <1>4. ClosedDone'
    <2> SUFFICES ASSUME order'.status = "CLOSED"
                 PROVE  /\ \A t \in Tasks : row'[t] \in {"ABSENT", "COMPLETED"}
                        /\ \A t \in needing' : Proven(t)'
      BY DEF ClosedDone
    <2>1. \A t \in Tasks : row'[t] \in {"ABSENT", "COMPLETED"}
      BY DEF ClosedDone, Monotone, Exists
    <2>2. \A t \in needing' : Proven(t) BY DEF ClosedDone
    <2>3. \A e \in Evidences : Exists(e) => Exists(e)' BY DEF Monotone, Exists, Rows
    <2>4. QED BY <2>1, <2>2, <2>3 DEF Proven
  <1>5. QED BY <1>2, <1>3, <1>4

(* The same for a step that writes an existing row, or no row at all. *)
LEMMA RowsRewritten ==
    ASSUME ReleaseInv, SerialRows, Monotone(row, row'), needing' = needing,
           \A r \in Rows : row'[r] # "ABSENT" => Exists(r),
           order'.status = "CLOSED" => order.status = "CLOSED"
    PROVE  SerialRows'
  <1>1. \A x \in Evidences \cup Inspections \cup Tasks : row'[x] # "ABSENT" => Exists(x)
    BY DEF Rows
  <1>2. QED BY <1>1, RowsKept

(* The gate in front of CLOSED, asked while nothing else runs. *)
LEMMA JudgedIsReady ==
    ASSUME ReleaseInv, SerialRows, NEW s \in Sessions, Judged(s),
           session[s].judged = Len(Categories)
    PROVE  Ready
  <1> DEFINE seen == session[s].seen
             must == session[s].must
  <1>1. /\ session[s].judged = 6 /\ Categories[1] = "TASK_EXECUTION"
        /\ Categories[2] = "EVIDENCE" /\ Categories[3] = "INSPECTION"
        /\ Categories[4] = "MATERIAL" /\ Categories[5] = "COMPLIANCE"
        /\ Categories[6] = "FINDING"
    BY DEF Categories
  <1>2. /\ seen = { t \in Tasks : Exists(t) } /\ must = needing
        /\ \A k \in 1..6 : ~Blocks(Categories[k], seen, must)
    BY <1>1 DEF Judged
  <1> HIDE DEF seen, must
  <1>3. /\ ~Blocks("TASK_EXECUTION", seen, must) /\ ~Blocks("EVIDENCE", seen, must)
        /\ ~Blocks("INSPECTION", seen, must) /\ ~Blocks("FINDING", seen, must)
        /\ ~Blocks("MATERIAL", seen, must) /\ ~Blocks("COMPLIANCE", seen, must)
    BY <1>1, <1>2
  <1>4. \A x \in Evidences \cup Inspections :
           Exists(x) => TaskOf[x] \in seen \cup {None} /\ (TaskOf[x] # None => TaskOf[x] \in seen)
    BY <1>2, ReleaseAssumption DEF SerialRows, RowsAttached, Attachable
  <1>5. \A t \in Tasks : row[t] \in {"ABSENT", "COMPLETED"}
    BY <1>2, <1>3 DEF Blocks, Exists
  <1>6. /\ \A e \in Evidences : TaskOf[e] # None => row[e] \in {"ABSENT", "ACCEPTED"}
        /\ \A t \in needing : Proven(t)
    BY <1>2, <1>3, <1>4 DEF Blocks, Exists, Proven
  <1>7. \A i \in Inspections : row[i] \in {"ABSENT"} \cup Cleared
    BY <1>3, <1>4 DEF Blocks, Exists
  <1>8. \A f \in Findings : row[f] \in {"ABSENT", "CLOSED"}
    BY <1>3 DEF Blocks, Exists
  <1>9. outside = {}
    BY <1>3 DEF Blocks, ReleaseInv, TypeOK
  <1>10. QED BY <1>5, <1>6, <1>7, <1>8, <1>9 DEF Ready

(* One more category of a close that nothing overtakes. *)
LEMMA JudgeSerially ==
    ASSUME ReleaseInv, SerialRows, SerialSessions, NEW s \in Sessions, Judge(s)
    PROVE  SerialSessions'
  <1> DEFINE h    == session[s]
             n    == h.judged + 1
             seen == IF n = 1 THEN { t \in Tasks : Exists(t) } ELSE h.seen
             must == IF n = 1 THEN needing \cap seen ELSE h.must
             v    == [at |-> IF n = Len(Categories) THEN "writeStatus" ELSE "readiness",
                      row |-> None, loaded |-> h.loaded, target |-> "CLOSED",
                      user |-> None, seen |-> seen, must |-> must, judged |-> n]
  <1>1. /\ h \in Session /\ h.at = "readiness" /\ session \in [Sessions -> Session]
        /\ needing \subseteq Tasks /\ Checked(s) /\ Judged(s)
    BY DEF ReleaseInv, TypeOK, SerialSessions, Judge, At
  <1>2. h.judged \in 0..6 BY <1>1 DEF Session, Categories
  <1>3. \A x \in Sessions : x # s => Quiet(x) BY <1>1, OthersQuiet
  <1>4. CASE Blocks(Categories[n], seen, must)
    BY <1>3, <1>4, Ends DEF Judge
  <1>5. CASE ~Blocks(Categories[n], seen, must)
    <2>1. session' = [session EXCEPT ![s] = v] /\ UNCHANGED <<order, rows>>
      BY <1>5 DEF Judge, Goto
    <2>2. seen = { t \in Tasks : Exists(t) } /\ must = needing
      <3>1. CASE n = 1 BY <1>1, <3>1 DEF SerialRows, NeedingExist
      <3>2. CASE n # 1 BY <1>1, <1>2, <3>2 DEF Judged
      <3>3. QED BY <3>1, <3>2
    <2>3. \A k \in 1..n : ~Blocks(Categories[k], seen, must)
      <3> SUFFICES ASSUME NEW k \in 1..n, k # n
                   PROVE  ~Blocks(Categories[k], seen, must)
        BY <1>5
      <3>1. h.judged > 0 /\ k \in 1..h.judged /\ n # 1 BY <1>2
      <3>2. QED BY <1>1, <3>1 DEF Judged
    <2>4. /\ v.judged = n /\ v.seen = seen /\ v.must = must
          /\ v.at \in {"readiness", "writeStatus"}
      OBVIOUS
    <2> HIDE DEF v, seen, must, n
    <2>5. session'[s] = v /\ \A x \in Sessions : x # s => session'[x] = session[x]
      BY <1>1, <2>1
    <2>6. \A c, S, M : Blocks(c, S, M)' <=> Blocks(c, S, M)
      BY <2>1 DEF Blocks, Exists, rows
    <2>7. Judged(s)'
      BY <2>1, <2>2, <2>3, <2>4, <2>5, <2>6 DEF Judged, Exists, rows
    <2>8. order.status # "CLOSED" BY <1>1 DEF Checked
    <2>9. Checked(s)' BY <2>1, <2>4, <2>5, <2>8 DEF Checked, At
    <2>10. QED BY <1>3, <2>5, <2>7, <2>9, OneActs
  <1>6. QED BY <1>4, <1>5

(* A request passes its gate: the order and the rows are as it found them. *)
LEMMA Passes ==
    ASSUME ReleaseInv, SerialSessions, NEW s \in Sessions,
           NEW phase \in {"writeStatus", "writeInspection"}, Step(s, phase),
           UNCHANGED <<order, rows, released>>,
           \/ phase = "writeStatus" /\ At(s, "gate")
           \/ /\ phase = "writeInspection" /\ At(s, "independence")
              /\ session[s].user \notin Executors(session[s].row)
    PROVE  SerialSessions'
  <1>1. session \in [Sessions -> Session] /\ session[s] \in Session /\ Checked(s)
    BY DEF ReleaseInv, TypeOK, SerialSessions
  <1>2. /\ session'[s].at = phase /\ session'[s].row = session[s].row
        /\ session'[s].user = session[s].user /\ session'[s].judged = session[s].judged
        /\ \A x \in Sessions : x # s => session'[x] = session[x]
    BY <1>1 DEF Step, Session
  <1>3. session[s].judged = 0 BY <1>1 DEF Checked, At
  <1>4. \A x \in Sessions : x # s => Quiet(x) BY OthersQuiet DEF At
  <1>5. Judged(s)' BY <1>2, <1>3 DEF Judged
  <1>6. CASE phase = "writeStatus"
    <2>1. order.status # "CLOSED" BY <1>1, <1>6 DEF Checked, At
    <2>2. Checked(s)' BY <1>2, <1>3, <1>6, <2>1 DEF Checked, At
    <2>3. QED BY <1>2, <1>4, <1>5, <2>2, OneActs
  <1>7. CASE phase = "writeInspection"
    <2>1. Exists(session[s].row) BY <1>1, <1>7 DEF Checked, At
    <2>2. session'[s].user \notin Executors(session[s].row)'
      BY <1>2, <1>7 DEF Executors, Exists, rows
    <2>3. Checked(s)' BY <1>2, <1>3, <1>7, <2>1, <2>2 DEF Checked, At, Exists, rows, Executors
    <2>4. QED BY <1>2, <1>4, <1>5, <2>3, OneActs
  <1>8. QED BY <1>6, <1>7

LEMMA ContinueSerially ==
    ASSUME ReleaseInv, SerialRows, SerialSessions, NEW s \in Sessions, Continue(s)
    PROVE  SerialRows' /\ SerialSessions'
  <1> DEFINE h == session[s]
  <1>1. /\ TypeOK /\ h \in Session /\ Checked(s) /\ Judged(s)
        /\ Holds(h, row)
    BY SessionsHold DEF ReleaseInv, TypeOK, SerialSessions
  <1>2. h.at \notin {"idle", "done"}
    BY DEF Continue, CheckGate, Judge, WriteStatus, WriteAssigned, CreateTask, UpdateTask, WriteRow,
           CheckIndependence, WriteInspection, WriteDisposition, CloseFinding, At
  <1>3. \A x \in Sessions : x # s => Quiet(x) BY <1>2, OthersQuiet
  <1>4. End(s) => SerialSessions' BY <1>3, Ends
  <1>5. ASSUME UNCHANGED <<order, row, needing>> PROVE SerialRows'
    BY <1>5, RowsRewritten DEF Monotone, Exists
  <1>6. ASSUME CheckGate(s) PROVE SerialRows' /\ SerialSessions'
    BY <1>4, <1>5, <1>6, Passes DEF CheckGate, rows
  <1>7. ASSUME Judge(s) PROVE SerialRows' /\ SerialSessions'
    BY <1>5, <1>7, JudgeSerially DEF Judge, rows
  <1>8. ASSUME WriteStatus(s) PROVE SerialRows' /\ SerialSessions'
    <2>1. UNCHANGED rows /\ order'.status = h.target
      BY <1>1, <1>8 DEF WriteStatus, TypeOK, Order
    <2>2. CASE h.target # "CLOSED"
      <3>1. SerialRows' BY <2>1, <2>2, RowsRewritten DEF rows, Monotone, Exists
      <3>2. QED BY <1>4, <1>8, <3>1 DEF WriteStatus
    <2>3. CASE h.target = "CLOSED"
      <3>1. h.judged = Len(Categories) BY <1>1, <1>8, <2>3 DEF WriteStatus, At, Holds
      <3>2. Ready BY <1>1, <3>1, JudgedIsReady
      <3>3. SerialRows'
        BY <2>1, <3>2 DEF SerialRows, RowsAttached, NeedingExist, ClosedDone, Ready, rows, Proven,
                          Exists, Attachable
      <3>4. QED BY <1>4, <1>8, <3>3 DEF WriteStatus
    <2>4. QED BY <2>2, <2>3
  <1>9. ASSUME WriteAssigned(s) PROVE SerialRows' /\ SerialSessions'
    <2>1. order.status # "CLOSED" BY <1>1, <1>9 DEF WriteAssigned, At, Checked, Terminal
    <2>2. order'.status # "CLOSED" /\ UNCHANGED rows BY <1>9, <2>1 DEF WriteAssigned
    <2>3. SerialRows' BY <2>2, RowsRewritten DEF rows, Monotone, Exists
    <2>4. QED BY <1>4, <1>9, <2>3 DEF WriteAssigned
  <1>10. ASSUME CreateTask(s) PROVE SerialRows' /\ SerialSessions'
    <2>1. order'.status # "CLOSED" BY <1>1, <1>10 DEF CreateTask, At, Checked, Terminal
    <2>2. /\ h.row \in Tasks /\ h.row \in Rows /\ row[h.row] = "ABSENT"
          /\ h.target \in RowStatuses \ {"ABSENT"}
      BY <1>1, <1>10, StatusesOK DEF CreateTask, At, Holds, Exists, Rows
    <2>3. row' = [row EXCEPT ![h.row] = h.target] BY <1>10 DEF CreateTask
    <2>4. row' \in [Rows -> RowStatuses] /\ Monotone(row, row')
      BY <2>2, <2>3, OneRowMoves
    <2>5. \A x \in Evidences \cup Inspections : row'[x] # "ABSENT" => Exists(x)
      BY <1>1, <2>2, <2>3, ReleaseAssumption DEF TypeOK, Exists
    <2>6. needing' \subseteq needing \cup {h.row} /\ row'[h.row] # "ABSENT"
      BY <1>1, <1>10, <2>2, <2>3 DEF CreateTask, TypeOK
    <2>7. SerialRows' BY <2>1, <2>4, <2>5, <2>6, RowsKept
    <2>8. QED BY <1>4, <1>10, <2>7 DEF CreateTask
  <1>11. ASSUME UpdateTask(s) PROVE SerialRows' /\ SerialSessions'
    <2>1. order'.status # "CLOSED" /\ Exists(h.row)
      BY <1>1, <1>11 DEF UpdateTask, At, Checked, Terminal
    <2>2. needing' \subseteq needing \cup {h.row} /\ row' = row
      BY <1>11 DEF UpdateTask
    <2>3. SerialRows' BY <2>1, <2>2, RowsKept DEF Monotone, Exists
    <2>4. QED BY <1>4, <1>11, <2>3 DEF UpdateTask
  <1>12. ASSUME NEW st \in RowStatuses \ {"ABSENT"}, h.row \in Rows, Exists(h.row),
                h.row \in Tasks => st = "COMPLETED",
                row' = [row EXCEPT ![h.row] = st] \/ row' = row,
                UNCHANGED <<order, needing>>, End(s)
         PROVE  SerialRows' /\ SerialSessions'
    <2>1. Monotone(row, row') BY <1>12, OneRowMoves
    <2>2. \A r \in Rows : row'[r] # "ABSENT" => Exists(r)
      BY <1>1, <1>12 DEF TypeOK, Exists
    <2>3. SerialRows' BY <1>12, <2>1, <2>2, RowsRewritten
    <2>4. QED BY <1>4, <1>12, <2>3
  <1>13. ASSUME WriteRow(s) PROVE SerialRows' /\ SerialSessions'
    <2>1. /\ h.row \in Rows /\ Exists(h.row) /\ h.target \in RowStatuses \ {"ABSENT"}
          /\ (h.row \in Tasks => h.target = "COMPLETED")
      BY <1>1, <1>13 DEF WriteRow, At, Holds, Exists
    <2>2. row' = [row EXCEPT ![h.row] = h.target] \/ row' = row BY <1>13 DEF WriteRow
    <2>3. QED BY <1>12, <1>13, <2>1, <2>2 DEF WriteRow
  <1>14. ASSUME CheckIndependence(s) PROVE SerialRows' /\ SerialSessions'
    BY <1>4, <1>5, <1>14, Passes DEF CheckIndependence, rows
  <1>15. ASSUME WriteInspection(s) PROVE SerialRows' /\ SerialSessions'
    <2>1. /\ h.row \in Rows /\ Exists(h.row)
          /\ "COMPLETED" \in RowStatuses \ {"ABSENT"}
      BY <1>1, <1>15 DEF WriteInspection, At, Holds, Checked, Rows, RowStatuses, TaskStates
    <2>2. QED BY <1>12, <1>15, <2>1 DEF WriteInspection
  <1>16. ASSUME WriteDisposition(s) PROVE SerialRows' /\ SerialSessions'
    <2>1. /\ h.row \in Rows /\ Exists(h.row) /\ h.row \notin Tasks
          /\ "IN_PROGRESS" \in RowStatuses \ {"ABSENT"}
      BY <1>1, <1>16, ReleaseAssumption
         DEF WriteDisposition, At, Holds, Checked, Rows, RowStatuses, TaskStates
    <2>2. QED BY <1>12, <1>16, <2>1 DEF WriteDisposition
  <1>17. ASSUME CloseFinding(s) PROVE SerialRows' /\ SerialSessions'
    <2>1. /\ h.row \in Rows /\ Exists(h.row) /\ h.row \notin Tasks
          /\ "CLOSED" \in RowStatuses \ {"ABSENT"}
      BY <1>1, <1>17, ReleaseAssumption
         DEF CloseFinding, At, Holds, Checked, Rows, RowStatuses, FindingStatuses
    <2>2. QED BY <1>12, <1>17, <2>1 DEF CloseFinding
  <1>18. QED
    BY <1>6, <1>7, <1>8, <1>9, <1>10, <1>11, <1>13, <1>14, <1>15, <1>16, <1>17 DEF Continue

(* Rows inserted between operations: attached to a task that exists. *)
LEMMA InsertSerially ==
    ASSUME ReleaseInv, SerialRows, SerialSessions, AllDone, Insert
    PROVE  SerialRows' /\ SerialSessions'
  <1>1. \A s \in Sessions : Quiet(s) BY AllQuiet
  <1>2. session' = session
    BY DEF Insert, CreateEvidence, CreateInspection, CreateFinding, OutsideChanges
  <1>3. SerialSessions'
    BY <1>1, <1>2 DEF SerialSessions, Quiet, Checked, Judged, At
  <1>4. order' = order /\ needing' = needing
    BY DEF Insert, CreateEvidence, CreateInspection, CreateFinding, OutsideChanges
  <1>5. ASSUME NEW x \in Rows \ Tasks, NEW st \in RowStatuses \ {"ABSENT"},
               row' = [row EXCEPT ![x] = st],
               x \in Evidences \cup Inspections => Attachable(x)
        PROVE  SerialRows'
    <2>1. Monotone(row, row') BY <1>5, OneRowMoves
    <2>2. \A r \in Rows : r # x => row'[r] = row[r] BY <1>5 DEF ReleaseInv, TypeOK
    <2>3. \A t \in Tasks : row'[t] # "ABSENT" => Exists(t)
      BY <1>5, <2>2 DEF Exists, Rows
    <2>4. \A y \in Evidences \cup Inspections :
             row'[y] # "ABSENT" => Exists(y) \/ Attachable(y)
      BY <1>5, <2>2 DEF Exists, Rows
    <2>5. QED BY <1>4, <2>1, <2>3, <2>4, RowsKept
  <1>6. {"UPLOADED", "PENDING", "OPEN"} \subseteq RowStatuses \ {"ABSENT"}
    BY DEF RowStatuses, EvidenceStatuses, InspectionStatuses, FindingStatuses
  <1>7. /\ \A x \in Evidences \cup Inspections \cup Findings : x \in Rows \ Tasks
    BY ReleaseAssumption DEF Rows
  <1>8. ASSUME NEW e \in Evidences, NEW u \in Users, CreateEvidence(e, u) PROVE SerialRows'
    BY <1>5, <1>6, <1>7, <1>8 DEF CreateEvidence
  <1>9. ASSUME NEW i \in Inspections, CreateInspection(i) PROVE SerialRows'
    BY <1>5, <1>6, <1>7, <1>9 DEF CreateInspection
  <1>10. ASSUME NEW f \in Findings, CreateFinding(f) PROVE SerialRows'
    <2>1. f \in Rows \ Tasks /\ "OPEN" \in RowStatuses \ {"ABSENT"} BY <1>6, <1>7
    <2>2. row' = [row EXCEPT ![f] = "OPEN"] BY <1>10 DEF CreateFinding
    <2>3. f \notin Evidences \cup Inspections BY ReleaseAssumption
    <2>4. QED BY <1>5, <2>1, <2>2, <2>3
  <1>11. ASSUME NEW c \in {"MATERIAL", "COMPLIANCE"}, OutsideChanges(c) PROVE SerialRows'
    BY <1>4, <1>11, RowsRewritten DEF OutsideChanges, Monotone, Exists
  <1>12. QED BY <1>3, <1>8, <1>9, <1>10, <1>11 DEF Insert
-----------------------------------------------------------------------------
(* Nothing moves, or every request is a fresh one. *)
LEMMA StaysSerial ==
    ASSUME SerialRows, SerialSessions, UNCHANGED <<order, rows, released>>,
           session' \in {session, [s \in Sessions |-> Idle]}
    PROVE  SerialRows' /\ SerialSessions'
  <1>1. SerialRows'
    BY DEF SerialRows, RowsAttached, NeedingExist, ClosedDone, Proven, Exists, Attachable, rows
  <1>2. CASE session' = session
    <2>1. \A c, S, M : Blocks(c, S, M)' <=> Blocks(c, S, M)
      BY DEF Blocks, Exists, rows
    <2>2. \A s \in Sessions : Judged(s)' BY <1>2, <2>1 DEF SerialSessions, Judged, Exists, rows
    <2>3. \A s \in Sessions : Checked(s)'
      BY <1>2 DEF SerialSessions, Checked, At, Exists, Executors, rows
    <2>4. QED BY <1>1, <1>2, <2>2, <2>3 DEF SerialSessions, Quiet
  <1>3. CASE session' = [s \in Sessions |-> Idle]
    <2>1. Idle.at = "idle" /\ Idle.judged = 0 BY DEF Idle, Request
    <2>2. \A s \in Sessions : session'[s].at = "idle" /\ session'[s].judged = 0
      BY <1>3, <2>1
    <2>3. QED BY <1>1, <2>2 DEF SerialSessions, Quiet, Checked, Judged, At
  <1>4. QED BY <1>2, <1>3

LEMMA SerialInit == MCInit => SerialInv
  <1> SUFFICES ASSUME MCInit, scenario = "serial" PROVE SerialRows /\ SerialSessions
    BY DEF SerialInv
  <1>1. order.status = "DRAFT" /\ needing = {} /\ \A r \in Rows : row[r] = "ABSENT"
    BY DEF MCInit, Init, Fresh, Nothing
  <1>2. SerialRows
    BY <1>1 DEF SerialRows, RowsAttached, NeedingExist, ClosedDone, Exists, Rows
  <1>3. Idle.at = "idle" /\ Idle.judged = 0 BY DEF Idle, Request
  <1>4. \A s \in Sessions : session[s].at = "idle" /\ session[s].judged = 0
    BY <1>3 DEF MCInit, Init
  <1>5. SerialSessions BY <1>4 DEF SerialSessions, Quiet, Checked, Judged, At
  <1>6. QED BY <1>2, <1>5

LEMMA SerialStep ==
    ReleaseInv /\ SerialInv /\ [MCNext]_<<vars, scenario>> => SerialInv'
  <1> SUFFICES ASSUME ReleaseInv, SerialInv, [MCNext]_<<vars, scenario>>, scenario' = "serial"
               PROVE  SerialRows' /\ SerialSessions'
    BY DEF SerialInv
  <1>1. scenario = "serial" /\ SerialRows /\ SerialSessions BY DEF SerialInv, MCNext
  <1>2. CASE UNCHANGED <<vars, scenario>> BY <1>1, <1>2, StaysSerial DEF vars, rows
  <1>3. CASE SerialNext
    <2>1. ASSUME AllDone, Insert PROVE SerialRows' /\ SerialSessions'
      BY <1>1, <2>1, InsertSerially
    <2>2. ASSUME NEW s \in Sessions, AllDone, Arrive(s) PROVE SerialRows' /\ SerialSessions'
      <3>1. UNCHANGED <<order, rows, released>>
        BY <2>2 DEF Arrive, StartTransition, StartAssign, StartCreateTask, StartUpdateTask,
                    StartCompleteTask, StartEvidence, StartInspection, StartFinding
      <3>2. SerialRows' BY <1>1, <3>1, RowsRewritten DEF Monotone, Exists, rows
      <3>3. QED BY <1>1, <2>2, <3>2, ArriveSerially
    <2>3. ASSUME NEW s \in Sessions, Continue(s) PROVE SerialRows' /\ SerialSessions'
      BY <1>1, <2>3, ContinueSerially
    <2>4. QED BY <1>1, <1>3, <2>1, <2>2, <2>3, StaysSerial DEF SerialNext
  <1>4. QED BY <1>1, <1>2, <1>3 DEF MCNext

LEMMA SerialInvariant == MCSpec => []SerialInv
  BY SerialInit, SerialStep, ScenarioInvariant, PTL DEF MCSpec

(* A work order that no two requests work on at once has, once CLOSED, no
   unfinished task and evidence for every task that requires it: the task
   gates and the refusal of new tasks leave no order of operations around it. *)
THEOREM SerialClosedTasksComplete == MCSpec => []ClosedTasksComplete
  <1>1. SerialInv => ClosedTasksComplete
    BY DEF SerialInv, SerialRows, ClosedDone, ClosedTasksComplete
  <1>2. QED BY <1>1, SerialInvariant, PTL

(* It is CLOSED only when nothing blocks it: the six SELECTs of the gate and
   the UPDATE after them are as good as one step.                          *)
THEOREM SerialClosedWhenReady == MCSpec => ClosedWhenReady
  <1>1. ReleaseInv /\ SerialInv /\ [MCNext]_<<vars, scenario>> =>
           [scenario = "serial" /\ order.status # "CLOSED" /\ order'.status = "CLOSED" => Ready]_vars
    <2> SUFFICES ASSUME ReleaseInv, SerialInv, [MCNext]_<<vars, scenario>>, scenario = "serial",
                        order.status # "CLOSED", order'.status = "CLOSED"
                 PROVE  Ready
      OBVIOUS
    <2>1. SerialRows /\ SerialSessions /\ order \in Order
      BY DEF SerialInv, ReleaseInv, TypeOK
    <2>2. SerialNext /\ order' # order BY DEF MCNext, vars
    <2>3. ~Insert
      BY <2>2 DEF Insert, CreateEvidence, CreateInspection, CreateFinding, OutsideChanges
    <2>4. \A s \in Sessions : ~Arrive(s)
      BY <2>2 DEF Arrive, StartTransition, StartAssign, StartCreateTask, StartUpdateTask,
                  StartCompleteTask, StartEvidence, StartInspection, StartFinding
    <2>5. PICK s \in Sessions : Continue(s) BY <2>2, <2>3, <2>4 DEF SerialNext
    <2>6. WriteStatus(s)
      <3>1. ~WriteAssigned(s) BY DEF WriteAssigned
      <3>2. QED
        BY <2>2, <2>5, <3>1
           DEF Continue, CheckGate, Judge, CreateTask, UpdateTask, WriteRow, CheckIndependence,
               WriteInspection, WriteDisposition, CloseFinding
    <2>7. At(s, "writeStatus") /\ session[s].target = "CLOSED"
      BY <2>1, <2>6 DEF WriteStatus, Order
    <2>8. session[s].judged = Len(Categories) BY <2>7 DEF ReleaseInv, SessionsOK
    <2>9. QED BY <2>1, <2>8, JudgedIsReady DEF SerialSessions
  <1>2. QED BY <1>1, ScenarioInvariant, SerialInvariant, PTL DEF MCSpec, ClosedWhenReady

(* Nobody signs off a required inspection of a task they uploaded evidence
   for, whatever became of that evidence: no upload comes between the check
   and the sign-off, and no other operation completes a required inspection. *)
THEOREM SerialIndependentInspector == MCSpec => IndependentInspector
  <1> DEFINE Independent ==
        scenario = "serial" => \A i \in Required :
          row[i] # "COMPLETED" /\ row'[i] = "COMPLETED" =>
             \A e \in Evidences : Exists(e) /\ TaskOf[e] = TaskOf[i] /\ TaskOf[i] # None =>
                uploader[e] # inspector'[i]
  <1>1. ReleaseInv /\ SerialInv /\ [MCNext]_<<vars, scenario>> => [Independent]_vars
    <2> SUFFICES ASSUME ReleaseInv, SerialInv, MCNext, scenario = "serial", NEW i \in Required,
                        row[i] # "COMPLETED", row'[i] = "COMPLETED",
                        NEW e \in Evidences, Exists(e), TaskOf[e] = TaskOf[i], TaskOf[i] # None
                 PROVE  uploader[e] # inspector'[i]
      BY DEF vars
    <2>1. /\ SerialSessions /\ TypeOK /\ SerialNext /\ i \in Rows
          /\ i \in Inspections /\ i \notin Tasks
      BY ReleaseAssumption DEF SerialInv, ReleaseInv, MCNext, Rows
    <2>2. ~Insert
      BY <2>1 DEF Insert, CreateEvidence, CreateInspection, CreateFinding, OutsideChanges, TypeOK
    <2>3. \A s \in Sessions : ~Arrive(s)
      BY DEF Arrive, StartTransition, StartAssign, StartCreateTask, StartUpdateTask,
             StartCompleteTask, StartEvidence, StartInspection, StartFinding, rows
    <2>4. PICK s \in Sessions : Continue(s) BY <2>1, <2>2, <2>3 DEF SerialNext, rows
    <2>5. Holds(session[s], row) /\ Checked(s) /\ session[s] \in Session
      BY <2>1, SessionsHold DEF ReleaseInv, SerialSessions, TypeOK
    <2>6. CASE WriteInspection(s)
      <3>1. session[s].row = i BY <2>1, <2>6 DEF WriteInspection, TypeOK
      <3>2. inspector'[i] = session[s].user /\ session[s].user \notin Executors(i)
        BY <2>1, <2>5, <2>6, <3>1 DEF WriteInspection, Checked, At, TypeOK
      <3>3. uploader[e] \in Executors(i) BY DEF Executors
      <3>4. QED BY <3>2, <3>3
    <2>7. CASE WriteRow(s)
      <3>1. session[s].row = i /\ session[s].target = "COMPLETED"
        BY <2>1, <2>7 DEF WriteRow, TypeOK
      <3>2. QED BY <2>1, <2>5, <2>7, <3>1 DEF WriteRow, Checked
    <2>8. ~(CreateTask(s) \/ WriteDisposition(s) \/ CloseFinding(s))
      BY <2>1, <2>5, ReleaseAssumption
         DEF CreateTask, WriteDisposition, CloseFinding, At, Holds, TypeOK
    <2>9. QED BY <2>4, <2>6, <2>7, <2>8
             DEF Continue, CheckGate, Judge, WriteStatus, WriteAssigned, UpdateTask,
                 CheckIndependence, rows
  <1>2. QED BY <1>1, ScenarioInvariant, SerialInvariant, PTL DEF MCSpec, IndependentInspector
=============================================================================
