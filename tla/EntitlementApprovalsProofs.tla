--------------------- MODULE EntitlementApprovalsProofs ---------------------
(* Theorems of EntitlementApprovals, for every set of requests, rows, users
   and sessions: the four-eyes rule, the exclusive claim, that approvals
   implement ApprovalDecision, and what an approval grants when no operation
   overlaps it.                                                            *)
EXTENDS MCEntitlementApprovals, TLAPS

(* The tables that claims and decisions are not about. *)
TablesOK ==
    /\ overrides \in [Rows -> Overrides \cup {Null, Gone}]
    /\ limits \in [Rows -> Limits \cup {Null, Gone}]
    /\ OneLimit
    /\ planGrants \in BOOLEAN
    /\ now \in 0 .. Horizon

(* Which request row a session's record locks. *)
Locks(v, r) == v.phase \in {"lookup", "read", "write"} /\ v.request = r

-----------------------------------------------------------------------------
(* What the writes store is a row of the table: create_feature_override,
   update_feature_override, create_usage_limit, update_usage_limit.        *)
LEMMA OverrideRows ==
    ASSUME NEW row \in Overrides, NEW view, NEW wants \in OverrideWants
    PROVE  /\ NewOverride(wants) \in Overrides
           /\ UpdatedOverride(row, view, wants) \in Overrides
  <1>1. (wants.enabled = TRUE) \in BOOLEAN
    OBVIOUS
  <1>2. wants.expires_at \in Expiries
    BY DEF OverrideWants
  <1>3. (IF Sets(wants.enabled, view.enabled) THEN wants.enabled ELSE row.enabled)
          \in BOOLEAN
    BY DEF OverrideWants, Overrides, Sets
  <1>4. (IF Sets(wants.expires_at, view.expires_at) THEN wants.expires_at
         ELSE row.expires_at) \in Expiries
    BY <1>2 DEF Overrides, Sets
  <1> QED
    BY <1>1, <1>2, <1>3, <1>4 DEF Overrides, NewOverride, UpdatedOverride

LEMMA LimitRows ==
    ASSUME NEW row \in Limits, NEW view, NEW wants \in LimitWants
    PROVE  /\ NewLimit(wants) \in Limits
           /\ UpdatedLimit(row, view, wants) \in Limits
  <1>1. (wants.unlimited = TRUE) \in BOOLEAN
    OBVIOUS
  <1>2. wants.value \in Ceilings \cup {Null}
    BY DEF LimitWants
  <1>3. (IF Sets(wants.unlimited, view.unlimited) THEN wants.unlimited
         ELSE row.unlimited) \in BOOLEAN
    BY DEF LimitWants, Limits, Sets
  <1>4. (IF wants.unlimited = TRUE
           THEN IF view.value # Null THEN Null ELSE row.value
           ELSE IF Sets(wants.value, view.value) THEN wants.value ELSE row.value)
          \in Ceilings \cup {Null}
    BY <1>2 DEF Limits, Sets
  <1> QED
    BY <1>1, <1>2, <1>3, <1>4 DEF Limits, NewLimit, UpdatedLimit

(* A session that is over holds nothing and reviews nothing. *)
LEMMA DoneIsFine ==
    /\ Done \in SessionRecord
    /\ SessionOK(Done)
    /\ Reviews(Done)
    /\ \A r \in Requests : ~Locks(Done, r)
    /\ Idle \in SessionRecord
    /\ SessionOK(Idle)
    /\ Reviews(Idle)
    /\ \A r \in Requests : ~Locks(Idle, r)
  <1>1. FeatureAsk \in OverrideWants
    BY DEF FeatureAsk, OverrideWants, Expiries
  <1>2. {"idle", "done"} \subseteq Phases /\ "feature" \in Kinds /\ "create" \in Ops
    BY DEF Phases, Kinds, Ops
  <1> HIDE DEF FeatureAsk
  <1> QED
    BY <1>1, <1>2 DEF Done, Idle, Session, SessionRecord, SessionOK, WantsOf, Reviews, Locks

-----------------------------------------------------------------------------
(* One session moves on, perhaps writing a table, and no request changes. *)
LEMMA SessionMoves ==
    ASSUME ApprovalsInv, NEW s \in Sessions, NEW v \in SessionRecord,
           SessionOK(v), Reviews(v), TablesOK',
           session' = [session EXCEPT ![s] = v],
           UNCHANGED <<request, effects>>,
           \A r \in Requests : Locks(v, r) =>
               \/ Locks(session[s], r)
               \/ request[r].status = "PENDING" /\ Unlocked(r)
    PROVE  ApprovalsInv'
  <1> USE DEF ApprovalsInv
  <1>1. TypeOK'
    BY DEF TypeOK, TablesOK
  <1>2. SessionsOK'
    BY DEF SessionsOK, TypeOK
  <1>3. ClaimsOK'
    BY DEF ClaimsOK, Holds, Unlocked, Locks, TypeOK
  <1>4. FourEyes'
    <2>1. \A t \in Sessions : Reviews(session[t])'
      BY DEF FourEyes, Reviews, TypeOK
    <2> QED
      BY <2>1 DEF FourEyes
  <1>5. ExecutedOnce' /\ OneLimit'
    BY DEF ExecutedOnce, TablesOK
  <1> QED
    BY <1>1, <1>2, <1>3, <1>4, <1>5

(* One request changes its decision; nobody holds it afterwards. *)
LEMMA RequestMoves ==
    ASSUME ApprovalsInv, NEW r \in Requests, NEW status \in Statuses,
           NEW kind \in Kinds, NEW wants \in WantsOf(kind),
           NEW by \in Users \cup {Null}, NEW reviewer \in Users \cup {Null},
           request' = [request EXCEPT ![r] =
                          Approval(status, kind, wants, by, reviewer)],
           session' \in [Sessions -> SessionRecord],
           \A t \in Sessions : session'[t] \in {session[t], Done},
           TablesOK',
           \A t \in Sessions : ~Locks(session'[t], r),
           request[r].status = Null \/ by = request[r].by,
           status = "APPROVED" => reviewer \in Users /\ reviewer # by,
           effects' \in [Requests -> Nat],
           \A q \in Requests \ {r} : effects'[q] = effects[q],
           effects'[r] = IF status = "APPROVED" THEN 1 ELSE 0
    PROVE  ApprovalsInv'
  <1> DEFINE row == Approval(status, kind, wants, by, reviewer)
  <1>0. /\ row \in RequestRow
        /\ row.status = status /\ row.kind = kind /\ row.wants = wants
        /\ row.by = by /\ row.reviewer = reviewer
    BY DEF Approval, RequestRow, WantsOf
  <1>1. request'[r] = row /\ \A q \in Requests \ {r} : request'[q] = request[q]
    BY DEF ApprovalsInv, TypeOK
  <1>2. status # Null
    BY ApprovalsAssumption DEF ApprovalsAssumption
  <1> HIDE DEF row
  <1> USE DEF ApprovalsInv
  <1>3. TypeOK'
    BY <1>0 DEF TypeOK, TablesOK, row
  <1>4. SessionsOK'
    <2>1. \A t \in Sessions : SessionOK(session'[t])
      BY DoneIsFine DEF SessionsOK
    <2> QED
      BY <2>1, <1>0, <1>1 DEF SessionsOK
  <1>5. ClaimsOK'
    <2> SUFFICES ASSUME NEW t \in Sessions, NEW q \in Requests, Holds(t, q)'
                 PROVE  /\ request'[q].status = "PENDING"
                        /\ \A u \in Sessions : Holds(u, q)' => u = t
      BY DEF ClaimsOK
    <2>1. q # r
      BY DEF Holds, Locks
    <2>2. \A u \in Sessions : Holds(u, q)' => Holds(u, q)
      BY DoneIsFine DEF Holds, Locks
    <2> QED
      BY <2>1, <2>2, <1>1 DEF ClaimsOK
  <1>6. FourEyes'
    <2>1. ASSUME NEW t \in Sessions PROVE Reviews(session[t])'
      <3>1. CASE session'[t] = Done
        BY <3>1 DEF Done, Session, Reviews
      <3>2. CASE session'[t] = session[t]
        <4>1. Reviews(session[t]) /\ session[t].request \in Requests \cup {Null}
          BY DEF FourEyes, TypeOK, SessionRecord
        <4> QED
          BY <3>2, <4>1, <1>0, <1>1, <1>2 DEF Reviews
      <3> QED
        BY <3>1, <3>2
    <2>2. ASSUME NEW q \in Requests, request'[q].status = "APPROVED"
          PROVE  request'[q].reviewer \in Users /\ request'[q].reviewer # request'[q].by
      BY <2>2, <1>0, <1>1 DEF FourEyes
    <2> QED
      BY <2>1, <2>2 DEF FourEyes
  <1>7. ExecutedOnce'
    BY <1>0, <1>1 DEF ExecutedOnce
  <1> QED
    BY <1>3, <1>4, <1>5, <1>6, <1>7 DEF TablesOK

-----------------------------------------------------------------------------
(* Every handler and every step of an approval keeps the invariant. *)
LEMMA RefuseKeeps ==
    ASSUME ApprovalsInv, NEW s \in Sessions, Refuse(s) PROVE ApprovalsInv'
  <1>1. TablesOK'
    BY DEF ApprovalsInv, TypeOK, TablesOK, OneLimit, Live, Refuse
  <1> QED
    BY <1>1, DoneIsFine, SessionMoves DEF Refuse, Become

LEMMA ReachKeeps ==
    ASSUME ApprovalsInv, NEW s \in Sessions, session[s].phase \notin {"idle", "done"},
           NEW phase \in {"lookup", "read", "write"}, NEW op \in Ops,
           NEW row \in Rows \cup {Null}, NEW view \in RowsOf(session[s].kind) \cup {Null},
           phase = "lookup" => /\ session[s].request \in Requests
                               /\ request[session[s].request].status = "PENDING"
                               /\ Unlocked(session[s].request),
           phase # "lookup" => session[s].phase # "claim",
           phase = "read" /\ row # Null => view \in RowsOf(session[s].kind),
           phase = "write" /\ op # "create" =>
               row # Null /\ view \in RowsOf(session[s].kind),
           Reach(s, phase, op, row, view)
    PROVE  ApprovalsInv'
  <1> DEFINE v == Session(phase, session[s].kind, op, session[s].wants,
                          session[s].request, session[s].user, row, view)
  <1>1. session[s] \in SessionRecord /\ SessionOK(session[s]) /\ Reviews(session[s])
    BY DEF ApprovalsInv, TypeOK, SessionsOK, FourEyes
  <1>2. /\ v.phase = phase /\ v.kind = session[s].kind /\ v.op = op
        /\ v.wants = session[s].wants /\ v.request = session[s].request
        /\ v.user = session[s].user /\ v.row = row /\ v.view = view
    BY DEF Session
  <1>3. v \in SessionRecord
    <2>1. phase \in Phases /\ view \in Overrides \cup Limits \cup {Null}
      BY DEF Phases, RowsOf
    <2> QED
      BY <1>1, <2>1 DEF Session, SessionRecord
  <1> HIDE DEF v
  <1>4. SessionOK(v)
    BY <1>1, <1>2 DEF SessionOK
  <1>5. Reviews(v)
    BY <1>1, <1>2 DEF Reviews
  <1>6. ASSUME NEW r \in Requests, Locks(v, r)
        PROVE  \/ Locks(session[s], r)
               \/ request[r].status = "PENDING" /\ Unlocked(r)
    <2>1. session[s].phase \in Phases
      BY <1>1 DEF SessionRecord
    <2> QED
      BY <1>6, <1>2, <2>1 DEF Locks, Phases
  <1>7. TablesOK'
    BY DEF ApprovalsInv, TypeOK, TablesOK, OneLimit, Live, Reach
  <1>8. session' = [session EXCEPT ![s] = v] /\ UNCHANGED <<request, effects>>
    BY DEF Reach, Become, v
  <1> QED
    BY <1>3, <1>4, <1>5, <1>6, <1>7, <1>8, SessionMoves

LEMMA CommitKeeps ==
    ASSUME ApprovalsInv, NEW s \in Sessions, session[s].phase = "write",
           Commit(s), TablesOK'
    PROVE  ApprovalsInv'
  <1>0. session[s].request \in Requests \cup {Null} /\ session[s].user \in Users \cup {Null}
    BY DEF ApprovalsInv, TypeOK, SessionRecord
  <1>1. CASE session[s].request = Null
    BY <1>1, DoneIsFine, SessionMoves DEF Commit, Become
  <1>2. CASE session[s].request # Null
    <2> DEFINE r == session[s].request
    <2>1. r \in Requests
      BY <1>0, <1>2
    <2>2. Holds(s, r)
      BY DEF Holds
    <2>3. /\ request[r].status = "PENDING"
          /\ \A t \in Sessions : Holds(t, r) => t = s
          /\ session[s].user \in Users
          /\ session[s].user # request[r].by
          /\ effects[r] = 0
      BY <1>2, <2>1, <2>2 DEF ApprovalsInv, ClaimsOK, FourEyes, Reviews, ExecutedOnce
    <2>4. /\ request[r] \in RequestRow
          /\ request[r].wants \in WantsOf(request[r].kind)
          /\ session \in [Sessions -> SessionRecord]
          /\ effects \in [Requests -> Nat]
      BY <2>1 DEF ApprovalsInv, TypeOK, SessionsOK
    <2>5. /\ request' = [request EXCEPT ![r] = Approval("APPROVED", request[r].kind,
                             request[r].wants, request[r].by, session[s].user)]
          /\ effects' = [effects EXCEPT ![r] = @ + 1]
          /\ session' = [session EXCEPT ![s] = Done]
      BY <1>2 DEF Commit, Become, Decision
    <2>6. "APPROVED" \in Statuses
      BY DEF Statuses, Decided
    <2>7. /\ session' \in [Sessions -> SessionRecord]
          /\ \A t \in Sessions : session'[t] \in {session[t], Done}
          /\ \A t \in Sessions : ~Locks(session'[t], r)
      BY <2>1, <2>3, <2>4, <2>5, DoneIsFine DEF Holds, Locks
    <2>8. /\ effects' \in [Requests -> Nat]
          /\ \A q \in Requests \ {r} : effects'[q] = effects[q]
          /\ effects'[r] = 1
      BY <2>1, <2>3, <2>4, <2>5
    <2>9. request[r].kind \in Kinds /\ request[r].by \in Users \cup {Null}
      BY <2>4 DEF RequestRow
    <2> HIDE DEF r
    <2> QED
      BY <2>1, <2>3, <2>4, <2>5, <2>6, <2>7, <2>8, <2>9, RequestMoves
  <1> QED
    BY <1>1, <1>2

LEMMA StartKeeps ==
    ASSUME ApprovalsInv, NEW s \in Sessions, NEW phase \in {"claim", "read"},
           NEW kind \in Kinds, NEW op \in Ops, NEW wants \in WantsOf(kind),
           NEW r \in Requests \cup {Null}, NEW user \in Users \cup {Null},
           phase = "claim" => r \in Requests, phase = "read" => r = Null,
           r # Null => /\ user \in Users
                       /\ request[r].status # Null
                       /\ request[r].by # user,
           Become(s, Session(phase, kind, op, wants, r, user, Null, Null)),
           UNCHANGED <<request, overrides, limits, planGrants, now, effects>>
    PROVE  ApprovalsInv'
  <1> DEFINE v == Session(phase, kind, op, wants, r, user, Null, Null)
  <1>1. /\ v.phase = phase /\ v.kind = kind /\ v.op = op /\ v.wants = wants
        /\ v.request = r /\ v.user = user /\ v.row = Null /\ v.view = Null
    BY DEF Session
  <1>2. v \in SessionRecord
    BY DEF Session, SessionRecord, Phases, WantsOf
  <1>3. TablesOK'
    BY DEF ApprovalsInv, TypeOK, TablesOK, OneLimit, Live
  <1>4. session' = [session EXCEPT ![s] = v]
    BY DEF Become
  <1> HIDE DEF v
  <1>5. SessionOK(v) /\ Reviews(v)
    BY <1>1 DEF SessionOK, Reviews
  <1>6. \A q \in Requests : ~Locks(v, q)
    BY <1>1, ApprovalsAssumption DEF ApprovalsAssumption, Locks
  <1> QED
    BY <1>2, <1>3, <1>4, <1>5, <1>6, SessionMoves

LEMMA FileKeeps ==
    ASSUME ApprovalsInv, NEW r \in Requests, NEW kind \in Kinds,
           NEW wants \in WantsOf(kind), NEW by \in Users \cup {Null},
           File(r, kind, wants, by)
    PROVE  ApprovalsInv'
  <1>1. request[r].status = Null /\ effects[r] = 0
    BY ApprovalsAssumption
    DEF ApprovalsAssumption, File, ApprovalsInv, ExecutedOnce, Statuses, Decided
  <1>2. \A t \in Sessions : ~Locks(session'[t], r)
    <2>1. \A t \in Sessions : ~Holds(t, r)
      BY <1>1, ApprovalsAssumption
      DEF ApprovalsAssumption, ApprovalsInv, ClaimsOK, Statuses
    <2> QED
      BY <2>1 DEF File, Holds, Locks
  <1>3. TablesOK'
    BY DEF ApprovalsInv, TypeOK, TablesOK, OneLimit, Live, File
  <1>4. "PENDING" \in Statuses
    BY DEF Statuses
  <1>5. /\ request' = [request EXCEPT ![r] = Approval("PENDING", kind, wants, by, Null)]
        /\ UNCHANGED <<session, effects>>
    BY DEF File
  <1>6. session \in [Sessions -> SessionRecord] /\ effects \in [Requests -> Nat]
    BY DEF ApprovalsInv, TypeOK
  <1> QED
    BY <1>1, <1>2, <1>3, <1>4, <1>5, <1>6, RequestMoves

LEMMA DeclineKeeps ==
    ASSUME ApprovalsInv, NEW r \in Requests, NEW outcome \in Outcomes, NEW user \in Users,
           Decline(r, outcome, user)
    PROVE  ApprovalsInv'
  <1>1. effects[r] = 0
    BY DEF Decline, ApprovalsInv, ExecutedOnce
  <1>2. \A t \in Sessions : ~Locks(session'[t], r)
    BY DEF Decline, Unlocked, Holds, Locks
  <1>3. TablesOK'
    BY DEF ApprovalsInv, TypeOK, TablesOK, OneLimit, Live, Decline
  <1>4. outcome \in Statuses /\ outcome # "APPROVED"
    BY DEF Statuses, Outcomes, Decided
  <1>5. /\ request[r] \in RequestRow
        /\ request[r].wants \in WantsOf(request[r].kind)
        /\ session \in [Sessions -> SessionRecord]
        /\ effects \in [Requests -> Nat]
    BY DEF ApprovalsInv, TypeOK, SessionsOK
  <1>6. /\ request' = [request EXCEPT ![r] = Approval(outcome, request[r].kind,
                           request[r].wants, request[r].by, user)]
        /\ UNCHANGED <<session, effects>>
    BY DEF Decline, Decision
  <1>7. request[r].kind \in Kinds /\ request[r].by \in Users \cup {Null}
    BY <1>5 DEF RequestRow
  <1> QED
    BY <1>1, <1>2, <1>3, <1>4, <1>5, <1>6, <1>7, RequestMoves

LEMMA WriteOverrideKeeps ==
    ASSUME ApprovalsInv, NEW s \in Sessions, WriteOverride(s) PROVE ApprovalsInv'
  <1>1. /\ session[s].phase = "write"
        /\ SessionOK(session[s])
        /\ session[s].wants \in OverrideWants
        /\ overrides \in [Rows -> Overrides \cup {Null, Gone}]
    BY DEF ApprovalsInv, TypeOK, SessionsOK, SessionOK, WantsOf, WriteOverride
  <1>2. CASE Refuse(s)
    BY <1>2, RefuseKeeps
  <1>3. ASSUME Commit(s), overrides' \in [Rows -> Overrides \cup {Null, Gone}]
        PROVE  ApprovalsInv'
    <2>1. TablesOK'
      BY <1>3 DEF ApprovalsInv, TypeOK, TablesOK, OneLimit, Live, WriteOverride, Commit
    <2> QED
      BY <1>1, <1>3, <2>1, CommitKeeps
  <1>4. CASE InsertOverride(s)
    <2>1. NewOverride(session[s].wants) \in Overrides
      <3> NewOverride(session[s].wants) =
            [enabled |-> session[s].wants.enabled = TRUE,
             expires_at |-> session[s].wants.expires_at]
        BY DEF NewOverride
      <3> (session[s].wants.enabled = TRUE) \in BOOLEAN
        OBVIOUS
      <3> session[s].wants.expires_at \in Expiries
        BY <1>1 DEF OverrideWants
      <3> QED
        BY DEF Overrides
    <2> QED
      BY <1>1, <1>3, <1>4, <2>1 DEF InsertOverride
  <1>5. CASE UpdateOverride(s)
    <2> DEFINE o == session[s].row
    <2>1. CASE UNCHANGED overrides /\ Commit(s)
      BY <1>1, <1>3, <2>1
    <2>2. CASE /\ o \in Live(overrides)
               /\ Commit(s)
               /\ overrides' = [overrides EXCEPT ![o] =
                     UpdatedOverride(overrides[o], session[s].view, session[s].wants)]
      <3>1. overrides[o] \in Overrides
        BY <1>1, <2>2 DEF Live
      <3>2. UpdatedOverride(overrides[o], session[s].view, session[s].wants) \in Overrides
        BY <1>1, <3>1, OverrideRows
      <3> QED
        BY <1>1, <1>3, <2>2, <3>2
    <2> QED
      BY <1>2, <1>5, <2>1, <2>2 DEF UpdateOverride
  <1>6. CASE DeleteOverride(s)
    BY <1>1, <1>3, <1>6 DEF DeleteOverride
  <1> QED
    BY <1>4, <1>5, <1>6 DEF WriteOverride

LEMMA WriteLimitKeeps ==
    ASSUME ApprovalsInv, NEW s \in Sessions, WriteLimit(s) PROVE ApprovalsInv'
  <1>1. /\ session[s].phase = "write"
        /\ SessionOK(session[s])
        /\ session[s].kind \in Kinds
        /\ limits \in [Rows -> Limits \cup {Null, Gone}]
        /\ OneLimit
    BY DEF ApprovalsInv, TypeOK, SessionRecord, SessionsOK, WriteLimit
  <1>w. session[s].wants \in LimitWants
    BY <1>1 DEF SessionOK, WantsOf, WriteLimit
  <1>2. CASE Refuse(s)
    BY <1>2, RefuseKeeps
  <1>3. ASSUME Commit(s), limits' \in [Rows -> Limits \cup {Null, Gone}], OneLimit'
        PROVE  ApprovalsInv'
    <2>1. TablesOK'
      BY <1>3 DEF ApprovalsInv, TypeOK, TablesOK, WriteLimit, Commit
    <2> QED
      BY <1>1, <1>3, <2>1, CommitKeeps
  <1>4. CASE InsertLimit(s)
    <2>1. NewLimit(session[s].wants) \in Limits
      <3> (session[s].wants.unlimited = TRUE) \in BOOLEAN
        OBVIOUS
      <3> session[s].wants.value \in Ceilings \cup {Null}
        BY <1>w DEF LimitWants
      <3> QED
        BY DEF Limits, NewLimit
    <2>2. ASSUME Live(limits) = {}, NEW o \in Fresh(limits), Commit(s),
                 limits' = [limits EXCEPT ![o] = NewLimit(session[s].wants)]
          PROVE  ApprovalsInv'
      <3>1. limits' \in [Rows -> Limits \cup {Null, Gone}]
        BY <1>1, <2>1, <2>2 DEF Fresh
      <3>2. OneLimit'
        BY <1>1, <2>2 DEF OneLimit, Live, Fresh
      <3> QED
        BY <1>3, <2>2, <3>1, <3>2
    <2> QED
      BY <1>2, <1>4, <2>2 DEF InsertLimit
  <1>5. CASE UpdateLimit(s)
    <2> DEFINE o == session[s].row
    <2>1. CASE UNCHANGED limits /\ Commit(s)
      BY <1>1, <1>3, <2>1 DEF OneLimit, Live
    <2>2. CASE /\ o \in Live(limits)
               /\ Commit(s)
               /\ limits' = [limits EXCEPT ![o] =
                     UpdatedLimit(limits[o], session[s].view, session[s].wants)]
      <3>1. limits[o] \in Limits
        BY <1>1, <2>2 DEF Live
      <3>2. UpdatedLimit(limits[o], session[s].view, session[s].wants) \in Limits
        BY <1>w, <3>1, LimitRows
      <3>3. OneLimit'
        BY <1>1, <2>2 DEF OneLimit, Live
      <3> QED
        BY <1>1, <1>3, <2>2, <3>2, <3>3
    <2> QED
      BY <1>2, <1>5, <2>1, <2>2 DEF UpdateLimit
  <1>6. CASE DeleteLimit(s)
    <2>1. limits' \in [Rows -> Limits \cup {Null, Gone}] /\ OneLimit'
      BY <1>1, <1>6 DEF DeleteLimit, OneLimit, Live
    <2> QED
      BY <1>3, <1>6, <2>1 DEF DeleteLimit
  <1> QED
    BY <1>4, <1>5, <1>6 DEF WriteLimit

LEMMA StepKeeps ==
    ASSUME ApprovalsInv, NEW s \in Sessions, Step(s) PROVE ApprovalsInv'
  <1>1. /\ session[s] \in SessionRecord
        /\ SessionOK(session[s])
        /\ overrides \in [Rows -> Overrides \cup {Null, Gone}]
        /\ limits \in [Rows -> Limits \cup {Null, Gone}]
    BY DEF ApprovalsInv, TypeOK, SessionsOK
  <1>2. CASE Claim(s)
    <2>1. session[s].request \in Requests /\ "update" \in Ops
      BY <1>1, <1>2 DEF SessionOK, Claim, Ops
    <2>2. CASE Reach(s, "lookup", "update", Null, Null)
               /\ request[session[s].request].status = "PENDING"
      BY <1>2, <2>1, <2>2, ReachKeeps DEF Claim
    <2> QED
      BY <1>2, <2>2, RefuseKeeps DEF Claim
  <1>3. ASSUME NEW table, Lookup(s, table),
               \A o \in Live(table) : table[o] \in RowsOf(session[s].kind)
        PROVE  ApprovalsInv'
    <2>1. {"create", "update"} \subseteq Ops
      BY DEF Ops
    <2>2. CASE Reach(s, "read", "create", Null, Null)
      BY <1>3, <2>1, <2>2, ReachKeeps DEF Lookup
    <2>3. ASSUME NEW o \in Rows, Live(table) = {o}, Reach(s, "read", "update", o, table[o])
          PROVE  ApprovalsInv'
      BY <1>3, <2>1, <2>3, ReachKeeps DEF Lookup
    <2> QED
      BY <1>3, <2>2, <2>3, RefuseKeeps DEF Lookup
  <1>4. ASSUME NEW table, Read(s, table),
               \A o \in Live(table) : table[o] \in RowsOf(session[s].kind)
        PROVE  ApprovalsInv'
    <2>1. "create" \in Ops /\ session[s].op \in Ops
      BY <1>1 DEF Ops, SessionRecord
    <2>2. CASE Reach(s, "write", "create", Null, Null)
      BY <1>4, <2>1, <2>2, ReachKeeps DEF Read
    <2>3. ASSUME NEW o \in Rows, Live(table) = {o},
                 Reach(s, "write", session[s].op, o,
                       IF session[s].row = o THEN session[s].view ELSE table[o])
          PROVE  ApprovalsInv'
      <3>1. o # Null
        BY ApprovalsAssumption DEF ApprovalsAssumption
      <3> DEFINE view == IF session[s].row = o THEN session[s].view ELSE table[o]
      <3>2. view \in RowsOf(session[s].kind)
        BY <1>1, <1>4, <2>3, <3>1 DEF SessionOK, Read
      <3>3. Reach(s, "write", session[s].op, o, view)
        BY <2>3
      <3> HIDE DEF view
      <3> QED
        BY <1>4, <2>1, <3>1, <3>2, <3>3, ReachKeeps DEF Read
    <2> QED
      BY <1>4, <2>2, <2>3, RefuseKeeps DEF Read
  <1>6. /\ session[s].kind = "feature" =>
              \A o \in Live(overrides) : overrides[o] \in RowsOf(session[s].kind)
        /\ session[s].kind = "limit" =>
              \A o \in Live(limits) : limits[o] \in RowsOf(session[s].kind)
    BY <1>1 DEF RowsOf, Live, SessionRecord
  <1>7. CASE LookupRow(s)
    BY <1>3, <1>6, <1>7 DEF LookupRow
  <1>8. CASE ReadRow(s)
    BY <1>4, <1>6, <1>8 DEF ReadRow
  <1>9. CASE Abort(s)
    BY <1>9, RefuseKeeps DEF Abort
  <1> QED
    BY <1>2, <1>7, <1>8, <1>9, WriteOverrideKeeps, WriteLimitKeeps DEF Step

LEMMA NextKeeps == ApprovalsInv /\ [Next]_vars => ApprovalsInv'
  <1> SUFFICES ASSUME ApprovalsInv, [Next]_vars PROVE ApprovalsInv'
    OBVIOUS
  <1>1. CASE Filing
    <2>1. ASSUME NEW r \in Requests, NEW by \in Users \cup {Null}, FileFeature(r, by)
          PROVE  ApprovalsInv'
      <3>1. "feature" \in Kinds /\ FeatureAsk \in WantsOf("feature")
        BY DEF Kinds, WantsOf, FeatureAsk, OverrideWants, Expiries
      <3> QED
        BY <2>1, <3>1, FileKeeps DEF FileFeature
    <2>2. ASSUME NEW r \in Requests, NEW by \in Users \cup {Null}, NEW ask \in LimitAsks,
                 FileLimit(r, by, ask)
          PROVE  ApprovalsInv'
      <3>1. "limit" \in Kinds /\ ask \in WantsOf("limit")
        BY DEF Kinds, WantsOf, LimitAsks
      <3> QED
        BY <2>2, <3>1, FileKeeps DEF FileLimit
    <2> QED
      BY <1>1, <2>1, <2>2 DEF Filing
  <1>2. CASE Deciding
    <2>1. ASSUME NEW r \in Requests, NEW user \in Users, NEW s \in Sessions,
                 StartApprove(s, r, user)
          PROVE  ApprovalsInv'
      <3>1. request[r] \in RequestRow /\ request[r].wants \in WantsOf(request[r].kind)
        BY DEF ApprovalsInv, TypeOK, SessionsOK
      <3>2. request[r].kind \in Kinds /\ "update" \in Ops
        BY <3>1 DEF RequestRow, Ops
      <3>3. request[r].status # Null
        BY <2>1, ApprovalsAssumption DEF ApprovalsAssumption, StartApprove, Statuses
      <3> QED
        BY <2>1, <3>1, <3>2, <3>3, StartKeeps DEF StartApprove
    <2> QED
      BY <1>2, <2>1, DeclineKeeps DEF Deciding
  <1>3. CASE Administering
    <2>1. ASSUME NEW s \in Sessions, NEW op \in Ops, NEW wants \in OverrideWants,
                 StartOverride(s, op, wants)
          PROVE  ApprovalsInv'
      <3>1. "feature" \in Kinds /\ wants \in WantsOf("feature")
        BY DEF Kinds, WantsOf
      <3> QED
        BY <2>1, <3>1, StartKeeps DEF StartOverride
    <2>2. ASSUME NEW s \in Sessions, NEW op \in Ops, NEW wants \in LimitWants,
                 StartLimit(s, op, wants)
          PROVE  ApprovalsInv'
      <3>1. "limit" \in Kinds /\ wants \in WantsOf("limit")
        BY DEF Kinds, WantsOf
      <3> QED
        BY <2>2, <3>1, StartKeeps DEF StartLimit
    <2> QED
      BY <1>3, <2>1, <2>2 DEF Administering
  <1>4. CASE Tick
    <2>1. now' \in 0 .. Horizon
      BY <1>4, ApprovalsAssumption DEF ApprovalsAssumption, ApprovalsInv, TypeOK, Tick
    <2> QED
      BY <1>4, <2>1 DEF Tick, ApprovalsInv, TypeOK, SessionsOK, ClaimsOK, Holds,
                        FourEyes, Reviews, ExecutedOnce, OneLimit, Live
  <1>5. CASE UNCHANGED vars
    BY <1>5 DEF vars, ApprovalsInv, TypeOK, SessionsOK, ClaimsOK, Holds,
                FourEyes, Reviews, ExecutedOnce, OneLimit, Live
  <1> QED
    BY <1>1, <1>2, <1>3, <1>4, <1>5, StepKeeps DEF Next

LEMMA InitFine == Init => ApprovalsInv
  <1> SUFFICES ASSUME Init PROVE ApprovalsInv
    OBVIOUS
  <1>1. /\ FeatureAsk \in OverrideWants /\ "feature" \in Kinds
        /\ NoApproval \in RequestRow
        /\ NoApproval.status = Null /\ NoApproval.wants \in WantsOf(NoApproval.kind)
    <2>1. FeatureAsk \in OverrideWants /\ "feature" \in Kinds
      BY DEF FeatureAsk, OverrideWants, Expiries, Kinds
    <2> HIDE DEF FeatureAsk
    <2> QED
      BY <2>1 DEF NoApproval, Approval, RequestRow, WantsOf
  <1>2. Null # "APPROVED"
    BY ApprovalsAssumption DEF ApprovalsAssumption, Statuses, Decided
  <1> HIDE DEF NoApproval
  <1>3. TypeOK
    BY <1>1, DoneIsFine, ApprovalsAssumption
    DEF ApprovalsAssumption, Init, TypeOK, SomeOverrides, SomeLimits
  <1>4. SessionsOK /\ FourEyes /\ ExecutedOnce
    BY <1>1, <1>2, DoneIsFine DEF Init, SessionsOK, FourEyes, ExecutedOnce
  <1>5. ClaimsOK
    BY DoneIsFine DEF Init, ClaimsOK, Holds, Locks
  <1>6. OneLimit
    BY DEF Init, OneLimit, SomeLimits
  <1> QED
    BY <1>3, <1>4, <1>5, <1>6 DEF ApprovalsInv

(* Whatever requests overlap or die: nobody approves their own request, a claim
   is exclusive until its commit, and the number of executed mutations is one
   for an approved request and zero for every other.                       *)
THEOREM ApprovalsInvariant == Spec => []ApprovalsInv
  BY InitFine, NextKeeps, PTL DEF Spec

-----------------------------------------------------------------------------
(* Every step is a step of ApprovalDecision or invisible to it. *)
LEMMA DecisionStep ==
    ApprovalsInv /\ [Next]_vars => [Approvals!Next]_(Approvals!vars)
  <1> DEFINE decision(req) == [r \in Requests |-> req[r].status]
  <1> SUFFICES ASSUME ApprovalsInv, [Next]_vars
               PROVE  \/ Approvals!Next
                      \/ decision(request') = decision(request) /\ effects' = effects
    BY DEF Approvals!vars
  <1>1. request \in [Requests -> RequestRow] /\ effects \in [Requests -> Nat]
    BY DEF ApprovalsInv, TypeOK
  <1>2. CASE UNCHANGED <<request, effects>>
    BY <1>2
  <1>3. ASSUME NEW r \in Requests, NEW kind, NEW wants, NEW by, File(r, kind, wants, by)
        PROVE  Approvals!Next
    <2>1. decision(request') = [decision(request) EXCEPT ![r] = "PENDING"]
      BY <1>1, <1>3 DEF File, Approval
    <2>2. Approvals!File(r)
      BY <1>3, <2>1 DEF File, Approvals!File
    <2> QED
      BY <2>2 DEF Approvals!Next
  <1>4. ASSUME NEW r \in Requests, NEW user, NEW outcome \in Outcomes,
               Decline(r, outcome, user)
        PROVE  Approvals!Next
    <2>1. decision(request') = [decision(request) EXCEPT ![r] = outcome]
      BY <1>1, <1>4 DEF Decline, Decision, Approval
    <2>2. Approvals!Decline(r, outcome)
      BY <1>4, <2>1 DEF Decline, Approvals!Decline
    <2> QED
      BY <2>2 DEF Approvals!Next, Outcomes, Decided
  <1>5. ASSUME NEW r \in Requests, NEW user, request[r].status = "PENDING",
               request' = Decision(r, "APPROVED", user),
               effects' = [effects EXCEPT ![r] = @ + 1]
        PROVE  Approvals!Next
    <2>1. decision(request') = [decision(request) EXCEPT ![r] = "APPROVED"]
      BY <1>1, <1>5 DEF Decision, Approval
    <2>2. Approvals!Approve(r)
      BY <1>5, <2>1 DEF Approvals!Approve
    <2> QED
      BY <2>2 DEF Approvals!Next
  <1>6. ASSUME NEW s \in Sessions, session[s].phase = "write", Commit(s)
        PROVE  Approvals!Next \/ UNCHANGED <<request, effects>>
    <2>1. CASE session[s].request = Null
      BY <1>6, <2>1 DEF Commit
    <2>2. CASE session[s].request # Null
      <3>1. session[s].request \in Requests
        BY <2>2 DEF ApprovalsInv, TypeOK, SessionRecord
      <3>2. request[session[s].request].status = "PENDING"
        BY <1>6, <3>1 DEF ApprovalsInv, ClaimsOK, Holds
      <3> QED
        BY <1>5, <1>6, <2>2, <3>1, <3>2 DEF Commit
    <2> QED
      BY <2>1, <2>2
  <1>7. ASSUME NEW s \in Sessions, Step(s)
        PROVE  Approvals!Next \/ UNCHANGED <<request, effects>>
    BY <1>6, <1>7
    DEF Step, Claim, LookupRow, Lookup, ReadRow, Read, Reach, Refuse, Abort,
        WriteOverride, InsertOverride, UpdateOverride, DeleteOverride,
        WriteLimit, InsertLimit, UpdateLimit, DeleteLimit
  <1> HIDE DEF decision
  <1>8. Filing \/ Deciding => Approvals!Next \/ UNCHANGED <<request, effects>>
    BY <1>3, <1>4 DEF Filing, FileFeature, FileLimit, Deciding, StartApprove
  <1>9. Administering \/ Tick => UNCHANGED <<request, effects>>
    BY DEF Administering, StartOverride, StartLimit, Tick
  <1> QED
    BY <1>2, <1>7, <1>8, <1>9 DEF Next, vars, decision

(* Approvals implement ApprovalDecision: a request and its mutation are decided
   and executed together, exactly once, from PENDING only.                 *)
THEOREM ApprovalsImplementDecision == Spec => ImplementsDecision
  <1>1. Init => Approvals!Init
    BY DEF Init, Approvals!Init, NoApproval, Approval
  <1> QED
    BY <1>1, DecisionStep, ApprovalsInvariant, PTL
    DEF Spec, ImplementsDecision, Approvals!Spec

-----------------------------------------------------------------------------
(* One operation at a time: the rows a session has looked up are still the
   rows of the table when it writes, and what it was asked for is still what
   the request asks for.                                                   *)
Table(kind) == IF kind = "feature" THEN overrides ELSE limits

Over(s) == session[s].phase \in {"idle", "done"}

Current(v) ==
    /\ v.phase = "read" /\ v.row # Null =>
          Live(Table(v.kind)) = {v.row} /\ v.view = Table(v.kind)[v.row]
    /\ v.phase = "write" /\ v.op = "create" => Live(Table(v.kind)) = {}
    /\ v.phase = "write" /\ v.op # "create" =>
          Live(Table(v.kind)) = {v.row} /\ v.view = Table(v.kind)[v.row]

Approves(v) ==
    v.request # Null => /\ v.wants = request[v.request].wants
                        /\ v.kind = request[v.request].kind
                        /\ v.op # "remove"

(* Only what the schema lets through is filed. *)
Filed == \A r \in Requests :
            request[r].status # Null =>
               IF request[r].kind = "feature" THEN request[r].wants = FeatureAsk
               ELSE request[r].wants \in LimitAsks

OneOverride == \A a, b \in Live(overrides) : a = b

Alone ==
    /\ \A s, x \in Sessions : s = x \/ Over(s) \/ Over(x)
    /\ \A s \in Sessions : ~Over(s) => Current(session[s]) /\ Approves(session[s])

SerialInv == scenario.serial => OneOverride /\ Filed /\ Alone

LEMMA ScenarioStepKeeps == ApprovalsInv /\ [MCNext]_<<vars, scenario>> => ApprovalsInv'
  <1> SUFFICES ASSUME ApprovalsInv, [MCNext]_<<vars, scenario>> PROVE ApprovalsInv'
    OBVIOUS
  <1>1. CASE [Next]_vars
    BY <1>1, NextKeeps
  <1>2. ASSUME session' = [s \in Sessions |-> Idle],
               UNCHANGED <<request, overrides, limits, planGrants, now, effects>>
        PROVE  ApprovalsInv'
    <2>1. TypeOK' /\ OneLimit'
      BY <1>2, DoneIsFine DEF ApprovalsInv, TypeOK, OneLimit, Live
    <2>2. SessionsOK' /\ ExecutedOnce'
      BY <1>2, DoneIsFine DEF ApprovalsInv, SessionsOK, ExecutedOnce
    <2>3. FourEyes'
      BY <1>2 DEF ApprovalsInv, FourEyes, Reviews, Idle, Session
    <2>4. ClaimsOK'
      BY <1>2, DoneIsFine DEF ClaimsOK, Holds, Locks
    <2> QED
      BY <2>1, <2>2, <2>3, <2>4 DEF ApprovalsInv
  <1> QED
    BY <1>1, <1>2 DEF MCNext, SerialNext, Next, vars

LEMMA ScenarioInvariant == MCSpec => []ApprovalsInv
  <1>1. MCInit => ApprovalsInv
    BY InitFine DEF MCInit
  <1> QED
    BY <1>1, ScenarioStepKeeps, PTL DEF MCSpec

(* One session acts; no other is under way. *)
LEMMA OneActs ==
    ASSUME NEW s \in Sessions, \A x \in Sessions : x # s => Over(x),
           \A x \in Sessions : x # s => session'[x] = session[x],
           Over(s)' \/ (Current(session[s])' /\ Approves(session[s])')
    PROVE  Alone'
  BY DEF Alone, Over

(* A session that reads on, with what it found in its table. *)
LEMMA ReachAlone ==
    ASSUME ApprovalsInv, OneOverride, Filed, Alone, NEW s \in Sessions, ~Over(s),
           NEW phase, NEW op, NEW row, NEW view,
           Reach(s, phase, op, row, view), op # "remove" \/ op = session[s].op,
           phase = "read" /\ row # Null =>
               /\ Live(Table(session[s].kind)) = {row}
               /\ view = Table(session[s].kind)[row],
           phase = "write" =>
               IF op = "create" THEN Live(Table(session[s].kind)) = {}
               ELSE /\ Live(Table(session[s].kind)) = {row}
                    /\ view = Table(session[s].kind)[row]
    PROVE  OneOverride' /\ Filed' /\ Alone'
  <1>1. OneOverride' /\ Filed'
    BY DEF OneOverride, Filed, Live, Reach
  <1>2. session \in [Sessions -> SessionRecord]
    BY DEF ApprovalsInv, TypeOK
  <1>3. /\ session'[s].phase = phase /\ session'[s].kind = session[s].kind
        /\ session'[s].op = op /\ session'[s].wants = session[s].wants
        /\ session'[s].request = session[s].request
        /\ session'[s].row = row /\ session'[s].view = view
        /\ \A x \in Sessions : x # s => session'[x] = session[x]
    BY <1>2 DEF Reach, Become, Session
  <1>4. \A x \in Sessions : x # s => Over(x)
    BY DEF Alone
  <1>5. Current(session[s])'
    BY <1>3 DEF Current, Table, Live, Reach
  <1>6. Approves(session[s])'
    BY <1>3 DEF Alone, Approves, Reach
  <1> QED
    BY <1>1, <1>3, <1>4, <1>5, <1>6, OneActs

(* A session that ends, leaving the requests' wishes alone. *)
LEMMA EndAlone ==
    ASSUME ApprovalsInv, Filed, Alone, NEW s \in Sessions, ~Over(s), Become(s, Done),
           \/ request' = request
           \/ \E r \in Requests, outcome \in Statuses : \E user :
                 /\ request[r].status # Null /\ request' = Decision(r, outcome, user)
    PROVE  Filed' /\ Alone'
  <1>1. session \in [Sessions -> SessionRecord] /\ request \in [Requests -> RequestRow]
    BY DEF ApprovalsInv, TypeOK
  <1>2. Filed'
    BY <1>1 DEF Filed, Decision, Approval
  <1>3. /\ session'[s].phase = "done"
        /\ \A x \in Sessions : x # s => session'[x] = session[x]
    BY <1>1 DEF Become, Done, Session
  <1>4. \A x \in Sessions : x # s => Over(x)
    BY DEF Alone
  <1> QED
    BY <1>2, <1>3, <1>4, OneActs DEF Over

LEMMA RefuseAlone ==
    ASSUME ApprovalsInv, OneOverride, Filed, Alone, NEW s \in Sessions, ~Over(s), Refuse(s)
    PROVE  OneOverride' /\ Filed' /\ Alone'
  <1>1. OneOverride'
    BY DEF OneOverride, Live, Refuse
  <1> QED
    BY <1>1, EndAlone DEF Refuse

LEMMA CommitAlone ==
    ASSUME ApprovalsInv, Filed, Alone, NEW s \in Sessions, session[s].phase = "write",
           Commit(s), OneOverride'
    PROVE  OneOverride' /\ Filed' /\ Alone'
  <1>1. ~Over(s)
    BY DEF Over
  <1>2. CASE session[s].request = Null
    BY <1>1, <1>2, EndAlone DEF Commit
  <1>3. CASE session[s].request # Null
    <2>1. session[s].request \in Requests
      BY <1>3 DEF ApprovalsInv, TypeOK, SessionRecord
    <2>2. request[session[s].request].status # Null
      BY <1>3 DEF ApprovalsInv, FourEyes, Reviews
    <2>3. "APPROVED" \in Statuses
      BY DEF Statuses, Decided
    <2> QED
      BY <1>1, <1>3, <2>1, <2>2, <2>3, EndAlone DEF Commit
  <1> QED
    BY <1>2, <1>3

(* Writing keeps the overrides to one row: a create found none. *)
LEMMA WriteAlone ==
    ASSUME ApprovalsInv, OneOverride, Filed, Alone, NEW s \in Sessions,
           WriteOverride(s) \/ WriteLimit(s)
    PROVE  OneOverride' /\ Filed' /\ Alone'
  <1>1. /\ session[s].phase = "write" /\ ~Over(s) /\ Current(session[s])
        /\ overrides \in [Rows -> Overrides \cup {Null, Gone}]
    BY DEF WriteOverride, WriteLimit, Over, Alone, ApprovalsInv, TypeOK
  <1>2. CASE Refuse(s)
    BY <1>1, <1>2, RefuseAlone
  <1>3. CASE WriteLimit(s)
    <2>1. OneOverride'
      BY <1>3 DEF WriteLimit, OneOverride, Live
    <2> QED
      BY <1>1, <1>2, <1>3, <2>1, CommitAlone DEF WriteLimit, InsertLimit, UpdateLimit, DeleteLimit
  <1>4. CASE WriteOverride(s)
    <2>1. CASE InsertOverride(s)
      <3>1. Live(overrides) = {}
        BY <1>1, <1>4, <2>1 DEF InsertOverride, WriteOverride, Current, Table
      <3>2. OneOverride'
        BY <1>1, <2>1, <3>1 DEF InsertOverride, OneOverride, Live
      <3> QED
        BY <1>1, <2>1, <3>2, CommitAlone DEF InsertOverride
    <2>2. CASE UpdateOverride(s) /\ ~Refuse(s)
      <3>1. OneOverride' /\ Commit(s)
        BY <1>1, <2>2 DEF UpdateOverride, OneOverride, Live
      <3> QED
        BY <1>1, <3>1, CommitAlone
    <2>3. CASE DeleteOverride(s)
      <3>1. OneOverride' /\ Commit(s)
        BY <1>1, <2>3 DEF DeleteOverride, OneOverride, Live
      <3> QED
        BY <1>1, <3>1, CommitAlone
    <2> QED
      BY <1>2, <1>4, <2>1, <2>2, <2>3 DEF WriteOverride
  <1> QED
    BY <1>3, <1>4

LEMMA StepAlone ==
    ASSUME ApprovalsInv, OneOverride, Filed, Alone, NEW s \in Sessions, Step(s)
    PROVE  OneOverride' /\ Filed' /\ Alone'
  <1>1. /\ session[s] \in SessionRecord /\ SessionOK(session[s])
    BY DEF ApprovalsInv, TypeOK, SessionsOK
  <1>2. CASE WriteOverride(s) \/ WriteLimit(s)
    BY <1>2, WriteAlone
  <1>3. CASE Claim(s)
    BY <1>3, ReachAlone, RefuseAlone DEF Claim, Over
  <1>4. CASE Abort(s)
    BY <1>4, RefuseAlone DEF Abort, Over
  <1>5. CASE LookupRow(s)
    <2>1. Lookup(s, Table(session[s].kind)) /\ ~Over(s)
      BY <1>5 DEF LookupRow, Lookup, Table, Over
    <2> QED
      BY <2>1, ReachAlone, RefuseAlone DEF Lookup
  <1>6. CASE ReadRow(s)
    <2> DEFINE table == Table(session[s].kind)
    <2>1. Read(s, table) /\ ~Over(s) /\ session[s].phase = "read"
      BY <1>6 DEF ReadRow, Read, Table, Over
    <2>2. Current(session[s])
      BY <2>1 DEF Alone
    <2>3. \A o \in Rows : session[s].row = o => session[s].view = table[o]
      BY <2>1, <2>2, ApprovalsAssumption DEF ApprovalsAssumption, Current
    <2> HIDE DEF table
    <2>4. CASE Reach(s, "write", "create", Null, Null) /\ Live(table) = {}
      BY <2>1, <2>4, ReachAlone DEF table
    <2>5. ASSUME NEW o \in Rows, Live(table) = {o}, session[s].op # "create",
                 Reach(s, "write", session[s].op, o,
                       IF session[s].row = o THEN session[s].view ELSE table[o])
          PROVE  OneOverride' /\ Filed' /\ Alone'
      <3>1. Reach(s, "write", session[s].op, o, table[o])
        BY <2>3, <2>5
      <3> QED
        BY <2>1, <2>5, <3>1, ReachAlone DEF table
    <2> QED
      BY <2>1, <2>4, <2>5, RefuseAlone DEF Read
  <1> QED
    BY <1>2, <1>3, <1>4, <1>5, <1>6 DEF Step

(* A session starts while no other is under way. *)
LEMMA StartAlone ==
    ASSUME ApprovalsInv, OneOverride, Filed, Alone, AllDone, NEW s \in Sessions,
           NEW phase \in {"claim", "read"}, NEW kind, NEW op, NEW wants, NEW r, NEW user,
           Become(s, Session(phase, kind, op, wants, r, user, Null, Null)),
           r # Null => wants = request[r].wants /\ kind = request[r].kind /\ op # "remove",
           UNCHANGED <<request, overrides>>
    PROVE  OneOverride' /\ Filed' /\ Alone'
  <1>1. session \in [Sessions -> SessionRecord]
    BY DEF ApprovalsInv, TypeOK
  <1>2. /\ session'[s].phase = phase /\ session'[s].kind = kind /\ session'[s].op = op
        /\ session'[s].wants = wants /\ session'[s].request = r /\ session'[s].row = Null
        /\ \A x \in Sessions : x # s => session'[x] = session[x]
    BY <1>1 DEF Become, Session
  <1>3. \A x \in Sessions : x # s => Over(x)
    BY DEF AllDone, Over
  <1>4. Current(session[s])' /\ Approves(session[s])'
    BY <1>2 DEF Current, Approves
  <1>5. OneOverride' /\ Filed'
    BY DEF OneOverride, Live, Filed
  <1> QED
    BY <1>2, <1>3, <1>4, <1>5, OneActs

(* Requests are filed and declined, and the clock ticks, between operations. *)
LEMMA IdleAlone ==
    ASSUME ApprovalsInv, OneOverride, Filed, Alone, AllDone,
           Filing \/ Deciding \/ Administering \/ Tick
    PROVE  OneOverride' /\ Filed' /\ Alone'
  <1>1. ASSUME session' \in {session, [s \in Sessions |-> Idle]}, UNCHANGED overrides
        PROVE  OneOverride' /\ Alone'
    <2>1. \A s \in Sessions : Over(s)'
      BY <1>1 DEF AllDone, Over, Idle, Session
    <2> QED
      BY <1>1, <2>1 DEF OneOverride, Live, Alone
  <1>2. request \in [Requests -> RequestRow]
    BY DEF ApprovalsInv, TypeOK
  <1>3. CASE Filing
    <2>1. ASSUME NEW r \in Requests, NEW kind, NEW wants, NEW by, File(r, kind, wants, by),
                 IF kind = "feature" THEN wants = FeatureAsk ELSE wants \in LimitAsks
          PROVE  Filed'
      BY <1>2, <2>1 DEF Filed, File, Approval
    <2>2. Filed'
      BY <1>3, <2>1 DEF Filing, FileFeature, FileLimit
    <2> QED
      BY <1>1, <1>3, <2>2 DEF Filing, FileFeature, FileLimit, File
  <1>4. CASE Deciding
    <2>1. ASSUME NEW r \in Requests, NEW outcome \in Outcomes, NEW user \in Users,
                 Decline(r, outcome, user)
          PROVE  OneOverride' /\ Filed' /\ Alone'
      <3>1. "PENDING" # Null
        BY ApprovalsAssumption DEF ApprovalsAssumption, Statuses
      <3>2. Filed'
        BY <1>2, <2>1, <3>1 DEF Filed, Decline, Decision, Approval
      <3> QED
        BY <1>1, <2>1, <3>2 DEF Decline
    <2>2. ASSUME NEW r \in Requests, NEW user \in Users, NEW s \in Sessions,
                 StartApprove(s, r, user)
          PROVE  OneOverride' /\ Filed' /\ Alone'
      BY <2>2, StartAlone DEF StartApprove
    <2> QED
      BY <1>4, <2>1, <2>2 DEF Deciding
  <1>5. CASE Administering
    <2>1. ASSUME NEW s \in Sessions, NEW op \in Ops, NEW wants,
                 StartOverride(s, op, wants) \/ StartLimit(s, op, wants)
          PROVE  OneOverride' /\ Filed' /\ Alone'
      BY <2>1, StartAlone DEF StartOverride, StartLimit
    <2> QED
      BY <1>5, <2>1 DEF Administering
  <1>6. CASE Tick
    BY <1>1, <1>6 DEF Tick, Filed
  <1> QED
    BY <1>3, <1>4, <1>5, <1>6

LEMMA SerialInit == MCInit => SerialInv
  <1> SUFFICES ASSUME MCInit PROVE OneOverride /\ Filed /\ Alone
    BY DEF SerialInv
  <1>1. OneOverride
    BY DEF MCInit, Init, SomeOverrides, OneOverride
  <1>2. Filed
    BY DEF MCInit, Init, Filed, NoApproval, Approval
  <1>3. \A s \in Sessions : Over(s)
    BY DEF MCInit, Init, Over, Idle, Session
  <1> QED
    BY <1>1, <1>2, <1>3 DEF Alone

LEMMA SerialStep ==
    ApprovalsInv /\ SerialInv /\ [MCNext]_<<vars, scenario>> => SerialInv'
  <1> SUFFICES ASSUME ApprovalsInv, SerialInv, [MCNext]_<<vars, scenario>>, scenario'.serial
               PROVE  OneOverride' /\ Filed' /\ Alone'
    BY DEF SerialInv
  <1>1. OneOverride /\ Filed /\ Alone /\ scenario.serial
    BY DEF SerialInv, MCNext
  <1>2. CASE UNCHANGED <<vars, scenario>>
    BY <1>1, <1>2 DEF vars, OneOverride, Live, Filed, Alone, Over, Current, Table, Approves
  <1>3. CASE SerialNext
    <2>1. ASSUME session' = [s \in Sessions |-> Idle],
                 UNCHANGED <<request, overrides, limits, planGrants, now, effects>>
          PROVE  OneOverride' /\ Filed' /\ Alone'
      <3>1. \A s \in Sessions : Over(s)'
        BY <2>1 DEF Over, Idle, Session
      <3> QED
        BY <1>1, <2>1, <3>1 DEF OneOverride, Live, Filed, Alone
    <2> QED
      BY <1>1, <1>3, <2>1, IdleAlone, StepAlone DEF SerialNext
  <1> QED
    BY <1>1, <1>2, <1>3 DEF MCNext

LEMMA SerialInvariant == MCSpec => []SerialInv
  BY SerialInit, SerialStep, ScenarioInvariant, PTL DEF MCSpec

(* The existence checks of the service keep a tenant to one override row of a
   feature as long as operations do not overlap, whichever of them die.    *)
THEOREM OneOverrideOneAtATime == MCSpec => []OneOverrideSerially
  <1>1. SerialInv => OneOverrideSerially
    BY DEF SerialInv, OneOverride, OneOverrideSerially
  <1> QED
    BY <1>1, SerialInvariant, PTL

(* An approval's commit leaves the override it asked for enabled. *)
LEMMA FeatureGranted ==
    ASSUME ApprovalsInv, Filed, Alone, NEW s \in Sessions, WriteOverride(s), ~Refuse(s),
           session[s].request \in Requests
    PROVE  \E o \in Live(overrides)' : overrides'[o].enabled
  <1> DEFINE v == session[s]
  <1>1. /\ v.phase = "write" /\ v.kind = "feature" /\ ~Over(s)
        /\ overrides \in [Rows -> Overrides \cup {Null, Gone}]
    BY DEF WriteOverride, Over, ApprovalsInv, TypeOK
  <1>2. Current(v) /\ Approves(v) /\ v.request # Null
    BY <1>1, ApprovalsAssumption DEF Alone, ApprovalsAssumption
  <1>3. v.wants = FeatureAsk /\ v.op # "remove"
    <2>1. request[v.request].status # Null
      BY <1>2 DEF ApprovalsInv, FourEyes, Reviews
    <2> QED
      BY <1>1, <1>2, <2>1 DEF Filed, Approves
  <1>4. /\ v.wants \in OverrideWants /\ v.wants.enabled = TRUE /\ v.wants.enabled # Null
        /\ v.request \in Requests
    <2>1. FeatureAsk.enabled = TRUE /\ FeatureAsk \in OverrideWants
      BY DEF FeatureAsk, OverrideWants, Expiries
    <2>2. TRUE # Null
      <3>1. TRUE \in BOOLEAN
        OBVIOUS
      <3> QED
        BY <3>1, ApprovalsAssumption, Zenon DEF ApprovalsAssumption
    <2> HIDE DEF FeatureAsk
    <2> QED
      BY <1>3, <2>1, <2>2
  <1>5. CASE InsertOverride(s)
    <2>1. NewOverride(v.wants).enabled = TRUE
      BY <1>4 DEF NewOverride
    <2>2. NewOverride(v.wants) \notin {Null, Gone}
      <3>1. \A row \in Overrides : NewOverride(v.wants) \in Overrides
        BY <1>4, OverrideRows
      <3>2. [enabled |-> TRUE, expires_at |-> Null] \in Overrides
        BY DEF Overrides, Expiries
      <3> QED
        BY <3>1, <3>2, RowsAssumption DEF RowsAssumption
    <2>3. PICK o \in Rows : overrides' = [overrides EXCEPT ![o] = NewOverride(v.wants)]
      BY <1>5 DEF InsertOverride, Fresh
    <2> QED
      BY <1>1, <2>1, <2>2, <2>3 DEF Live
  <1>6. CASE UpdateOverride(s)
    <2> DEFINE o == v.row
    <2>1. o \in Live(overrides) /\ v.view = overrides[o] /\ overrides[o] \in Overrides
      BY <1>1, <1>2, <1>6 DEF UpdateOverride, Current, Table, Live
    <2>2. CASE ~ChangesOverride(v.view, v.wants)
      <3>1. overrides' = overrides
        BY <1>6, <2>2 DEF UpdateOverride
      <3>2. overrides[o].enabled
        BY <1>4, <2>1, <2>2 DEF ChangesOverride, Sets, Overrides
      <3> QED
        BY <2>1, <3>1, <3>2 DEF Live
    <2>3. CASE ChangesOverride(v.view, v.wants)
      <3> DEFINE row == UpdatedOverride(overrides[o], v.view, v.wants)
      <3>1. overrides' = [overrides EXCEPT ![o] = row]
        BY <1>6, <2>1, <2>3 DEF UpdateOverride
      <3>2. row.enabled = TRUE
        BY <1>4, <2>1 DEF UpdatedOverride, Sets, Overrides
      <3>3. row \in Overrides
        BY <1>4, <2>1, OverrideRows
      <3>4. row \notin {Null, Gone}
        BY <3>3, RowsAssumption DEF RowsAssumption
      <3> HIDE DEF row
      <3> QED
        BY <1>1, <2>1, <3>1, <3>2, <3>4 DEF Live
    <2> QED
      BY <2>2, <2>3
  <1> QED
    BY <1>3, <1>5, <1>6 DEF WriteOverride, DeleteOverride

(* An approval's commit leaves the tenant with the ceiling it asked for. *)
LEMMA LimitGranted ==
    ASSUME ApprovalsInv, Filed, Alone, NEW s \in Sessions, WriteLimit(s), ~Refuse(s),
           session[s].request \in Requests
    PROVE  \E o \in Live(limits)' :
              \/ limits'[o].unlimited
              \/ /\ session[s].wants.unlimited # TRUE
                 /\ limits'[o].value = session[s].wants.value
  <1> DEFINE v == session[s]
             Grants(row) == \/ row.unlimited
                            \/ v.wants.unlimited # TRUE /\ row.value = v.wants.value
  <1>1. /\ v.phase = "write" /\ v.kind = "limit" /\ ~Over(s)
        /\ limits \in [Rows -> Limits \cup {Null, Gone}]
    BY DEF WriteLimit, Over, ApprovalsInv, TypeOK
  <1>2. Current(v) /\ Approves(v) /\ v.request # Null
    BY <1>1, ApprovalsAssumption DEF Alone, ApprovalsAssumption
  <1>3. v.wants \in LimitAsks /\ v.op # "remove" /\ v.wants \in LimitWants
    <2>1. request[v.request].status # Null
      BY <1>2 DEF ApprovalsInv, FourEyes, Reviews
    <2> QED
      BY <1>1, <1>2, <2>1 DEF Filed, Approves, LimitAsks
  <1>4. v.wants.unlimited = TRUE \/ v.wants.value # Null
    BY <1>3 DEF LimitAsks
  <1>5. TRUE # Null
    <2>1. TRUE \in BOOLEAN
      OBVIOUS
    <2> QED
      BY <2>1, ApprovalsAssumption, Zenon DEF ApprovalsAssumption
  <1>6. ASSUME NEW o \in Rows, NEW row \in Limits, Grants(row),
               limits' = [limits EXCEPT ![o] = row] \/ (limits' = limits /\ row = limits[o])
        PROVE  \E q \in Live(limits)' : Grants(limits'[q])
    <2>1. row \notin {Null, Gone}
      BY RowsAssumption DEF RowsAssumption
    <2>2. limits'[o] = row /\ o \in Live(limits)'
      BY <1>1, <1>6, <2>1 DEF Live
    <2> QED
      BY <1>6, <2>2
  <1>7. CASE InsertLimit(s)
    <2>1. Grants(NewLimit(v.wants))
      BY <1>4 DEF NewLimit
    <2>2. NewLimit(v.wants) \in Limits
      <3>1. [value |-> Null, unlimited |-> FALSE] \in Limits
        BY DEF Limits
      <3> QED
        BY <1>3, <3>1, LimitRows
    <2>3. PICK o \in Rows : limits' = [limits EXCEPT ![o] = NewLimit(v.wants)]
      BY <1>7 DEF InsertLimit, Fresh
    <2> HIDE DEF Grants
    <2>4. \E q \in Live(limits)' : Grants(limits'[q])
      BY <1>6, <2>1, <2>2, <2>3
    <2> QED
      BY <2>4 DEF Grants
  <1>8. CASE UpdateLimit(s)
    <2> DEFINE o == v.row
    <2>1. o \in Live(limits) /\ v.view = limits[o] /\ limits[o] \in Limits /\ o \in Rows
      BY <1>1, <1>2, <1>8 DEF UpdateLimit, Current, Table, Live
    <2>2. limits[o].unlimited \in BOOLEAN
      BY <2>1 DEF Limits
    <2>3. CASE ~ChangesLimit(v.view, v.wants)
      <3>1. limits' = limits
        BY <1>8, <2>3 DEF UpdateLimit
      <3>2. Grants(limits[o])
        BY <1>4, <1>5, <2>1, <2>2, <2>3 DEF ChangesLimit, Sets
      <3> HIDE DEF Grants
      <3>3. \E q \in Live(limits)' : Grants(limits'[q])
        BY <1>6, <2>1, <3>1, <3>2
      <3> QED
        BY <3>3 DEF Grants
    <2>4. CASE ChangesLimit(v.view, v.wants)
      <3> DEFINE row == UpdatedLimit(limits[o], v.view, v.wants)
      <3>1. limits' = [limits EXCEPT ![o] = row]
        BY <1>8, <2>1, <2>4 DEF UpdateLimit
      <3>2. Grants(row)
        BY <1>4, <1>5, <2>1, <2>2 DEF UpdatedLimit, Sets
      <3>3. row \in Limits
        BY <1>3, <2>1, LimitRows
      <3> HIDE DEF row, Grants
      <3>4. \E q \in Live(limits)' : Grants(limits'[q])
        BY <1>6, <2>1, <3>1, <3>2, <3>3
      <3> QED
        BY <3>4 DEF Grants
    <2> QED
      BY <2>3, <2>4
  <1> QED
    BY <1>3, <1>7, <1>8 DEF WriteLimit, DeleteLimit

(* A request becomes APPROVED in the commit of a session that holds it. *)
LEMMA ApprovedByCommit ==
    ASSUME ApprovalsInv, MCNext, NEW r \in Requests,
           request[r].status = "PENDING", request'[r].status = "APPROVED"
    PROVE  \E s \in Sessions : /\ WriteOverride(s) \/ WriteLimit(s)
                               /\ ~Refuse(s) /\ session[s].request = r
                               /\ request'[r].kind = request[r].kind
                               /\ request'[r].wants = request[r].wants
  <1>1. request \in [Requests -> RequestRow] /\ request' # request
    BY DEF ApprovalsInv, TypeOK
  <1>2. ~Filing
    <2>1. ASSUME NEW q \in Requests, NEW kind, NEW wants, NEW by, File(q, kind, wants, by)
          PROVE  FALSE
      BY <1>1, <2>1 DEF File, Approval
    <2> QED
      BY <2>1 DEF Filing, FileFeature, FileLimit
  <1>3. ~Deciding
    <2>1. ASSUME NEW q \in Requests, NEW outcome \in Outcomes, NEW user,
                 Decline(q, outcome, user)
          PROVE  FALSE
      BY <1>1, <2>1 DEF Decline, Decision, Approval, Outcomes
    <2> QED
      BY <1>1, <2>1 DEF Deciding, StartApprove
  <1>4. ~Administering /\ ~Tick
    BY <1>1 DEF Administering, StartOverride, StartLimit, Tick
  <1>5. PICK s \in Sessions : Step(s)
    BY <1>1, <1>2, <1>3, <1>4 DEF MCNext, SerialNext, Next
  <1>6. ~Refuse(s)
    BY <1>1 DEF Refuse
  <1>7. WriteOverride(s) \/ WriteLimit(s)
    BY <1>1, <1>5, <1>6
    DEF Step, Claim, LookupRow, Lookup, ReadRow, Read, Reach, Abort
  <1>8. Commit(s)
    BY <1>1, <1>6, <1>7
    DEF WriteOverride, WriteLimit, InsertOverride, UpdateOverride, DeleteOverride,
        InsertLimit, UpdateLimit, DeleteLimit
  <1>9. /\ session[s].request \in Requests
        /\ request' = Decision(session[s].request, "APPROVED", session[s].user)
    BY <1>1, <1>8 DEF Commit, ApprovalsInv, TypeOK, SessionRecord
  <1>10. session[s].request = r
    BY <1>1, <1>9 DEF Decision
  <1> QED
    BY <1>1, <1>6, <1>7, <1>9, <1>10 DEF Decision, Approval

(* An approval that nothing overlaps leaves what was asked for in the table,
   whether it created a row, updated one or found it as it should be.      *)
THEOREM ApprovedIsGrantedOneAtATime == MCSpec => ApprovedIsGranted
  <1> DEFINE Given == scenario.serial => \A r \in Requests :
                         request[r].status = "PENDING" /\ request'[r].status = "APPROVED" =>
                            Granted(r)'
  <1>1. ApprovalsInv /\ SerialInv /\ [MCNext]_<<vars, scenario>> => [Given]_vars
    <2> SUFFICES ASSUME ApprovalsInv, SerialInv, MCNext, scenario.serial, NEW r \in Requests,
                        request[r].status = "PENDING", request'[r].status = "APPROVED"
                 PROVE  Granted(r)'
      BY DEF vars
    <2>1. Filed /\ Alone
      BY DEF SerialInv
    <2>2. PICK s \in Sessions : /\ WriteOverride(s) \/ WriteLimit(s)
                               /\ ~Refuse(s) /\ session[s].request = r
                               /\ request'[r].kind = request[r].kind
                               /\ request'[r].wants = request[r].wants
      BY ApprovedByCommit
    <2>3. session[s].wants = request[r].wants /\ session[s].kind = request[r].kind
      <3>1. ~Over(s) /\ r # Null
        BY <2>2, ApprovalsAssumption DEF WriteOverride, WriteLimit, Over, ApprovalsAssumption
      <3> QED
        BY <2>1, <2>2, <3>1 DEF Alone, Approves
    <2>4. CASE WriteOverride(s)
      <3>1. \E o \in Live(overrides)' : overrides'[o].enabled
        BY <2>1, <2>2, <2>4, FeatureGranted
      <3>2. request'[r].kind = "feature"
        BY <2>2, <2>3, <2>4 DEF WriteOverride
      <3> QED
        BY <3>1, <3>2 DEF Granted
    <2>5. CASE WriteLimit(s)
      <3>1. \E o \in Live(limits)' :
               \/ limits'[o].unlimited
               \/ /\ request'[r].wants.unlimited # TRUE
                  /\ limits'[o].value = request'[r].wants.value
        BY <2>1, <2>2, <2>3, <2>5, LimitGranted
      <3>2. request'[r].kind = "limit"
        BY <2>2, <2>3, <2>5 DEF WriteLimit
      <3> QED
        BY <3>1, <3>2 DEF Granted
    <2> QED
      BY <2>2, <2>4, <2>5
  <1> QED
    BY <1>1, ScenarioInvariant, SerialInvariant, PTL DEF MCSpec, ApprovedIsGranted
=============================================================================
