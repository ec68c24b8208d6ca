------------------------ MODULE EntitlementApprovals ------------------------
(***************************************************************************)
(* Governance of one tenant's entitlements: approval requests for          *)
(* expansive changes (services/approval_service.py) beside the direct      *)
(* administration of feature overrides and usage limits                    *)
(* (services/tenant_entitlement_admin_service.py), for one feature key and *)
(* one limit key.                                                          *)
(*                                                                         *)
(* A session is one HTTP request with its own database transaction (READ   *)
(* COMMITTED).  An approval claims the request row with                    *)
(* UPDATE .. WHERE status = 'PENDING', keeps that row's lock, looks the    *)
(* entitlement row up, and calls the same service function as a direct     *)
(* change; the commit inside it publishes both.  The rows a session has    *)
(* loaded keep the values of the first SELECT, and an UPDATE writes only   *)
(* the columns whose value the session changed.                            *)
(*                                                                         *)
(* Left out: reasons, audit rows, and the permission check on expansive    *)
(* direct changes, whose refusal rolls back like Abort.                    *)
(***************************************************************************)
EXTENDS Naturals

CONSTANTS
    Requests,   \* rows of approval_requests
    Rows,       \* primary keys of override and limit rows, never reused
    Users,      \* platform users
    Sessions,   \* HTTP requests, one database session each
    Ceilings,   \* concrete values of limit_value
    Horizon,    \* bound on the clock
    Null,       \* SQL NULL, an argument not given, no row
    Gone        \* the state of a deleted row

VARIABLES
    request,    \* approval_requests
    overrides,  \* tenant_feature_overrides of the feature
    limits,     \* tenant_usage_limits of the limit
    planGrants, \* whether the tenant's plan includes the feature
    now,        \* the clock expires_at is compared with
    session,    \* what each HTTP request has done and loaded
    effects     \* history: mutations committed for each request

vars == <<request, overrides, limits, planGrants, now, session, effects>>

Kinds == {"feature", "limit"}
Decided == {"APPROVED", "REJECTED", "CANCELED"}
Outcomes == Decided \ {"APPROVED"}
Statuses == {"PENDING"} \cup Decided
ASSUME ApprovalsAssumption ==
    /\ Horizon \in Nat
    /\ Ceilings \subseteq Nat
    /\ Null \notin Nat \cup BOOLEAN \cup Users \cup Rows \cup Requests \cup Statuses

Expiries == {Null} \cup 1 .. Horizon + 1

Overrides == [enabled : BOOLEAN, expires_at : Expiries]
Limits == [value : Ceilings \cup {Null}, unlimited : BOOLEAN]

ASSUME RowsAssumption == {Null, Gone} \cap (Overrides \cup Limits) = {}

\* What an operation asks for; Null is an argument that was not given.
OverrideWants ==
    [enabled : BOOLEAN \cup {Null}, expires_at : Expiries]
LimitWants ==
    [value : Ceilings \cup {Null}, unlimited : BOOLEAN \cup {Null}]

\* The request types the schema lets through.
LimitAsks ==
    {ask \in LimitWants : ask.unlimited = TRUE \/ ask.value # Null}
FeatureAsk == [enabled |-> TRUE, expires_at |-> Null]

(***************************************************************************)
(* The tables.                                                             *)
(***************************************************************************)
Live(table) == {o \in Rows : table[o] \notin {Null, Gone}}

Fresh(table) == {o \in Rows : table[o] = Null}

SomeOverrides ==
    {t \in [Rows -> Overrides \cup {Null, Gone}] :
        \A a, b \in Live(t) : a = b}

SomeLimits ==
    {t \in [Rows -> Limits \cup {Null, Gone}] :
        \A a, b \in Live(t) : a = b}

(***************************************************************************)
(* resolve_entitlements for the feature: an override that has not expired  *)
(* wins over the plan; with several, the last of an unordered SELECT wins. *)
(***************************************************************************)
Active == {o \in Live(overrides) :
            overrides[o].expires_at # Null => overrides[o].expires_at > now}

MayBeOff ==
    IF Active = {} THEN ~planGrants
    ELSE \E o \in Active : ~overrides[o].enabled

\* classify_feature_override for enabled = True
ExpansiveFeature == MayBeOff

\* classify_usage_limit against the current row, if there is one
ExpansiveLimit(ask) ==
    IF Live(limits) = {} THEN ask.unlimited = TRUE
    ELSE \A o \in Live(limits) :
            /\ ~limits[o].unlimited
            /\ \/ ask.unlimited = TRUE
               \/ /\ ask.value # Null
                  /\ limits[o].value # Null
                  /\ ask.value > limits[o].value

(***************************************************************************)
(* Rows an operation writes.  A create stores what it is given; an update  *)
(* changes the columns that differ from the loaded view and leaves the     *)
(* others as they are in the table now.                                    *)
(***************************************************************************)
NewOverride(wants) ==
    [enabled |-> wants.enabled = TRUE, expires_at |-> wants.expires_at]

Sets(wanted, seen) == wanted # Null /\ wanted # seen

UpdatedOverride(row, view, wants) ==
    [enabled |-> IF Sets(wants.enabled, view.enabled)
                   THEN wants.enabled ELSE row.enabled,
     expires_at |-> IF Sets(wants.expires_at, view.expires_at)
                      THEN wants.expires_at ELSE row.expires_at]

NewLimit(wants) ==
    [value |-> IF wants.unlimited = TRUE THEN Null ELSE wants.value,
     unlimited |-> wants.unlimited = TRUE]

UpdatedLimit(row, view, wants) ==
    [value |-> IF wants.unlimited = TRUE
                 THEN IF view.value # Null THEN Null ELSE row.value
                 ELSE IF Sets(wants.value, view.value)
                        THEN wants.value ELSE row.value,
     unlimited |-> IF Sets(wants.unlimited, view.unlimited)
                     THEN wants.unlimited ELSE row.unlimited]

ChangesOverride(view, wants) ==
    \/ Sets(wants.enabled, view.enabled)
    \/ Sets(wants.expires_at, view.expires_at)

\* Mutant: a new value alone is not noticed as an update.
ChangesLimitFlagOnly(view, wants) == Sets(wants.unlimited, view.unlimited)

ChangesLimit(view, wants) ==
    \/ Sets(wants.unlimited, view.unlimited)
    \/ wants.unlimited = TRUE /\ view.value # Null
    \/ wants.unlimited # TRUE /\ Sets(wants.value, view.value)

(***************************************************************************)
(* Sessions.                                                               *)
(***************************************************************************)
Phases == {"idle", "claim", "lookup", "read", "write", "done"}
Ops == {"create", "update", "remove"}

Session(phase, kind, op, wants, r, user, row, view) ==
    [phase |-> phase, kind |-> kind, op |-> op, wants |-> wants,
     request |-> r, user |-> user, row |-> row, view |-> view]

Idle == Session("idle", "feature", "create", FeatureAsk, Null, Null, Null, Null)
Done == Session("done", "feature", "create", FeatureAsk, Null, Null, Null, Null)

\* The request rows whose lock a session's transaction holds.
Holds(s, r) ==
    /\ session[s].phase \in {"lookup", "read", "write"}
    /\ session[s].request = r

Unlocked(r) == \A s \in Sessions : ~Holds(s, r)

Become(s, next) == session' = [session EXCEPT ![s] = next]

Refuse(s) ==
    /\ Become(s, Done)
    /\ UNCHANGED <<request, overrides, limits, planGrants, now, effects>>

Reach(s, phase, op, row, view) ==
    /\ Become(s, Session(phase, session[s].kind, op, session[s].wants,
                         session[s].request, session[s].user, row, view))
    /\ UNCHANGED <<request, overrides, limits, planGrants, now, effects>>

(***************************************************************************)
(* create_approval_request: only an expansive change may be filed.         *)
(***************************************************************************)
Approval(status, kind, wants, by, reviewer) ==
    [status |-> status, kind |-> kind, wants |-> wants, by |-> by,
     reviewer |-> reviewer]

NoApproval == Approval(Null, "feature", FeatureAsk, Null, Null)

File(r, kind, wants, by) ==
    /\ request[r].status = Null
    /\ request' = [request EXCEPT ![r] =
                        Approval("PENDING", kind, wants, by, Null)]
    /\ UNCHANGED <<overrides, limits, planGrants, now, session, effects>>

FileFeature(r, by) ==
    /\ ExpansiveFeature
    /\ File(r, "feature", FeatureAsk, by)

FileLimit(r, by, ask) ==
    /\ ExpansiveLimit(ask)
    /\ File(r, "limit", ask, by)

Decision(r, outcome, user) ==
    [request EXCEPT ![r] = Approval(outcome, request[r].kind, request[r].wants,
                                    request[r].by, user)]

(***************************************************************************)
(* reject_approval_request and cancel_approval_request: the claim and the  *)
(* commit, with no other state in between.                                 *)
(***************************************************************************)
Decline(r, outcome, user) ==
    /\ request[r].status = "PENDING"
    /\ Unlocked(r)
    /\ request' = Decision(r, outcome, user)
    /\ UNCHANGED <<overrides, limits, planGrants, now, session, effects>>

(***************************************************************************)
(* approve_approval_request.                                               *)
(***************************************************************************)
\* Mutant: the four-eyes check is missing.
StartApproveAnyone(s, r, user) ==
    /\ session[s].phase = "idle"
    /\ request[r].status = "PENDING"
    /\ Become(s, Session("claim", request[r].kind, "update",
                         request[r].wants, r, user, Null, Null))
    /\ UNCHANGED <<request, overrides, limits, planGrants, now, effects>>

StartApprove(s, r, user) ==
    /\ session[s].phase = "idle"
    /\ request[r].status = "PENDING"
    /\ request[r].by # user
    /\ Become(s, Session("claim", request[r].kind, "update",
                         request[r].wants, r, user, Null, Null))
    /\ UNCHANGED <<request, overrides, limits, planGrants, now, effects>>

\* Mutant: the UPDATE has no WHERE status = 'PENDING'.
ClaimAnyStatus(s) ==
    /\ session[s].phase = "claim"
    /\ Unlocked(session[s].request)
    /\ Reach(s, "lookup", "update", Null, Null)

\* _claim_pending waits for the row's lock, then rereads the status.
Claim(s) ==
    /\ session[s].phase = "claim"
    /\ Unlocked(session[s].request)
    /\ IF request[session[s].request].status = "PENDING"
         THEN Reach(s, "lookup", "update", Null, Null)
         ELSE Refuse(s)

(***************************************************************************)
(* SELECT .. scalar_one_or_none over a table: none, one or an exception.   *)
(***************************************************************************)
Lookup(s, table) ==
    /\ session[s].phase = "lookup"
    /\ \/ /\ Live(table) = {}
          /\ Reach(s, "read", "create", Null, Null)
       \/ \E o \in Rows :
             /\ Live(table) = {o}
             /\ Reach(s, "read", "update", o, table[o])
       \/ /\ \E a, b \in Live(table) : a # b
          /\ Refuse(s)

\* Mutant: a create does not look for an existing row.
ReadUnlessCreate(s, table) ==
    /\ session[s].phase = "read"
    /\ IF session[s].op = "create"
         THEN Reach(s, "write", "create", Null, Null)
         ELSE \/ \E o \in Rows :
                    /\ Live(table) = {o}
                    /\ Reach(s, "write", session[s].op, o,
                             IF session[s].row = o THEN session[s].view
                             ELSE table[o])
              \/ /\ \A o \in Rows : Live(table) # {o}
                 /\ Refuse(s)

(***************************************************************************)
(* The service function's own SELECT.  A row this session has loaded       *)
(* before keeps the values it was loaded with.                             *)
(***************************************************************************)
Read(s, table) ==
    /\ session[s].phase = "read"
    /\ IF session[s].op = "create"
         THEN IF Live(table) = {}
                THEN Reach(s, "write", "create", Null, Null)
                ELSE Refuse(s)
         ELSE \/ \E o \in Rows :
                    /\ Live(table) = {o}
                    /\ Reach(s, "write", session[s].op, o,
                             IF session[s].row = o THEN session[s].view
                             ELSE table[o])
              \/ /\ \A o \in Rows : Live(table) # {o}
                 /\ Refuse(s)

(***************************************************************************)
(* The write and its commit, which publishes the claim of an approval too. *)
(***************************************************************************)
Commit(s) ==
    /\ Become(s, Done)
    /\ IF session[s].request = Null
         THEN UNCHANGED <<request, effects>>
         ELSE /\ request' = Decision(session[s].request, "APPROVED",
                                     session[s].user)
              /\ effects' = [effects EXCEPT ![session[s].request] = @ + 1]
    /\ UNCHANGED <<planGrants, now>>

InsertOverride(s) ==
    /\ session[s].op = "create"
    /\ \E o \in Fresh(overrides) :
          overrides' = [overrides EXCEPT ![o] = NewOverride(session[s].wants)]
    /\ Commit(s)

\* An UPDATE of a row that is gone raises StaleDataError.
UpdateOverride(s) ==
    /\ session[s].op = "update"
    /\ LET o == session[s].row
           view == session[s].view
           wants == session[s].wants
       IN IF ~ChangesOverride(view, wants)
            THEN UNCHANGED overrides /\ Commit(s)
            ELSE IF o \in Live(overrides)
                   THEN /\ overrides' = [overrides EXCEPT ![o] =
                                    UpdatedOverride(@, view, wants)]
                        /\ Commit(s)
                   ELSE Refuse(s)

DeleteOverride(s) ==
    /\ session[s].op = "remove"
    /\ overrides' = [overrides EXCEPT ![session[s].row] = Gone]
    /\ Commit(s)

WriteOverride(s) ==
    /\ session[s].phase = "write"
    /\ session[s].kind = "feature"
    /\ \/ InsertOverride(s)
       \/ UpdateOverride(s)
       \/ DeleteOverride(s)
    /\ UNCHANGED limits

\* uq_tenant_usage_limits_org_feature_limit refuses a second row.
InsertLimit(s) ==
    /\ session[s].op = "create"
    /\ IF Live(limits) = {}
         THEN /\ \E o \in Fresh(limits) :
                    limits' = [limits EXCEPT ![o] = NewLimit(session[s].wants)]
              /\ Commit(s)
         ELSE Refuse(s)

UpdateLimit(s) ==
    /\ session[s].op = "update"
    /\ LET o == session[s].row
           view == session[s].view
           wants == session[s].wants
       IN IF ~ChangesLimit(view, wants)
            THEN UNCHANGED limits /\ Commit(s)
            ELSE IF o \in Live(limits)
                   THEN /\ limits' = [limits EXCEPT ![o] =
                                    UpdatedLimit(@, view, wants)]
                        /\ Commit(s)
                   ELSE Refuse(s)

DeleteLimit(s) ==
    /\ session[s].op = "remove"
    /\ limits' = [limits EXCEPT ![session[s].row] = Gone]
    /\ Commit(s)

WriteLimit(s) ==
    /\ session[s].phase = "write"
    /\ session[s].kind = "limit"
    /\ \/ InsertLimit(s)
       \/ UpdateLimit(s)
       \/ DeleteLimit(s)
    /\ UNCHANGED overrides

(***************************************************************************)
(* The direct endpoints of platform.py start at the service's SELECT.      *)
(***************************************************************************)
StartOverride(s, op, wants) ==
    /\ session[s].phase = "idle"
    /\ op = "create" => wants.enabled # Null
    /\ Become(s, Session("read", "feature", op, wants, Null, Null, Null, Null))
    /\ UNCHANGED <<request, overrides, limits, planGrants, now, effects>>

StartLimit(s, op, wants) ==
    /\ session[s].phase = "idle"
    /\ op = "create" => wants.unlimited # Null
    /\ Become(s, Session("read", "limit", op, wants, Null, Null, Null, Null))
    /\ UNCHANGED <<request, overrides, limits, planGrants, now, effects>>

\* The process dies, the connection drops, or a permission is refused: the
\* transaction is rolled back when the session is closed.
Abort(s) ==
    /\ session[s].phase \notin {"idle", "done"}
    /\ Refuse(s)

Tick ==
    /\ now < Horizon
    /\ now' = now + 1
    /\ UNCHANGED <<request, overrides, limits, planGrants, session, effects>>

Init ==
    /\ request = [r \in Requests |-> NoApproval]
    /\ overrides \in SomeOverrides
    /\ limits \in SomeLimits
    /\ planGrants \in BOOLEAN
    /\ now = 0
    /\ session = [s \in Sessions |-> Idle]
    /\ effects = [r \in Requests |-> 0]

LookupRow(s) ==
    \/ session[s].kind = "feature" /\ Lookup(s, overrides)
    \/ session[s].kind = "limit" /\ Lookup(s, limits)

ReadRow(s) ==
    \/ session[s].kind = "feature" /\ Read(s, overrides)
    \/ session[s].kind = "limit" /\ Read(s, limits)

Step(s) ==
    \/ Claim(s) \/ LookupRow(s) \/ ReadRow(s)
    \/ WriteOverride(s) \/ WriteLimit(s) \/ Abort(s)

Filing ==
    \E r \in Requests, by \in Users \cup {Null} :
        \/ FileFeature(r, by)
        \/ \E ask \in LimitAsks : FileLimit(r, by, ask)

Deciding ==
    \E r \in Requests, user \in Users :
        \/ \E outcome \in Outcomes : Decline(r, outcome, user)
        \/ \E s \in Sessions : StartApprove(s, r, user)

Administering ==
    \E s \in Sessions, op \in Ops :
        \/ \E wants \in OverrideWants : StartOverride(s, op, wants)
        \/ \E wants \in LimitWants : StartLimit(s, op, wants)

Next ==
    \/ Filing \/ Deciding \/ Administering \/ Tick
    \/ \E s \in Sessions : Step(s)

Spec == Init /\ [][Next]_vars

-----------------------------------------------------------------------------
WantsOf(kind) == IF kind = "feature" THEN OverrideWants ELSE LimitWants

RowsOf(kind) == IF kind = "feature" THEN Overrides ELSE Limits

RequestRow ==
    [status : Statuses \cup {Null}, kind : Kinds,
     wants : OverrideWants \cup LimitWants,
     by : Users \cup {Null}, reviewer : Users \cup {Null}]

SessionRecord ==
    [phase : Phases, kind : Kinds, op : Ops,
     wants : OverrideWants \cup LimitWants,
     request : Requests \cup {Null}, user : Users \cup {Null},
     row : Rows \cup {Null}, view : Overrides \cup Limits \cup {Null}]

TypeOK ==
    /\ request \in [Requests -> RequestRow]
    /\ overrides \in [Rows -> Overrides \cup {Null, Gone}]
    /\ limits \in [Rows -> Limits \cup {Null, Gone}]
    /\ planGrants \in BOOLEAN
    /\ now \in 0 .. Horizon
    /\ session \in [Sessions -> SessionRecord]
    /\ effects \in [Requests -> Nat]

(* What a session works with belongs to the table it will write. *)
SessionOK(v) ==
    /\ v.wants \in WantsOf(v.kind)
    /\ v.phase \in {"claim", "lookup"} => v.request \in Requests
    /\ v.phase = "read" /\ v.row # Null => v.view \in RowsOf(v.kind)
    /\ v.phase = "write" /\ v.op # "create" =>
          v.row \in Rows /\ v.view \in RowsOf(v.kind)

SessionsOK ==
    /\ \A s \in Sessions : SessionOK(session[s])
    /\ \A r \in Requests : request[r].wants \in WantsOf(request[r].kind)

(* A claimed request is still PENDING for everybody else, and no other
   approval of it is under way: the row lock covers the whole execution.   *)
ClaimsOK ==
    \A s \in Sessions, r \in Requests :
        Holds(s, r) => /\ request[r].status = "PENDING"
                       /\ \A t \in Sessions : Holds(t, r) => t = s

(* SELF-APPROVAL / FOUR-EYES: nobody has approved, or is approving, their own
   request.                                                                *)
Reviews(v) ==
    v.request # Null =>
        /\ v.user \in Users
        /\ request[v.request].status # Null
        /\ request[v.request].by # v.user

FourEyes ==
    /\ \A s \in Sessions : Reviews(session[s])
    /\ \A r \in Requests :
          request[r].status = "APPROVED" =>
             /\ request[r].reviewer \in Users
             /\ request[r].reviewer # request[r].by

(* "the underlying mutation is never executed twice", nor for a request that
   was not approved.                                                       *)
ExecutedOnce ==
    \A r \in Requests :
        effects[r] = IF request[r].status = "APPROVED" THEN 1 ELSE 0

(* uq_tenant_usage_limits_org_feature_limit. *)
OneLimit == \A a, b \in Live(limits) : a = b

ApprovalsInv ==
    TypeOK /\ SessionsOK /\ ClaimsOK /\ FourEyes /\ ExecutedOnce /\ OneLimit

(* TRANSACTION SAFETY: whatever sessions overlap or die, an approval and its
   mutation become visible together, once, and only from PENDING.          *)
Approvals == INSTANCE ApprovalDecision WITH
    Absent <- Null,
    decision <- [r \in Requests |-> request[r].status]

ImplementsDecision == Approvals!Spec
=============================================================================
