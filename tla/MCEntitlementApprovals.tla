----------------------- MODULE MCEntitlementApprovals -----------------------
(* Small instances of EntitlementApprovals for TLC, and the properties that
   hold as long as operations do not overlap.                              *)
EXTENDS EntitlementApprovals, TLC

CONSTANT Scenarios

(* The scenario of a behaviour, fixed at its start: the table its requests and
   operations are about, and whether sessions overlap or run one at a time,
   as many as one likes.                                                   *)
VARIABLE scenario

Everything == [kind : Kinds, serial : BOOLEAN]
FeaturesSerially == {[kind |-> "feature", serial |-> TRUE]}

Interchangeable ==
    Permutations(Sessions) \cup Permutations(Users) \cup Permutations(Rows)

Untouched == [o \in Rows |-> Null]

MCInit ==
    /\ Init
    /\ scenario \in Scenarios
    /\ scenario.kind = "feature" => limits = Untouched
    /\ scenario.kind = "limit" => overrides = Untouched /\ ~planGrants
    /\ \E first \in Rows : \A o \in Rows \ {first} :
          overrides[o] = Null /\ limits[o] = Null
    /\ \A o \in Rows : overrides[o] # Gone /\ limits[o] # Gone

AllDone == \A s \in Sessions : session[s].phase \in {"idle", "done"}

SerialNext ==
    \/ /\ AllDone
       /\ Filing \/ Deciding \/ Administering \/ Tick
    \/ \E s \in Sessions : Step(s)
    \/ /\ \A s \in Sessions : session[s].phase = "done"
       /\ session' = [s \in Sessions |-> Idle]
       /\ UNCHANGED <<request, overrides, limits, planGrants, now, effects>>

MCNext ==
    /\ UNCHANGED scenario
    /\ IF scenario.serial THEN SerialNext ELSE Next
    /\ \A r \in Requests :
          request'[r].status # Null => request'[r].kind = scenario.kind
    /\ \A s \in Sessions :
          session'[s].phase \notin {"idle", "done"} =>
              session'[s].kind = scenario.kind

MCSpec == MCInit /\ [][MCNext]_<<vars, scenario>>
-----------------------------------------------------------------------------
(* "preventing two simultaneously-active override rows [...] is NOT enforced at
   the database level": as long as operations do not overlap the existence
   checks of the service keep it to one row.                               *)
OneOverrideSerially ==
    scenario.serial => \A a, b \in Live(overrides) : a = b

Granted(r) ==
    IF request[r].kind = "feature"
      THEN \E o \in Live(overrides) : overrides[o].enabled
      ELSE \E o \in Live(limits) :
              \/ limits[o].unlimited
              \/ /\ request[r].wants.unlimited # TRUE
                 /\ limits[o].value = request[r].wants.value

(* An approval that no other operation overlaps leaves the tenant with the row
   that was asked for: an enabled override, or the requested ceiling.      *)
ApprovedIsGranted ==
    [][scenario.serial => \A r \in Requests :
          request[r].status = "PENDING" /\ request'[r].status = "APPROVED" =>
             Granted(r)']_vars

(* "it can never end up claiming APPROVED while the tenant's entitlements are
   unchanged": approving a feature that is off does not leave every override
   as it was and the feature off.                                          *)
ApprovedTakesEffect ==
    [][\A r \in Requests :
          /\ request[r].status = "PENDING"
          /\ request'[r].status = "APPROVED"
          /\ request[r].kind = "feature"
          /\ MayBeOff
          => ~(overrides' = overrides /\ MayBeOff')]_vars
=============================================================================
