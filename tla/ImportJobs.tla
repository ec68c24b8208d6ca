----------------------------- MODULE ImportJobs -----------------------------
(* Bulk imports of aircraft and flights: a file is validated into an ImportJob,
   reconfigured, claimed with one conditional UPDATE and then imported row by
   row, every row through the service that also serves the ordinary endpoints
   and every row in transactions of its own.  The rows of a job meet the
   assets of the organization, which others create, delete and restore.

   Registrations are canonical (trimmed, upper case); the other columns of a
   row are reduced to the defect its validation would find.                *)
EXTENDS Integers, Sequences, FiniteSets

CONSTANTS
    Regs,       \* registrations
    Jobs,       \* import jobs, each made of one uploaded file
    Requests,   \* requests that configure or commit a job
    DomainOf,   \* the domain the file of each job is uploaded for
    FileOf,     \* its rows: a registration and a defect
    MaxAssets,  \* the ceiling max_assets the organization's plan resolves to
    NoJob

Domains == {"AIRCRAFT", "FLIGHT"}
Defects == {"none", "date", "other"}

ASSUME ImportsAssumption ==
    /\ IsFiniteSet(Regs)    \* a column of bounded width
    /\ DomainOf \in [Jobs -> Domains]
    /\ FileOf \in [Jobs -> Seq([reg : Regs, defect : Defects])]
    /\ MaxAssets \in Nat
    /\ NoJob \notin Jobs

VARIABLES
    asset,      \* [Regs -> ...]: the asset row of a registration
    aircraft,   \* the registrations that have an Aircraft row
    job,        \* the import_jobs rows
    imported,   \* [j][i]: how often row i of job j has been imported
    pending,    \* assets about to be created by hand, their checks passed
    session     \* what a request has loaded and how far it has come

vars == <<asset, aircraft, job, imported, pending, session>>

Rows(j) == DOMAIN FileOf[j]
AssetStates == {"absent", "active", "deleted"}
Strategies == {"ASK", "CREATE_ASSET", "SKIP"}
Verdicts == {"NEW", "MATCH", "STRAY", "CREATE", "SKIP", "INVALID"}
Terminal == {"COMPLETED", "COMPLETED_WITH_ERRORS", "FAILED"}
Statuses == {"none", "VALIDATED", "IMPORTING"} \cup Terminal

Job(status, strategy, defects, verdicts, created, failed) ==
    [status |-> status, strategy |-> strategy, defects |-> defects,
     verdicts |-> verdicts, created |-> created, failed |-> failed]

Session(phase, j, strategy, verdicts, next, created, failed) ==
    [phase |-> phase, job |-> j, strategy |-> strategy, verdicts |-> verdicts,
     next |-> next, created |-> created, failed |-> failed]

Idle == Session("idle", NoJob, "ASK", <<>>, 1, 0, 0)
Kinds == {"asset", "aircraft"}
Importing == {"claimed", "rows", "inserting", "flying"}
-----------------------------------------------------------------------------
(* Validation *)

(* What _validate_aircraft_rows says of row i: a registration is refused that
   an Aircraft or an earlier row of the file has.  Assets are not looked at. *)
AircraftVerdict(j, defects, i) ==
    LET reg == FileOf[j][i].reg IN
    IF \/ defects[i] # "none"
       \/ reg \in aircraft
       \/ \E k \in Rows(j) : k < i /\ FileOf[j][k].reg = reg
      THEN "INVALID"
      ELSE "NEW"

(* What _validate_flight_rows says of row i: its asset is the active one of the
   registration; failing that the row names the Aircraft (an id no asset has);
   failing that the strategy decides.                                      *)
FlightVerdict(j, strategy, defects, i) ==
    LET reg == FileOf[j][i].reg IN
    IF defects[i] # "none" THEN "INVALID"
    ELSE IF asset[reg] = "active" THEN "MATCH"
    ELSE IF reg \in aircraft THEN "STRAY"
    ELSE IF strategy = "CREATE_ASSET" THEN "CREATE"
    ELSE IF strategy = "SKIP" THEN "SKIP" ELSE "INVALID"

Validate(j, strategy, defects) ==
    [i \in Rows(j) |->
       IF DomainOf[j] = "AIRCRAFT" THEN AircraftVerdict(j, defects, i)
       ELSE FlightVerdict(j, strategy, defects, i)]

(* The defects of the rows as the job stores them: a flight's unreadable date
   is replaced by the time of the upload and a cycle count of 0 by 1, so that
   validating the stored rows again finds nothing wrong with them.         *)
Stored(j, defects) ==
    [i \in Rows(j) |->
       IF DomainOf[j] = "FLIGHT" /\ defects[i] = "date" THEN "none"
       ELSE defects[i]]

Importable(verdict) == verdict \notin {"INVALID", "SKIP"}

(* POST /imports/validate: parses, validates and stores the job. *)
CreateJob(j, strategy) ==
    LET defects == [i \in Rows(j) |-> FileOf[j][i].defect] IN
    /\ job[j].status = "none"
    /\ job' = [job EXCEPT ![j] =
                 Job("VALIDATED", strategy, Stored(j, defects),
                     Validate(j, strategy, defects), 0, 0)]
    /\ UNCHANGED <<asset, aircraft, imported, pending, session>>

(* configure_import_job: a job still VALIDATED is validated again, ... *)
StartConfigure(r, j, strategy) ==
    /\ session[r].phase = "idle"
    /\ job[j].status = "VALIDATED"
    /\ session' = [session EXCEPT ![r] =
                     Session("configuring", j, strategy,
                             Validate(j, strategy, job[j].defects), 1, 0, 0)]
    /\ UNCHANGED <<asset, aircraft, job, imported, pending>>

\* Mutant: the status is written like the other columns.
WriteConfigureStatus(r) ==
    LET j == session[r].job IN
    /\ session[r].phase = "configuring"
    /\ job' = [job EXCEPT ![j] =
                 Job("VALIDATED", session[r].strategy, Stored(j, @.defects),
                     session[r].verdicts, @.created, @.failed)]
    /\ session' = [session EXCEPT ![r] = Idle]
    /\ UNCHANGED <<asset, aircraft, imported, pending>>

(* ... and its new verdicts are written whatever has become of the job: the
   status was loaded as VALIDATED, so the UPDATE does not contain it.      *)
WriteConfigure(r) ==
    LET j == session[r].job IN
    /\ session[r].phase = "configuring"
    /\ job' = [job EXCEPT ![j] =
                 Job(@.status, session[r].strategy, Stored(j, @.defects),
                     session[r].verdicts, @.created, @.failed)]
    /\ session' = [session EXCEPT ![r] = Idle]
    /\ UNCHANGED <<asset, aircraft, imported, pending>>
-----------------------------------------------------------------------------
(* Committing a job *)

\* Mutant: a job that is IMPORTING can be committed again.
ClaimAgain(r, j) ==
    /\ session[r].phase = "idle"
    /\ job[j].status \in {"VALIDATED", "IMPORTING"}
    /\ job' = [job EXCEPT ![j] =
                 Job("IMPORTING", @.strategy, @.defects, @.verdicts,
                     @.created, @.failed)]
    /\ session' = [session EXCEPT ![r] =
                     Session("claimed", j, "ASK", <<>>, 1, 0, 0)]
    /\ UNCHANGED <<asset, aircraft, imported, pending>>

(* The conditional UPDATE to IMPORTING and its commit.  A request that claims
   nothing answers with a conflict.                                        *)
Claim(r, j) ==
    /\ session[r].phase = "idle"
    /\ job[j].status = "VALIDATED"
    /\ job' = [job EXCEPT ![j] =
                 Job("IMPORTING", @.strategy, @.defects, @.verdicts,
                     @.created, @.failed)]
    /\ session' = [session EXCEPT ![r] =
                     Session("claimed", j, "ASK", <<>>, 1, 0, 0)]
    /\ UNCHANGED <<asset, aircraft, imported, pending>>

(* The rows to import are read once, after the claim. *)
LoadRows(r) ==
    LET s == session[r] IN
    /\ s.phase = "claimed"
    /\ session' = [session EXCEPT ![r] =
                     Session("rows", s.job, s.strategy, job[s.job].verdicts,
                             1, 0, 0)]
    /\ UNCHANGED <<asset, aircraft, job, imported, pending>>

At(r, phase) ==
    /\ session[r].phase = phase
    /\ session[r].next \in Rows(session[r].job)

Row(r) == FileOf[session[r].job][session[r].next]
Verdict(r) == session[r].verdicts[session[r].next]

(* The row of session r is over; made and lost are 0 or 1. *)
Advance(r, made, lost) ==
    session' = [session EXCEPT ![r] =
                  Session("rows", @.job, @.strategy, @.verdicts, @.next + 1,
                          @.created + made, @.failed + lost)]

Remain(r, phase) ==
    session' = [session EXCEPT ![r] =
                  Session(phase, @.job, @.strategy, @.verdicts, @.next,
                          @.created, @.failed)]

\* Mutant: the failure is not counted.
FailRowUncounted(r) ==
    /\ Advance(r, 0, 0)
    /\ UNCHANGED <<asset, aircraft, job, imported, pending>>

(* A row whose service raised is rolled back, counted and left behind. *)
FailRow(r) ==
    /\ Advance(r, 0, 1)
    /\ UNCHANGED <<asset, aircraft, job, imported, pending>>

ImportRow(r) ==
    /\ Advance(r, 1, 0)
    /\ imported' = [imported EXCEPT ![session[r].job][session[r].next] = @ + 1]
    /\ UNCHANGED <<job, pending>>

PassRow(r) ==
    /\ At(r, "rows")
    /\ ~Importable(Verdict(r))
    /\ Advance(r, 0, 0)
    /\ UNCHANGED <<asset, aircraft, job, imported, pending>>

\* Mutant: off by one.
AtCeiling == Cardinality({g \in Regs : asset[g] = "active"}) <= MaxAssets

BelowCeiling == Cardinality({g \in Regs : asset[g] = "active"}) < MaxAssets

(* check_asset_creation_limit, the first thing create_aircraft and create_asset
   do: a count, and no lock that would keep others from inserting.         *)
CheckCeiling(r) ==
    /\ At(r, "rows")
    /\ Verdict(r) \in {"NEW", "CREATE"}
    /\ IF BelowCeiling
         THEN /\ Remain(r, "inserting")
              /\ UNCHANGED <<asset, aircraft, job, imported, pending>>
         ELSE FailRow(r)

(* create_aircraft inserts Asset, AircraftDetail and Aircraft in one commit;
   the unique constraints on both registrations, which also see deleted
   assets, undo all of it.                                                 *)
InsertAircraft(r) ==
    /\ At(r, "inserting")
    /\ Verdict(r) = "NEW"
    /\ IF asset[Row(r).reg] = "absent" /\ Row(r).reg \notin aircraft
         THEN /\ asset' = [asset EXCEPT ![Row(r).reg] = "active"]
              /\ aircraft' = aircraft \cup {Row(r).reg}
              /\ ImportRow(r)
         ELSE FailRow(r)

(* create_asset for a flight's unknown registration commits before the flight
   is recorded, and fails if any asset, deleted or not, has the registration,
   be it one the same import has just created.                             *)
InsertAsset(r) ==
    /\ At(r, "inserting")
    /\ Verdict(r) = "CREATE"
    /\ IF asset[Row(r).reg] = "absent"
         THEN /\ asset' = [asset EXCEPT ![Row(r).reg] = "active"]
              /\ Remain(r, "flying")
              /\ UNCHANGED <<aircraft, job, imported, pending>>
         ELSE FailRow(r)

(* record_flight: get_asset refuses a deleted asset; the flight, the cycles of
   the attached batteries and the audit event are one commit.              *)
RecordFlight(r) ==
    /\ \/ At(r, "rows") /\ Verdict(r) = "MATCH"
       \/ At(r, "flying")
    /\ IF asset[Row(r).reg] = "active"
         THEN ImportRow(r) /\ UNCHANGED <<asset, aircraft>>
         ELSE FailRow(r)

(* A flight row that was matched to an Aircraft: no asset has that id. *)
RecordStray(r) ==
    /\ At(r, "rows")
    /\ Verdict(r) = "STRAY"
    /\ FailRow(r)

(* A service that raises for any other reason: a payload its schema refuses, a
   pilot who is not of the organization, an error of the database.  What the
   row had not committed is rolled back.                                   *)
RowRaises(r) ==
    /\ \E phase \in {"rows", "inserting", "flying"} : At(r, phase)
    /\ Importable(Verdict(r))
    /\ FailRow(r)

Outcome(created, failed) ==
    IF failed = 0 THEN "COMPLETED"
    ELSE IF created > 0 THEN "COMPLETED_WITH_ERRORS" ELSE "FAILED"

(* The counts and the outcome, written without looking at the job again. *)
Finish(r) ==
    LET s == session[r] IN
    /\ s.phase = "rows"
    /\ s.next \notin Rows(s.job)
    /\ job' = [job EXCEPT ![s.job] =
                 Job(Outcome(s.created, s.failed), @.strategy, @.defects,
                     @.verdicts, s.created, s.failed)]
    /\ session' = [session EXCEPT ![r] = Idle]
    /\ UNCHANGED <<asset, aircraft, imported, pending>>

(* The process dies: committed rows stay, and so does IMPORTING. *)
Crash(r) ==
    /\ session[r].phase # "idle"
    /\ session' = [session EXCEPT ![r] = Idle]
    /\ UNCHANGED <<asset, aircraft, job, imported, pending>>
-----------------------------------------------------------------------------
(* The ordinary endpoints for assets *)

(* POST /assets and POST /aircraft: ceiling (and, for an asset, registration)
   checked, nothing written yet.                                           *)
CheckCreation(reg, kind) ==
    /\ BelowCeiling
    /\ kind = "asset" => asset[reg] = "absent"
    /\ pending' = pending \cup {<<reg, kind>>}
    /\ UNCHANGED <<asset, aircraft, job, imported, session>>

(* The insert, which the unique constraints may refuse. *)
InsertCreation(reg, kind) ==
    /\ <<reg, kind>> \in pending
    /\ pending' = pending \ {<<reg, kind>>}
    /\ IF asset[reg] = "absent" /\ (kind = "aircraft" => reg \notin aircraft)
         THEN /\ asset' = [asset EXCEPT ![reg] = "active"]
              /\ aircraft' = IF kind = "aircraft" THEN aircraft \cup {reg}
                             ELSE aircraft
         ELSE UNCHANGED <<asset, aircraft>>
    /\ UNCHANGED <<job, imported, session>>

SoftDelete(reg) ==
    /\ asset[reg] = "active"
    /\ asset' = [asset EXCEPT ![reg] = "deleted"]
    /\ UNCHANGED <<aircraft, job, imported, pending, session>>

(* restore_asset does not look at the ceiling. *)
Restore(reg) ==
    /\ asset[reg] = "deleted"
    /\ asset' = [asset EXCEPT ![reg] = "active"]
    /\ UNCHANGED <<aircraft, job, imported, pending, session>>
-----------------------------------------------------------------------------
Init ==
    /\ asset \in [Regs -> AssetStates]
    /\ aircraft \in SUBSET {g \in Regs : asset[g] # "absent"}
    /\ job = [j \in Jobs |-> Job("none", "ASK", [i \in Rows(j) |-> "none"],
                                 [i \in Rows(j) |-> "INVALID"], 0, 0)]
    /\ imported = [j \in Jobs |-> [i \in Rows(j) |-> 0]]
    /\ pending = {}
    /\ session = [r \in Requests |-> Idle]

Start ==
    \/ \E j \in Jobs, strategy \in Strategies :
          \/ CreateJob(j, strategy)
          \/ \E r \in Requests : StartConfigure(r, j, strategy)
    \/ \E r \in Requests, j \in Jobs : Claim(r, j)

Step(r) ==
    \/ WriteConfigure(r) \/ LoadRows(r) \/ PassRow(r) \/ CheckCeiling(r)
    \/ InsertAircraft(r) \/ InsertAsset(r) \/ RecordFlight(r)
    \/ RecordStray(r) \/ RowRaises(r) \/ Finish(r) \/ Crash(r)

ManualStep(reg) == \E kind \in Kinds : InsertCreation(reg, kind)

Manual(reg) ==
    \/ \E kind \in Kinds : CheckCreation(reg, kind)
    \/ SoftDelete(reg)
    \/ Restore(reg)

Next ==
    \/ Start
    \/ \E r \in Requests : Step(r)
    \/ \E reg \in Regs : Manual(reg) \/ ManualStep(reg)

Spec == Init /\ [][Next]_vars
-----------------------------------------------------------------------------
JobRows(j) ==
    [status : Statuses, strategy : Strategies,
     defects : [Rows(j) -> Defects], verdicts : [Rows(j) -> Verdicts],
     created : Nat, failed : Nat]

SessionsOn(j) ==
    {Session("claimed", j, "ASK", <<>>, 1, 0, 0)}
    \cup [phase : {"configuring", "rows", "inserting", "flying"},
          job : {j}, strategy : Strategies, verdicts : [Rows(j) -> Verdicts],
          next : Nat \ {0}, created : Nat, failed : Nat]

TypeOK ==
    /\ asset \in [Regs -> AssetStates]
    /\ aircraft \subseteq Regs
    /\ job = [j \in Jobs |-> job[j]]
    /\ \A j \in Jobs : job[j] \in JobRows(j)
    /\ imported = [j \in Jobs |-> imported[j]]
    /\ \A j \in Jobs : imported[j] \in [Rows(j) -> Nat]
    /\ pending \subseteq Regs \X Kinds
    /\ session = [r \in Requests |-> session[r]]
    /\ \A r \in Requests :
          session[r] = Idle \/ \E j \in Jobs : session[r] \in SessionsOn(j)

(* The rows of a job that have been imported, and those that an import with
   these verdicts has tried before row n, in vain.                         *)
Arrived(j) == {i \in Rows(j) : imported[j][i] > 0}
Lost(j, verdicts, n) ==
    {i \in Rows(j) : i < n /\ Importable(verdicts[i]) /\ imported[j][i] = 0}

(* The claim is exclusive: a job is being imported by one request at a time, and
   while it is, it is IMPORTING.                                           *)
ClaimsExclude ==
    \A r \in Requests : session[r].phase \in Importing =>
        /\ job[session[r].job].status = "IMPORTING"
        /\ \A q \in Requests \ {r} :
              session[q].phase \in Importing => session[q].job # session[r].job

(* However often a job is committed and whatever dies, a row is imported once
   at most: never before its job is claimed, never behind the cursor.      *)
RowsOnce ==
    /\ \A j \in Jobs : \A i \in Rows(j) :
          /\ imported[j][i] <= 1
          /\ job[j].status \in {"none", "VALIDATED"} => imported[j][i] = 0
    /\ \A r \in Requests : session[r].phase \in Importing =>
          \A i \in Rows(session[r].job) :
             i >= session[r].next => imported[session[r].job][i] = 0

(* The counts a request keeps and the counts a job ends with are those of the
   rows that arrived; COMPLETED means that no row was lost, FAILED that none
   arrived.                                                                *)
CountsTrue ==
    /\ \A r \in Requests : session[r].phase \in Importing =>
          LET s == session[r] IN
          /\ s.created = Cardinality(Arrived(s.job))
          /\ s.failed = IF s.phase = "claimed" THEN 0
                        ELSE Cardinality(Lost(s.job, s.verdicts, s.next))
    /\ \A j \in Jobs : job[j].status \in Terminal =>
          /\ job[j].created = Cardinality(Arrived(j))
          /\ job[j].status = Outcome(job[j].created, job[j].failed)

(* An asset is created on the way to a flight only where the preview said so. *)
CreatesAsPreviewed ==
    \A r \in Requests :
       LET s == session[r] IN
       /\ s.phase = "inserting" =>
             s.next \in Rows(s.job) /\ s.verdicts[s.next] \in {"NEW", "CREATE"}
       /\ s.phase = "flying" =>
             s.next \in Rows(s.job) /\ s.verdicts[s.next] = "CREATE"

(* The dual write: whoever has an Aircraft row has an asset, deleted or not. *)
AircraftHaveAssets == \A g \in aircraft : asset[g] # "absent"

ImportsInv ==
    /\ TypeOK
    /\ ClaimsExclude
    /\ RowsOnce
    /\ CountsTrue
    /\ CreatesAsPreviewed
    /\ AircraftHaveAssets

(* Rows arrive only while their job is IMPORTING, and the outcome and the counts
   of a finished job are never written again.                              *)
FinishedIsFinal ==
    [][\A j \in Jobs :
          /\ imported'[j] # imported[j] =>
                job[j].status = "IMPORTING" /\ job'[j].status = "IMPORTING"
          /\ job[j].status \in Terminal =>
                /\ job'[j].status = job[j].status
                /\ job'[j].created = job[j].created
                /\ job'[j].failed = job[j].failed]_vars
=============================================================================
