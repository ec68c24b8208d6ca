---------------------------- MODULE MCImportJobs ----------------------------
(* A small instance of ImportJobs for TLC, and what holds of it as long as
   requests do not overlap.                                                *)
EXTENDS ImportJobs, TLC

CONSTANTS reg1, reg2, flights, fleet, Scenarios

(* "jobs": two requests overlap on the jobs, nobody else touches the assets;
   "endpoints": one request imports while others create, delete and restore
   assets; "serial": everything, one at a time, as many as one likes.      *)
VARIABLE scenario

Interchangeable == Permutations(Requests)

(* Two flights of one registration and one of another, with an unreadable date;
   and a fleet list that names the first registration twice.               *)
Flight(reg, defect) == [reg |-> reg, defect |-> defect]
Domain == [j \in {flights, fleet} |->
             IF j = flights THEN "FLIGHT" ELSE "AIRCRAFT"]
File == [j \in {flights, fleet} |->
           IF j = flights
             THEN <<Flight(reg1, "none"), Flight(reg1, "none"), Flight(reg2, "date")>>
             ELSE <<Flight(reg1, "none"), Flight(reg1, "none")>>]

MCInit ==
    /\ Init
    /\ scenario \in Scenarios
    /\ scenario # "serial" => asset[reg1] = "absent"

Busy == {r \in Requests : session[r].phase # "idle"}
Quiet == pending = {} /\ Busy = {}

SerialNext ==
    \/ Quiet /\ (Start \/ \E reg \in Regs : Manual(reg))
    \/ \E r \in Requests : Step(r)
    \/ \E reg \in Regs : ManualStep(reg)

JobsNext == Start \/ \E r \in Requests : Step(r)

EndpointsNext ==
    \/ Busy = {} /\ Start
    \/ \E r \in Requests : Step(r)
    \/ \E reg \in Regs : Manual(reg) \/ ManualStep(reg)

MCNext ==
    /\ UNCHANGED scenario
    /\ \/ scenario = "serial" /\ SerialNext
       \/ scenario = "jobs" /\ JobsNext
       \/ scenario = "endpoints" /\ EndpointsNext /\ Cardinality(pending') <= 1

MCSpec == MCInit /\ [][MCNext]_<<vars, scenario>>
-----------------------------------------------------------------------------
(* What the preview of a job shows is what a commit does: as long as requests on
   the jobs do not overlap, whatever happens to the assets meanwhile, a row
   arrives only if the job says it would, and a job that is COMPLETED has
   imported all of them.                                                   *)
PreviewIsKept ==
    scenario # "jobs" =>
        \A j \in Jobs :
           /\ \A i \in Arrived(j) : Importable(job[j].verdicts[i])
           /\ job[j].status = "COMPLETED" =>
                 Arrived(j) = {i \in Rows(j) : Importable(job[j].verdicts[i])}

(* As long as requests do not overlap, no import and no creation by hand takes
   the organization above the ceiling of its plan: only a restore does.    *)
CeilingKeptSerially ==
    [][scenario = "serial" =>
         \A g \in Regs : asset[g] = "absent" /\ asset'[g] = "active" =>
            Cardinality({h \in Regs : asset'[h] = "active"}) <= MaxAssets]_vars
=============================================================================
