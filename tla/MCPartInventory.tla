-------------------------- MODULE MCPartInventory --------------------------
(* Small instances of PartInventory for TLC. *)
EXTENDS PartInventory, TLC

AllMovements == { Receive(1), Receipt(2), Reserve(1), Reserve(2), Release(1), Consume(1),
                  Adjust(-1), Adjust(-2), Quarantine(1),
                  ReleaseQuarantine(1, "SERVICEABLE"),
                  ReleaseQuarantine(1, "SCRAPPED") }
ReceiptMovements == { Receipt(1), Receipt(2), Reserve(1), Adjust(-1) }

Row(on, res, quar, serviceability) ==
    [onHand |-> on, reserved |-> res, quarantined |-> quar,
     serviceability |-> serviceability]
NoStock == { Row(0, 0, 0, "SERVICEABLE") }
FewStocks == NoStock \cup { Row(2, 1, 0, "SERVICEABLE"), Row(0, 1, 0, "SERVICEABLE") }

Absent == [required |-> 0, fulfilled |-> 0, status |-> "ABSENT"]
Short(n) == [required |-> n, fulfilled |-> 0, status |-> "SHORT"]
OneShort == { [s \in Slots |-> IF s = 1 THEN Short(1) ELSE Absent] }
AllShort == { [s \in Slots |-> Short(s)] }

NoneYet == { [s \in Slots |-> Absent] }
FewNeeds == OneShort \cup AllShort \cup NoneYet

NoPatches   == {}
PartBodies  == { [onHand |-> 1], [onHand |-> 0, reserved |-> 1] }
NeedBodies  == { [status |-> "CANCELLED"], [status |-> "AVAILABLE"],
                 [required |-> 2], [fulfilled |-> 3] }
-----------------------------------------------------------------------------
Symmetric == Permutations(Requests)

AllDone == \A r \in Requests : req[r].at \in {"idle", "done"}

(* PATCH bodies that write an open status over the one that would be derived:
   update_part_requirement stores whatever status the body names.          *)
Overrides == {u \in NeedPatches : "status" \in DOMAIN u /\ u["status"] \notin Sticky}

(* The scenario of a behaviour, fixed at its start:
     "concurrent"  every operation and PATCH, in every order, dying anywhere;
     "serial"      every operation and PATCH, dying anywhere, but one request
                   at a time;
     "receipts"    one request at a time, none dying, only receipts,
                   reservations and adjustments.                             *)
CONSTANT Scenarios
ASSUME MCInventoryAssumption == Scenarios \subseteq {"concurrent", "serial", "receipts"}

VARIABLE scenario

(* History of a serial behaviour: a re-derivation is owed.  A step owes it when
   it writes what the statuses are derived from, or a status, and its request
   derives nothing after it.                                               *)
VARIABLE owed

Owes(r) ==
    \/ At(r, "patchPart") /\ Available(part') # Available(part)
    \/ At(r, "patchNeed") /\ req[r].updates \in Overrides /\ need' # need
    \/ req[r].at \in {"committed", "refreshed", "rederive"} /\ Crash(r)

RecordOwed ==
    owed' = IF scenario = "concurrent" \/ \E r \in Requests : RecomputeStatus(r)
            THEN FALSE ELSE owed \/ \E r \in Requests : Owes(r)

MCInit ==
    /\ Init /\ scenario \in Scenarios /\ owed = FALSE
    /\ need \in CASE scenario = "serial" -> NoneYet [] OTHER -> AllShort \cup OneShort
    /\ scenario = "receipts" <=> part \in NoStock

MCNext ==
    /\ UNCHANGED scenario
    /\ \/ scenario = "concurrent" /\ Next
       \/ \E r \in Requests :
             /\ scenario # "concurrent"
             /\ \/ scenario = "serial" /\ ((AllDone /\ Arrive(r)) \/ Crash(r))
                \/ scenario = "receipts" /\ AllDone
                      /\ \E m \in ReceiptMovements \cap Movements : LockPart(r, m)
                \/ Continue(r)
    /\ RecordOwed

mcvars == <<vars, scenario, owed>>
MCSpec == MCInit /\ [][MCNext]_mcvars
MCFairSpec == MCSpec /\ Fairness
-----------------------------------------------------------------------------
(* "Any part-quantity change can flip an open requirement's SHORT/AVAILABLE
   status -- re-derive it immediately rather than leaving it stale": in serial
   histories this is so of movements, receipts and everything that writes a
   requirement, and a movement also repairs what a request before it left
   stale.  Left stale are only the statuses after a PATCH of the part's
   quantities or of a status, and after a request that died between its commit
   and the re-derivation, until the next re-derivation.                    *)
NoStatusLeftStale ==
    scenario # "concurrent" /\ AllDone /\ ~owed => \A s \in Slots :
        need[s].status # "ABSENT" =>
            need[s].status = DeriveStatus(need[s], Available(part))

SettledKept ==
    \A s \in Slots :
        need[s].status \in Settled /\ need'[s] # need[s] =>
            \E r \in Requests : At(r, "patchNeed") /\ req'[r].at = "done"

(* "Statuses that mean the requirement is fully settled -- never touched by
   fulfillment allocation or status re-derivation once reached."           *)
SettledIsFinal == [][SettledKept]_vars

(* The same promise for requests that do not overlap. *)
SettledIsFinalSerially == [][scenario # "concurrent" => SettledKept]_vars

SumOver(f) ==
    LET upTo[n \in 0..NumSlots] == IF n = 0 THEN 0 ELSE upTo[n-1] + f[n]
    IN  upTo[NumSlots]

Total(column, table) == SumOver([s \in Slots |-> table[s][column]])

(* A receipt never fulfils more than was received, in total, and never pushes
   a requirement past what it requires, whatever it read beforehand ("the
   LEAST(...) cap means fulfilled_quantity can never be pushed past
   required_quantity").                                                    *)
FulfilmentBounded ==
    [][allocated' # allocated =>
          /\ Total("fulfilled", need') <= Total("fulfilled", need) + allocated' - allocated
          /\ \A s \in Slots : need'[s].fulfilled > need[s].fulfilled =>
                                  need'[s].fulfilled <= need'[s].required]_vars

(* What is received for the work order, one receipt at a time, reaches its
   requirements: they are all covered, or everything received has been put to
   their account.                                                          *)
NoReceiptLost ==
    scenario = "receipts" /\ AllDone =>
        Total("fulfilled", need) = Least(allocated, Total("required", need))
=============================================================================
