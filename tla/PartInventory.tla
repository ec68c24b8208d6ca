--------------------------- MODULE PartInventory ---------------------------
(***************************************************************************)
(* One row of the `parts` table, the sums of its `inventory_transactions`  *)
(* rows, and the `part_requirements` rows of one work order that name it,  *)
(* under concurrent HTTP requests.  A request is one SQLAlchemy session:   *)
(* every action below is one statement or one commit, so whatever the      *)
(* service reads in one action may have changed by the next.               *)
(*                                                                         *)
(*   inventory_transaction_service   movements (SELECT ... FOR UPDATE),    *)
(*                                   the post-commit re-derivation and the *)
(*                                   second commit of a quarantine         *)
(*   part_service                    update_part (no row lock)             *)
(*   part_requirement_service        create, update, recompute, fulfil     *)
(***************************************************************************)
EXTENDS Integers

CONSTANTS
    Requests,       \* HTTP requests; each performs one operation
    NumSlots,       \* how many part requirements can exist
    Movements,      \* inventory movements the clients may ask for
    PartPatches,    \* PATCH /parts bodies: functions from fields to values
    NeedPatches,    \* PATCH /part-requirements bodies
    Required,       \* required_quantity of the requirements created
    OpeningParts,   \* rows create_part leaves behind
    OpeningNeeds,   \* requirement tables to start from
    NoRequest       \* the row lock is free

Slots == 1..NumSlots    \* requirement rows, in created_at order

Dispositions == {"SERVICEABLE", "UNSERVICEABLE", "SCRAPPED", "QUARANTINED"}
Sticky == {"ORDERED", "RECEIVED", "FULFILLED", "CANCELLED"}
Settled == {"FULFILLED", "CANCELLED"}
Statuses == Sticky \cup {"REQUIRED", "SHORT", "AVAILABLE", "RESERVED"}

Quantities == {"onHand", "reserved", "quarantined"}
Part == [onHand : Nat, reserved : Nat, quarantined : Nat,
         serviceability : Dispositions]
Delta == [onHand : Int, reserved : Int, quarantined : Int]
Need == [required : Nat, fulfilled : Nat, status : Statuses \cup {"ABSENT"}]

(* type: the transaction type; receipt: the quantity receiving_service then
   allocates to requirements (0 for a movement that is not a PO receipt);
   disposition: the serviceability committed afterwards, or "KEEP".        *)
Movement == [delta : Delta, receipt : Nat, disposition : Dispositions \cup {"KEEP"}]

Phases == {"idle", "locked", "committed", "refreshed", "rederive", "allocate",
           "allocating", "dispose", "patchPart", "createNeed", "patchNeed",
           "patchNeedStatus", "done"}

ASSUME InventoryAssumption ==
    /\ NumSlots \in Nat
    /\ NoRequest \notin Requests
    /\ Movements \subseteq Movement
    /\ Required \subseteq Nat
    /\ OpeningParts \subseteq Part
    /\ OpeningNeeds \subseteq [Slots -> Need]
    /\ \A u \in PartPatches :
          /\ DOMAIN u \subseteq {"onHand", "reserved"}
          /\ \A f \in DOMAIN u : u[f] \in Nat
    /\ \A u \in NeedPatches :
          /\ DOMAIN u \subseteq {"required", "fulfilled", "status"}
          /\ \A f \in DOMAIN u \ {"status"} : u[f] \in Nat
          /\ "status" \in DOMAIN u => u["status"] \in Statuses

VARIABLES
    part,       \* the committed parts row
    ledger,     \* column sums of the committed inventory_transactions rows
    need,       \* the committed part_requirements rows
    rowLock,    \* the request that holds the parts row FOR UPDATE
    req,        \* per request: phase, payload and what its session has loaded
    opening,    \* history: the row create_part committed
    patched,    \* history: some PATCH has written a quantity
    allocated   \* history: quantity the receipts handed to fulfil_from_receipt

vars == <<part, ledger, need, rowLock, req, opening, patched, allocated>>
-----------------------------------------------------------------------------
Available(p) == p.onHand - p.reserved - p.quarantined

Least(a, b) == IF a < b THEN a ELSE b

(* Mutant: CANCELLED is not sticky. *)
DeriveStatusUncancels(n, available) ==
    IF n.status \in Sticky \ {"CANCELLED"} THEN n.status
    ELSE IF n.required <= n.fulfilled THEN "FULFILLED"
    ELSE IF available >= n.required - n.fulfilled THEN "AVAILABLE"
    ELSE "SHORT"

DeriveStatus(n, available) ==
    IF n.status \in Sticky THEN n.status
    ELSE IF n.required <= n.fulfilled THEN "FULFILLED"
    ELSE IF available >= n.required - n.fulfilled THEN "AVAILABLE"
    ELSE "SHORT"

(* The row _apply_transaction computes from the row its session loaded. *)
Moved(p, d) == [f \in DOMAIN p |-> IF f \in Quantities THEN p[f] + d[f] ELSE p[f]]

Covered(p) == /\ p.onHand >= 0 /\ p.reserved >= 0 /\ p.quarantined >= 0
              /\ p.reserved + p.quarantined <= p.onHand

(* The movements of inventory_transaction_service, as their deltas. *)
Move(on, res, quar, receipt, disposition) ==
    [delta |-> [onHand |-> on, reserved |-> res, quarantined |-> quar],
     receipt |-> receipt, disposition |-> disposition]

Receive(q)    == Move(q, 0, 0, 0, "KEEP")
Receipt(q)    == Move(q, 0, 0, q, "KEEP")    \* receive_part for a purchase order
Reserve(q)    == Move(0, q, 0, 0, "KEEP")
Release(q)    == Move(0, -q, 0, 0, "KEEP")
Consume(q)    == Move(-q, -q, 0, 0, "KEEP")
Adjust(q)     == Move(q, 0, 0, 0, "KEEP")
Quarantine(q) == Move(0, 0, q, 0, "QUARANTINED")
ReleaseQuarantine(q, disposition) ==
    Move(IF disposition = "SCRAPPED" THEN -q ELSE 0, 0, -q, 0, disposition)

(* The unit of work writes exactly the columns whose value differs from the
   one the session loaded, and leaves the other columns of the row alone.  *)
WriteChanged(row, loaded, new) ==
    [f \in DOMAIN row |-> IF new[f] = loaded[f] THEN row[f] ELSE new[f]]

Updated(row, updates) ==
    [f \in DOMAIN row |-> IF f \in DOMAIN updates THEN updates[f] ELSE row[f]]
-----------------------------------------------------------------------------
NoMovement == [delta |-> [onHand |-> 0, reserved |-> 0, quarantined |-> 0],
               receipt |-> 0, disposition |-> "KEEP"]
NoPart == [onHand |-> 0, reserved |-> 0, quarantined |-> 0,
           serviceability |-> "SERVICEABLE"]
NoNeeds == [s \in Slots |-> [required |-> 0, fulfilled |-> 0, status |-> "ABSENT"]]

NoBody == [f \in {} |-> 0]
Bodies == PartPatches \cup NeedPatches \cup { [required |-> q] : q \in Required }
             \cup { NoBody }

(* A session: `part` and `needs` are what it loaded last; `expired` says that
   a commit has expired its part object; `slot` and `updates` are the target
   and body of a PATCH or create, `status` the one derived for a PATCH.    *)
Session(phase) == [at |-> phase, move |-> NoMovement, part |-> NoPart,
                   needs |-> NoNeeds, expired |-> FALSE, slot |-> 0,
                   updates |-> NoBody, status |-> "ABSENT"]

Init == /\ part \in OpeningParts
        /\ ledger = NoMovement.delta
        /\ need \in OpeningNeeds
        /\ rowLock = NoRequest
        /\ req = [r \in Requests |-> Session("idle")]
        /\ opening = part
        /\ patched = FALSE
        /\ allocated = 0

SessionType ==
    [at : Phases, move : Movements \cup {NoMovement}, part : Part,
     needs : [Slots -> Need], expired : BOOLEAN, slot : 0..NumSlots, updates : Bodies,
     status : Statuses \cup {"ABSENT"}]

history == <<opening, patched, allocated>>
At(r, phase) == req[r].at = phase
Goto(r, session) == req' = [req EXCEPT ![r] = session]
End(r) == Goto(r, Session("done"))
-----------------------------------------------------------------------------
(* Movements: receive, reserve, release, consume, adjust, quarantine,
   release_quarantine.                                                     *)

(* Mutant: SELECT without FOR UPDATE. *)
LockPartUnlocked(r, m) ==
    /\ At(r, "idle")
    /\ rowLock' = r
    /\ Goto(r, [Session("locked") EXCEPT !.move = m, !.part = part])
    /\ UNCHANGED <<part, ledger, need, history>>

LockPart(r, m) ==
    /\ At(r, "idle") /\ rowLock = NoRequest
    /\ rowLock' = r
    /\ Goto(r, [Session("locked") EXCEPT !.move = m, !.part = part])
    /\ UNCHANGED <<part, ledger, need, history>>

(* Mutant: the reserved-plus-quarantined check is missing. *)
ApplyMovementUnchecked(r) ==
    LET new == Moved(req[r].part, req[r].move.delta)
    IN  /\ At(r, "locked") /\ \A f \in Quantities : new[f] >= 0
        /\ part' = WriteChanged(part, req[r].part, new)
        /\ ledger' = Moved(ledger, req[r].move.delta)
        /\ rowLock' = NoRequest
        /\ Goto(r, [req[r] EXCEPT !.at = "committed"])
        /\ UNCHANGED <<need, history>>

ApplyMovement(r) ==
    LET new == Moved(req[r].part, req[r].move.delta)
    IN  /\ At(r, "locked") /\ Covered(new)
        /\ part' = WriteChanged(part, req[r].part, new)
        /\ ledger' = Moved(ledger, req[r].move.delta)
        /\ rowLock' = NoRequest
        /\ Goto(r, [req[r] EXCEPT !.at = "committed"])
        /\ UNCHANGED <<need, history>>

(* Mutant: the error path leaves the session open and the row locked. *)
RejectMovementLeaksLock(r) ==
    /\ At(r, "locked") /\ ~Covered(Moved(req[r].part, req[r].move.delta))
    /\ End(r)
    /\ UNCHANGED <<part, ledger, need, rowLock, history>>

RejectMovement(r) ==
    /\ At(r, "locked") /\ ~Covered(Moved(req[r].part, req[r].move.delta))
    /\ rowLock' = NoRequest
    /\ End(r)
    /\ UNCHANGED <<part, ledger, need, history>>

RefreshPart(r) ==
    /\ At(r, "committed")
    /\ Goto(r, [req[r] EXCEPT !.at = "refreshed", !.part = part])
    /\ UNCHANGED <<part, ledger, need, rowLock, history>>

ReadNeeds(r) ==
    /\ At(r, "refreshed")
    /\ Goto(r, [req[r] EXCEPT !.at = "rederive", !.needs = need])
    /\ UNCHANGED <<part, ledger, need, rowLock, history>>

(* Mutant: only SHORT requirements are re-derived. *)
RederivedOnlyShort(session) ==
    [s \in Slots |->
        IF session.needs[s].status # "SHORT" THEN session.needs[s]
        ELSE [session.needs[s] EXCEPT
                !.status = DeriveStatus(session.needs[s], Available(session.part))]]

Rederived(session) ==
    [s \in Slots |->
        IF session.needs[s].status = "ABSENT" THEN session.needs[s]
        ELSE [session.needs[s] EXCEPT
                !.status = DeriveStatus(session.needs[s], Available(session.part))]]

AfterRederive(m) == IF m.receipt > 0 THEN "allocate"
                    ELSE IF m.disposition # "KEEP" THEN "dispose" ELSE "done"

RecomputeStatus(r) ==
    LET new  == Rederived(req[r])
        next == AfterRederive(req[r].move)
    IN  /\ At(r, "rederive")
        /\ need' = [s \in Slots |-> WriteChanged(need[s], req[r].needs[s], new[s])]
        /\ IF next = "done" THEN End(r)
           ELSE Goto(r, [req[r] EXCEPT !.at = next, !.needs = NoNeeds,
                                       !.expired = new # req[r].needs])
        /\ UNCHANGED <<part, ledger, rowLock, history>>

(* quarantine_part and release_quarantine: the second commit. *)
SetServiceability(r) ==
    LET disposition == req[r].move.disposition
    IN  /\ At(r, "dispose") /\ rowLock = NoRequest
        /\ IF req[r].expired \/ req[r].part.serviceability # disposition
           THEN part' = [part EXCEPT !.serviceability = disposition]
           ELSE UNCHANGED part
        /\ End(r)
        /\ UNCHANGED <<ledger, need, rowLock, history>>
-----------------------------------------------------------------------------
(* fulfil_from_receipt, called by receiving_service after receive_part. *)

(* Mutant: AVAILABLE counts as settled. *)
OutstandingUnlessAvailable(n) ==
    IF n.status \in Settled \cup {"ABSENT", "AVAILABLE"} \/ n.fulfilled >= n.required
    THEN 0 ELSE n.required - n.fulfilled

Outstanding(n) == IF n.status \in Settled \cup {"ABSENT"} \/ n.fulfilled >= n.required
                  THEN 0 ELSE n.required - n.fulfilled

(* left[s] of a receipt of q units remains after the rows 1..s, oldest first. *)
Greedy(left, needs, q) ==
    /\ left[0] = q
    /\ \A s \in Slots : left[s] = left[s-1] - Least(Outstanding(needs[s]), left[s-1])

ReadNeedsToFulfil(r) ==
    /\ At(r, "allocate")
    /\ Goto(r, [req[r] EXCEPT !.at = "allocating", !.needs = need])
    /\ UNCHANGED <<part, ledger, need, rowLock, history>>

(* Mutant: the increment is not capped by LEAST. *)
FulfilUncapped(n, delta, available) ==
    LET more == [n EXCEPT !.fulfilled = n.fulfilled + delta]
    IN  [more EXCEPT !.status = DeriveStatus(more, available)]

Fulfil(n, delta, available) ==
    LET more == [n EXCEPT !.fulfilled = Least(n.required, n.fulfilled + delta)]
    IN  [more EXCEPT !.status = DeriveStatus(more, available)]

FulfilFromReceipt(r) ==
    LET q == req[r].move.receipt
    IN  /\ At(r, "allocating")
        /\ \E left \in [0..NumSlots -> 0..q] :
              /\ Greedy(left, req[r].needs, q)
              /\ need' = [s \in Slots |->
                            IF left[s] = left[s-1] THEN need[s]
                            ELSE Fulfil(need[s], left[s-1] - left[s], Available(part))]
        /\ allocated' = allocated + q
        /\ End(r)
        /\ UNCHANGED <<part, ledger, rowLock, opening, patched>>
-----------------------------------------------------------------------------
(* part_service.update_part: reads without a lock; the UPDATE waits for one. *)

ReadPartToPatch(r, u) ==
    /\ At(r, "idle")
    /\ Goto(r, [Session("patchPart") EXCEPT !.part = part, !.updates = u])
    /\ UNCHANGED <<part, ledger, need, rowLock, history>>

PatchPart(r) ==
    /\ At(r, "patchPart") /\ rowLock = NoRequest
    /\ part' = WriteChanged(part, req[r].part, Updated(req[r].part, req[r].updates))
    /\ patched' = (patched \/ part' # part)
    /\ End(r)
    /\ UNCHANGED <<ledger, need, rowLock, opening, allocated>>
-----------------------------------------------------------------------------
(* part_requirement_service.create_part_requirement *)

(* created_at is the transaction's start, so the slot is taken on arrival. *)
Taken(s) == \/ need[s].status # "ABSENT"
            \/ \E r \in Requests : At(r, "createNeed") /\ req[r].slot = s

ReadPartForNeed(r, s, q) ==
    /\ At(r, "idle")
    /\ s > 1 => Taken(s-1)
    /\ \A t \in s..NumSlots : ~Taken(t)
    /\ Goto(r, [Session("createNeed") EXCEPT !.part = part, !.slot = s,
                                             !.updates = [required |-> q]])
    /\ UNCHANGED <<part, ledger, need, rowLock, history>>

CreateNeed(r) ==
    LET new == [required |-> req[r].updates["required"], fulfilled |-> 0,
                status |-> "REQUIRED"]
    IN  /\ At(r, "createNeed")
        /\ need' = [need EXCEPT ![req[r].slot] =
              [new EXCEPT !.status = DeriveStatus(new, Available(req[r].part))]]
        /\ End(r)
        /\ UNCHANGED <<part, ledger, rowLock, history>>

(* part_requirement_service.update_part_requirement *)

ReadNeedToPatch(r, s, u) ==
    /\ At(r, "idle") /\ need[s].status # "ABSENT"
    /\ Goto(r, [Session(IF "status" \in DOMAIN u THEN "patchNeed" ELSE "patchNeedStatus")
                  EXCEPT !.needs = need, !.slot = s, !.updates = u])
    /\ UNCHANGED <<part, ledger, need, rowLock, history>>

(* No status in the body: it is derived from the part, read here. *)
Body(r) == Updated(req[r].needs[req[r].slot], req[r].updates)

DerivePatchStatus(r) ==
    /\ At(r, "patchNeedStatus")
    /\ Goto(r, [req[r] EXCEPT !.at = "patchNeed",
                              !.status = DeriveStatus(Body(r), Available(part))])
    /\ UNCHANGED <<part, ledger, need, rowLock, history>>

PatchNeed(r) ==
    LET s   == req[r].slot
        new == IF "status" \in DOMAIN req[r].updates THEN Body(r)
               ELSE [Body(r) EXCEPT !.status = req[r].status]
    IN  /\ At(r, "patchNeed")
        /\ need' = [need EXCEPT ![s] = WriteChanged(@, req[r].needs[s], new)]
        /\ End(r)
        /\ UNCHANGED <<part, ledger, rowLock, history>>
-----------------------------------------------------------------------------
(* The request dies, or the database aborts its transaction: what it has not
   committed is rolled back and its row lock is released.                  *)
Crash(r) ==
    /\ req[r].at \notin {"idle", "done"}
    /\ rowLock' = IF rowLock = r THEN NoRequest ELSE rowLock
    /\ End(r)
    /\ UNCHANGED <<part, ledger, need, history>>

Arrive(r) ==
    \/ \E m \in Movements : LockPart(r, m)
    \/ \E u \in PartPatches : ReadPartToPatch(r, u)
    \/ \E s \in Slots, q \in Required : ReadPartForNeed(r, s, q)
    \/ \E s \in Slots, u \in NeedPatches : ReadNeedToPatch(r, s, u)

Continue(r) ==
    \/ ApplyMovement(r) \/ RejectMovement(r)
    \/ RefreshPart(r) \/ ReadNeeds(r) \/ RecomputeStatus(r)
    \/ SetServiceability(r)
    \/ ReadNeedsToFulfil(r) \/ FulfilFromReceipt(r)
    \/ PatchPart(r)
    \/ CreateNeed(r) \/ DerivePatchStatus(r) \/ PatchNeed(r)

Next == \E r \in Requests : Arrive(r) \/ Continue(r) \/ Crash(r)

(* A request that has arrived is run to its end by its worker thread. *)
Fairness == \A r \in Requests : WF_vars(Continue(r))

Spec == Init /\ [][Next]_vars
FairSpec == Spec /\ Fairness
-----------------------------------------------------------------------------
(* What the payload of a session is while it waits to be used. *)
Payload(session) ==
    /\ session.at = "locked" => session.move \in Movements
    /\ session.at = "dispose" => session.move.disposition # "KEEP"
    /\ session.at = "patchPart" => session.updates \in PartPatches
    /\ session.at = "createNeed" =>
          session.slot \in Slots /\ session.updates["required"] \in Nat
    /\ session.at \in {"patchNeed", "patchNeedStatus"} =>
          session.slot \in Slots /\ session.updates \in NeedPatches

PayloadOK == \A r \in Requests : Payload(req[r])

(* The row lock is held exactly by the session between its SELECT ... FOR
   UPDATE and its commit, and what that session loaded is still the row.   *)
LockOK ==
    \A r \in Requests :
       /\ At(r, "locked") <=> rowLock = r
       /\ At(r, "locked") => req[r].part = part

(* Every row and session holds values of its columns' types: quantities never
   become negative, whatever the order of movements and PATCHes.           *)
TypeOK ==
    /\ part \in Part
    /\ ledger \in Delta
    /\ need \in [Slots -> Need]
    /\ rowLock \in Requests \cup {NoRequest}
    /\ req \in [Requests -> SessionType]
    /\ opening \in Part /\ patched \in BOOLEAN /\ allocated \in Nat

(* The quantities of the row are what create_part committed plus the deltas of
   its inventory_transactions rows, however the movements interleave, until
   somebody PATCHes a quantity: no movement is lost or applied twice.      *)
LedgerAccountsForPart ==
    ~patched => \A f \in Quantities : part[f] = opening[f] + ledger[f]

(* get_part's promise ("two concurrent reservations serialize"): a row that
   was created covered stays covered (reserved plus quarantined within on
   hand) while no PATCH has written a quantity.                            *)
StaysCovered == Covered(opening) /\ ~patched => Covered(part)

(* The row lock makes a movement atomic: read, check, write and ledger row
   happen as one step of StockLedger, with every other step of the requests
   invisible to the stock, also on rows a PATCH has left uncovered.        *)
StockOf(row) == [f \in Quantities |-> row[f]]

Stock == INSTANCE StockLedger WITH
            Deltas   <- { StockOf(m.delta) : m \in Movements },
            Openings <- { StockOf(p) : p \in OpeningParts },
            stock    <- StockOf(part),
            book     <- StockOf(ledger)

ImplementsStockLedger == Stock!Spec

(* The inductive invariant behind the theorems of PartInventoryProofs. *)
InventoryInv == /\ TypeOK /\ PayloadOK /\ LockOK
                /\ LedgerAccountsForPart /\ StaysCovered

(* Every request that arrived ends: no movement holds the row lock forever and
   none waits for it forever.                                              *)
EveryRequestEnds ==
    \A r \in Requests : ~At(r, "idle") ~> At(r, "done")
=============================================================================
