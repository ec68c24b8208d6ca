---------------------------- MODULE MCPurchasing ----------------------------
(* Small instances of Purchasing for TLC, and the properties that hold as long
   as operations do not overlap.                                           *)
EXTENDS Purchasing, FiniteSets, TLC

CONSTANTS r1, r2, p1, p2, Scenarios, Rounds

PartRequest == {r1}

NoLine == [request |-> NoRequest, quantity |-> 0]
Free(q) == [request |-> NoRequest, quantity |-> q]
For(r, q) == [request |-> r, quantity |-> q]
OneEach == { <<For(r1, 2), For(r2, 1)>>, <<For(r1, 1), NoLine>>, <<For(r2, 1), NoLine>> }
OneOrTwice == OneEach \cup { <<For(r1, 1), For(r1, 1)>> }
NoLayouts == {}

Deliver(i, q) == [line |-> i, quantity |-> q]
FewReceipts == { <<Deliver(1, 1)>>, <<Deliver(2, 1)>>, <<Deliver(1, 2)>> }
MixedReceipts == FewReceipts \cup { <<Deliver(1, 1), Deliver(2, 1)>>,
                                    <<Deliver(2, 1), Deliver(1, 1)>>,
                                    <<Deliver(1, 1), Deliver(1, 1)>> }

All(status) == [r \in Requests |-> status]
Ordered == { All("ORDERED") }
ApprovedOrOrdered == { All("APPROVED"), All("ORDERED") }

Unordered == [status |-> "ABSENT", lines |-> <<NoLine, NoLine>>]
Sent(layout) == [p \in Orders |-> IF p = p1 THEN [status |-> "SENT", lines |-> layout]
                                  ELSE Unordered]
SentWithPart == { Sent(<<For(r1, 2), Free(1)>>) }
SentOrNone == { Sent(<<For(r1, 2), For(r2, 1)>>), [p \in Orders |-> Unordered] }

Symmetric == Permutations(Sessions)
-----------------------------------------------------------------------------
(* The scenario of a behaviour, fixed at its start:
     "concurrent"  every operation in every order, dying and refused anywhere;
     "serial"      one operation at a time, any of which may die or be refused;
     "smooth"      one operation at a time, none dying and none refused once
                   it has committed something.
   The sessions of the last two serve several rounds of requests.          *)
VARIABLES scenario, round

(* History of a serial behaviour: the orders whose creation has done its last
   commit, after which nothing keeps it from being answered as a success.   *)
VARIABLE confirmed

RecordConfirmed ==
    confirmed' = IF scenario = "concurrent" THEN {}
                 ELSE confirmed \cup {p \in Orders :
                        \E s \in Sessions : CommitOrder(s) /\ session[s].order = p}

AllDone == \A s \in Sessions : session[s].at \in {"idle", "done"}

MCInit == /\ Init /\ round = 1 /\ scenario \in Scenarios /\ confirmed = {}
          /\ request = All("ORDERED") <=> order[p1] = "SENT"
          /\ scenario # "concurrent" => order[p1] = "ABSENT"

NextRound == /\ \A s \in Sessions : At(s, "done")
             /\ round < Rounds /\ scenario # "concurrent"
             /\ session' = [s \in Sessions |-> Idle]
             /\ round' = round + 1
             /\ UNCHANGED <<request, order, lines, received, posted>>

StopsHalfWay(s) == /\ session'[s].at = "done"
                   /\ At(s, "post") \/ (At(s, "line") /\ session[s].from = "EXPIRED")

InTurn(s) == \/ AllDone /\ Arrive(s)
             \/ Continue(s) /\ (scenario = "smooth" => ~StopsHalfWay(s))
             \/ scenario = "serial" /\ Crash(s)

MCNext ==
    /\ UNCHANGED scenario
    /\ \/ NextRound
       \/ /\ UNCHANGED round
          /\ \/ scenario = "concurrent" /\ Next
             \/ scenario # "concurrent" /\ \E s \in Sessions : InTurn(s)
    /\ RecordConfirmed

mcvars == <<vars, scenario, round, confirmed>>
MCSpec == MCInit /\ [][MCNext]_mcvars
-----------------------------------------------------------------------------
(* test_full_receipt_marks_po_received_and_updates_inventory: what a line of
   a part received is what the ledger booked for it, even where a receipt of
   several lines stops half-way, and a line without a part books nothing.  *)
StockMatchesLines ==
    scenario # "concurrent" /\ AllDone => \A p \in Orders : \A i \in LineNumbers :
        posted[p][i] = IF i \in PartLines(lines[p]) THEN received[p][i] ELSE 0

(* test_over_receipt_rejected: no line takes in more than was ordered. *)
NoOverReceipt ==
    \A p \in Orders : \A i \in LineNumbers :
        received[p][i] <= lines[p][i].quantity /\ posted[p][i] <= lines[p][i].quantity

(* The same promise for receipts that do not overlap. *)
NoOverReceiptSerially == scenario # "concurrent" => NoOverReceipt

(* test_second_purchase_order_from_same_request_rejected, and "Only an APPROVED
   procurement request can be added to a purchase order": as long as creations
   do not overlap, a request is on one line at most of the orders whose creation
   was carried to its end, whatever was refused, died half-way or named it twice
   before.  A creation that stops after its first commit leaves an order that
   nobody confirmed, and its later requests APPROVED, to be bought again.   *)
RequestBoughtOnce ==
    scenario # "concurrent" => \A r \in Requests :
       Cardinality({ l \in confirmed \X LineNumbers : lines[l[1]][l[2]].request = r }) <= 1

(* "States a PO must be in to accept a delivery": as long as nothing overlaps
   a receipt, nothing is received or booked against an order in another
   state, a receipt of several commits included.                           *)
DeliveredWhileReceivable ==
    [][scenario # "concurrent" => \A p \in Orders :
          received'[p] # received[p] \/ posted'[p] # posted[p] =>
             order[p] \in Receivable]_vars

(* Between undisturbed operations the status of a delivered order says what its
   lines say: RECEIVED when all of them are complete, PARTIALLY_RECEIVED when
   something arrived, and an order that was cancelled has received nothing. *)
StatusMatchesLines ==
    scenario = "smooth" /\ AllDone => \A p \in Orders :
        LET complete == \A i \in LineNumbers : received[p][i] >= lines[p][i].quantity
            some     == \E i \in LineNumbers : received[p][i] > 0
        IN  some => order[p] = IF complete THEN "RECEIVED" ELSE "PARTIALLY_RECEIVED"
=============================================================================
