----------------------------- MODULE Purchasing -----------------------------
(***************************************************************************)
(* Procurement requests, purchase orders and the receipt of deliveries.    *)
(* No statement of these services takes a lock: every operation loads the  *)
(* rows it needs, checks them, and writes later, in one commit or several. *)
(* A receipt commits once per line that has a part (receive_part commits), *)
(* and every commit makes the session load the order and its lines anew.   *)
(* The stock side of a receipt is PartInventory's Receipt movement; here   *)
(* only the quantity its ledger rows book against each line is kept.       *)
(*                                                                         *)
(*   procurement_service, purchase_order_service, receiving_service        *)
(***************************************************************************)
EXTENDS Integers, Sequences

CONSTANTS
    Sessions,           \* HTTP requests; each performs one operation
    Requests,           \* procurement requests
    PartRequests,       \* those with a part_id
    NoRequest,          \* a line with a free-text part number only
    Orders,             \* purchase orders
    LineNumbers,        \* positions of an order's lines
    Layouts,            \* what orders may be created with
    Receipts,           \* deliveries: sequences of a line and a quantity
    OpeningRequests,    \* request statuses to start from
    OpeningOrders       \* orders to start from: a status and a layout

RequestStatuses == {"ABSENT", "SUBMITTED", "UNDER_REVIEW", "APPROVED", "REJECTED",
                    "CLARIFICATION_REQUIRED", "ORDERED", "RECEIVED", "CLOSED"}
OrderStatuses == {"ABSENT", "DRAFT", "PENDING_APPROVAL", "APPROVED", "SENT",
                  "ACKNOWLEDGED", "PARTIALLY_RECEIVED", "RECEIVED", "CANCELLED"}

Line == [request : Requests \cup {NoRequest}, quantity : Nat]   \* 0: no such line
Item == [line : LineNumbers, quantity : Nat \ {0}]

ASSUME PurchasingAssumption ==
    /\ LineNumbers \subseteq Nat
    /\ PartRequests \subseteq Requests /\ NoRequest \notin Requests
    /\ Layouts \subseteq [LineNumbers -> Line]
    /\ Receipts \subseteq Seq(Item)
    /\ OpeningRequests \subseteq [Requests -> RequestStatuses]
    /\ OpeningOrders \subseteq [Orders -> [status : OrderStatuses,
                                           lines : [LineNumbers -> Line]]]

VARIABLES
    request,    \* per procurement request: its status
    order,      \* per purchase order: its status
    lines,      \* per purchase order: its lines
    received,   \* per order and line: received_quantity
    posted,     \* per order and line: on_hand delta of its ledger rows
    session     \* per HTTP request: phase and what its session holds

vars == <<request, order, lines, received, posted, session>>
-----------------------------------------------------------------------------
RequestTransitions ==
    [SUBMITTED    |-> {"UNDER_REVIEW", "APPROVED", "REJECTED", "CLARIFICATION_REQUIRED"},
     UNDER_REVIEW |-> {"APPROVED", "REJECTED", "CLARIFICATION_REQUIRED"},
     CLARIFICATION_REQUIRED |-> {"SUBMITTED"},
     APPROVED     |-> {"ORDERED"},
     ORDERED      |-> {"RECEIVED"},
     RECEIVED     |-> {"CLOSED"}]

OrderTransitions ==
    [DRAFT            |-> {"PENDING_APPROVAL", "CANCELLED"},
     PENDING_APPROVAL |-> {"APPROVED", "CANCELLED"},
     APPROVED         |-> {"SENT", "CANCELLED"},
     SENT             |-> {"ACKNOWLEDGED", "CANCELLED"}]

Allows(table, current, target) ==
    current \in DOMAIN table /\ target \in table[current]

Receivable == {"SENT", "ACKNOWLEDGED", "PARTIALLY_RECEIVED"}

LinkedLines(ls) == { i \in LineNumbers : ls[i].request # NoRequest }
PartLines(ls) == { i \in LineNumbers : ls[i].request \in PartRequests }
First(S) == CHOOSE i \in S : \A j \in S : i <= j

Phases == {"idle", "writeRequest", "writeOrder", "ordering", "markOrdered", "commitOrder",
           "line", "post", "marking", "markReceived", "done"}

(* from, to: loaded and target status; todo: line numbers still to handle;
   items: payload still to handle; view: received quantities the session
   holds, valid for the lines in `loaded`, modified for those in `dirty`.
   from = "EXPIRED": a commit has expired the order the session holds.     *)
Idle == [at |-> "idle", request |-> NoRequest, order |-> 0, from |-> "EXPIRED",
         to |-> "ABSENT", layout |-> [i \in LineNumbers |-> [request |-> NoRequest, quantity |-> 0]],
         todo |-> {}, items |-> <<>>, view |-> [i \in LineNumbers |-> 0],
         loaded |-> {}, dirty |-> {}]

Init == /\ request \in OpeningRequests
        /\ \E o \in OpeningOrders :
              /\ order = [p \in Orders |-> o[p].status]
              /\ lines = [p \in Orders |-> o[p].lines]
        /\ received = [p \in Orders |-> Idle.view]
        /\ posted = received
        /\ session = [s \in Sessions |-> Idle]

At(s, phase) == session[s].at = phase
Goto(s, new) == session' = [session EXCEPT ![s] = new]
End(s) == Goto(s, [Idle EXCEPT !.at = "done"])
-----------------------------------------------------------------------------
(* procurement_service: every operation is a read, a check and a write. *)

CreateRequest(r) ==
    /\ request[r] = "ABSENT"
    /\ request' = [request EXCEPT ![r] = "SUBMITTED"]
    /\ UNCHANGED <<order, lines, received, posted, session>>

ReadRequest(s, r, target) ==
    /\ At(s, "idle") /\ Allows(RequestTransitions, request[r], target)
    /\ Goto(s, [Idle EXCEPT !.at = "writeRequest", !.request = r, !.to = target])
    /\ UNCHANGED <<request, order, lines, received, posted>>

WriteRequest(s) ==
    /\ At(s, "writeRequest")
    /\ request' = [request EXCEPT ![session[s].request] = session[s].to]
    /\ End(s)
    /\ UNCHANGED <<order, lines, received, posted>>

(* purchase_order_service._transition *)
ReadOrder(s, p, target) ==
    /\ At(s, "idle") /\ Allows(OrderTransitions, order[p], target)
    /\ Goto(s, [Idle EXCEPT !.at = "writeOrder", !.order = p, !.to = target])
    /\ UNCHANGED <<request, order, lines, received, posted>>

WriteOrder(s) ==
    /\ At(s, "writeOrder")
    /\ order' = [order EXCEPT ![session[s].order] = session[s].to]
    /\ End(s)
    /\ UNCHANGED <<request, lines, received, posted>>
-----------------------------------------------------------------------------
(* create_purchase_order: the order is flushed, then committed by the first
   mark_ordered, which commits; the others follow, each with its commit.   *)

Creating(p) == \E s \in Sessions :
    session[s].order = p /\ session[s].at \in {"ordering", "markOrdered", "commitOrder"}

(* Mutant: the requests' statuses are not checked. *)
StartOrderUnchecked(s, p, layout) ==
    /\ At(s, "idle") /\ order[p] = "ABSENT" /\ ~Creating(p)
    /\ Goto(s, [Idle EXCEPT
          !.at = IF LinkedLines(layout) = {} THEN "commitOrder" ELSE "markOrdered",
          !.order = p, !.layout = layout, !.todo = LinkedLines(layout)])
    /\ UNCHANGED <<request, order, lines, received, posted>>

StartOrder(s, p, layout) ==
    /\ At(s, "idle") /\ order[p] = "ABSENT" /\ ~Creating(p)
    /\ \A i \in LinkedLines(layout) : request[layout[i].request] = "APPROVED"
    /\ Goto(s, [Idle EXCEPT
          !.at = IF LinkedLines(layout) = {} THEN "commitOrder" ELSE "markOrdered",
          !.order = p, !.layout = layout, !.todo = LinkedLines(layout)])
    /\ UNCHANGED <<request, order, lines, received, posted>>

(* Whatever the session commits first inserts the order. *)
InsertOrder(s) ==
    LET p == session[s].order
    IN  IF order[p] = "ABSENT"
        THEN /\ order' = [order EXCEPT ![p] = "DRAFT"]
             /\ lines' = [lines EXCEPT ![p] = session[s].layout]
        ELSE UNCHANGED <<order, lines>>

MarkOrdered(s) ==
    LET i    == First(session[s].todo)
        rest == session[s].todo \ {i}
    IN  /\ At(s, "markOrdered")
        /\ request' = [request EXCEPT ![session[s].layout[i].request] = "ORDERED"]
        /\ InsertOrder(s)
        /\ Goto(s, [session[s] EXCEPT !.at = IF rest = {} THEN "commitOrder" ELSE "ordering",
                                      !.todo = rest])
        /\ UNCHANGED <<received, posted>>

(* The commit has expired the next request: its status is loaded anew. *)
ReadToOrder(s) ==
    /\ At(s, "ordering")
    /\ IF request[session[s].layout[First(session[s].todo)].request] = "APPROVED"
       THEN Goto(s, [session[s] EXCEPT !.at = "markOrdered"])
       ELSE End(s)
    /\ UNCHANGED <<request, order, lines, received, posted>>

CommitOrder(s) ==
    /\ At(s, "commitOrder")
    /\ InsertOrder(s)
    /\ End(s)
    /\ UNCHANGED <<request, received, posted>>
-----------------------------------------------------------------------------
(* receive_purchase_order *)

(* Mutant: any order that exists accepts a delivery. *)
StartReceiptAny(s, p, receipt) ==
    /\ At(s, "idle") /\ order[p] # "ABSENT"
    /\ Goto(s, [Idle EXCEPT !.at = "line", !.order = p, !.from = order[p],
                            !.items = receipt, !.view = received[p], !.loaded = LineNumbers])
    /\ UNCHANGED <<request, order, lines, received, posted>>

StartReceipt(s, p, receipt) ==
    /\ At(s, "idle") /\ order[p] \in Receivable
    /\ Goto(s, [Idle EXCEPT !.at = "line", !.order = p, !.from = order[p],
                            !.items = receipt, !.view = received[p], !.loaded = LineNumbers])
    /\ UNCHANGED <<request, order, lines, received, posted>>

(* received_quantity of a line as the session sees it. *)
Seen(s, i) == IF i \in session[s].loaded THEN session[s].view[i]
              ELSE received[session[s].order][i]

(* Mutant: what has been received already is not deducted. *)
OutstandingOrdered(s, i) == lines[session[s].order][i].quantity

Outstanding(s, i) == lines[session[s].order][i].quantity - Seen(s, i)

ReceiveLine(s) ==
    LET item == Head(session[s].items)
        i    == item.line
        part == i \in PartLines(lines[session[s].order])
    IN  /\ At(s, "line") /\ session[s].items # <<>>
        /\ IF item.quantity > Outstanding(s, i)    \* or there is no such line
           THEN End(s)
           ELSE Goto(s, [session[s] EXCEPT
                   !.at = IF part THEN "post" ELSE "line",
                   !.items = IF part THEN session[s].items ELSE Tail(session[s].items),
                   !.view = [session[s].view EXCEPT ![i] = Seen(s, i) + item.quantity],
                   !.loaded = session[s].loaded \cup {i},
                   !.dirty = session[s].dirty \cup {i}])
        /\ UNCHANGED <<request, order, lines, received, posted>>

(* The unit of work writes the modified lines with whatever commits first. *)
WriteLines(s) ==
    received' = [received EXCEPT ![session[s].order] =
                    [i \in LineNumbers |-> IF i \in session[s].dirty THEN session[s].view[i]
                                           ELSE received[session[s].order][i]]]

(* Mutant: the movement commits without the line. *)
PostReceiptFirst(s) ==
    LET p    == session[s].order
        item == Head(session[s].items)
    IN  /\ At(s, "post")
        /\ posted' = [posted EXCEPT ![p] = [posted[p] EXCEPT ![item.line] = @ + item.quantity]]
        /\ Goto(s, [session[s] EXCEPT !.at = "line", !.items = Tail(session[s].items)])
        /\ UNCHANGED <<request, order, lines, received>>

(* receive_part: locks the part, and commits movement, ledger row and lines. *)
PostReceipt(s) ==
    LET p    == session[s].order
        item == Head(session[s].items)
    IN  /\ At(s, "post")
        /\ posted' = [posted EXCEPT ![p] = [posted[p] EXCEPT ![item.line] = @ + item.quantity]]
        /\ WriteLines(s)
        /\ Goto(s, [session[s] EXCEPT !.at = "line", !.items = Tail(session[s].items),
                                      !.from = "EXPIRED", !.loaded = {}, !.dirty = {}])
        /\ UNCHANGED <<request, order, lines>>

(* Mutant: the session commits what it holds when the movement is refused. *)
RefusePostingCommits(s) ==
    /\ At(s, "post")
    /\ WriteLines(s)
    /\ End(s)
    /\ UNCHANGED <<request, order, lines, posted>>

(* The movement is refused (PartInventory's RejectMovement). *)
RefusePosting(s) ==
    /\ At(s, "post")
    /\ End(s)
    /\ UNCHANGED <<request, order, lines, received, posted>>

(* Mutant: any receipt completes the order. *)
ReceivedAny(ls, seen, from) ==
    IF \E i \in LineNumbers : seen[i] > 0 THEN "RECEIVED" ELSE from

ReceivedStatus(ls, seen, from) ==
    IF \A i \in LineNumbers : seen[i] >= ls[i].quantity THEN "RECEIVED"
    ELSE IF \E i \in LineNumbers : seen[i] > 0 THEN "PARTIALLY_RECEIVED"
    ELSE from

DecideStatus(s) ==
    LET p    == session[s].order
        seen == [i \in LineNumbers |-> Seen(s, i)]
        from == IF session[s].from = "EXPIRED" THEN order[p] ELSE session[s].from
        to   == ReceivedStatus(lines[p], seen, from)
    IN  /\ At(s, "line") /\ session[s].items = <<>>
        /\ Goto(s, [session[s] EXCEPT
              !.at = "marking", !.from = from, !.to = to, !.view = seen, !.loaded = LineNumbers,
              !.todo = IF to = "RECEIVED" THEN LinkedLines(lines[p]) ELSE {}])
        /\ UNCHANGED <<request, order, lines, received, posted>>

(* The order's new status and its lines go out with the session's next commit. *)
WriteReceipt(s) ==
    /\ WriteLines(s)
    /\ order' = IF session[s].to = session[s].from THEN order
                ELSE [order EXCEPT ![session[s].order] = session[s].to]

NextToMark(s) == lines[session[s].order][First(session[s].todo)].request

ReadToMark(s) ==
    /\ At(s, "marking") /\ session[s].todo # {}
    /\ IF request[NextToMark(s)] = "ORDERED"
       THEN Goto(s, [session[s] EXCEPT !.at = "markReceived"])
       ELSE Goto(s, [session[s] EXCEPT !.todo = @ \ {First(@)}])
    /\ UNCHANGED <<request, order, lines, received, posted>>

MarkReceived(s) ==
    /\ At(s, "markReceived")
    /\ request' = [request EXCEPT ![NextToMark(s)] = "RECEIVED"]
    /\ WriteReceipt(s)
    /\ Goto(s, [session[s] EXCEPT !.at = "marking", !.todo = @ \ {First(@)},
                                  !.from = session[s].to, !.dirty = {}])
    /\ UNCHANGED <<lines, posted>>

CommitReceipt(s) ==
    /\ At(s, "marking") /\ session[s].todo = {}
    /\ WriteReceipt(s)
    /\ End(s)
    /\ UNCHANGED <<request, lines, posted>>
-----------------------------------------------------------------------------
(* The request dies: what its session has not committed is rolled back. *)
Crash(s) ==
    /\ session[s].at \notin {"idle", "done"}
    /\ End(s)
    /\ UNCHANGED <<request, order, lines, received, posted>>

Arrive(s) ==
    \/ \E r \in Requests, target \in RequestStatuses : ReadRequest(s, r, target)
    \/ \E p \in Orders, target \in OrderStatuses : ReadOrder(s, p, target)
    \/ \E p \in Orders, layout \in Layouts : StartOrder(s, p, layout)
    \/ \E p \in Orders, receipt \in Receipts : StartReceipt(s, p, receipt)

Continue(s) ==
    \/ WriteRequest(s) \/ WriteOrder(s)
    \/ MarkOrdered(s) \/ ReadToOrder(s) \/ CommitOrder(s)
    \/ ReceiveLine(s) \/ PostReceipt(s) \/ RefusePosting(s) \/ DecideStatus(s)
    \/ ReadToMark(s) \/ MarkReceived(s) \/ CommitReceipt(s)

Next == \/ \E r \in Requests : CreateRequest(r)
        \/ \E s \in Sessions : Arrive(s) \/ Continue(s) \/ Crash(s)

Spec == Init /\ [][Next]_vars
-----------------------------------------------------------------------------
Session == [at : Phases, request : Requests \cup {NoRequest}, order : Orders \cup {0},
            from : OrderStatuses \cup {"EXPIRED"}, to : RequestStatuses \cup OrderStatuses,
            layout : [LineNumbers -> Line], todo : SUBSET LineNumbers, items : Seq(Item),
            view : [LineNumbers -> Nat], loaded : SUBSET LineNumbers,
            dirty : SUBSET LineNumbers]

TypeOK ==
    /\ request \in [Requests -> RequestStatuses]
    /\ order \in [Orders -> OrderStatuses]
    /\ lines \in [Orders -> [LineNumbers -> Line]]
    /\ received \in [Orders -> [LineNumbers -> Nat]]
    /\ posted \in [Orders -> [LineNumbers -> Nat]]
    /\ session \in [Sessions -> Session]

(* What a session in the middle of a receipt holds of a part's line is never
   ahead of the ledger by more than the movement it is about to post.      *)
PendingOf(s, i) == IF At(s, "post") /\ Head(session[s].items).line = i
                   THEN Head(session[s].items).quantity ELSE 0

Receiving(s) == session[s].at \in {"line", "post", "marking", "markReceived"}

SessionsOK ==
    \A s \in Sessions :
       /\ session[s].at = "writeRequest" =>
             session[s].request \in Requests /\ session[s].to \in RequestStatuses
       /\ session[s].at = "writeOrder" =>
             session[s].order \in Orders /\ session[s].to \in OrderStatuses
       /\ session[s].at \in {"ordering", "markOrdered"} =>
             session[s].todo # {} /\ session[s].todo \subseteq LinkedLines(session[s].layout)
       /\ session[s].at \in {"ordering", "markOrdered", "commitOrder"} =>
             session[s].order \in Orders
       /\ Receiving(s) => /\ session[s].order \in Orders
                          /\ order[session[s].order] # "ABSENT"
                          /\ session[s].dirty \subseteq session[s].loaded
       /\ At(s, "post") => session[s].items # <<>>
       /\ session[s].at \in {"marking", "markReceived"} =>
             /\ session[s].to \in OrderStatuses \ {"ABSENT"}
             /\ session[s].todo \subseteq LinkedLines(lines[session[s].order])
       /\ At(s, "markReceived") => session[s].todo # {}

ViewsBacked ==
    \A s \in Sessions : Receiving(s) =>
       \A i \in session[s].loaded \cap PartLines(lines[session[s].order]) :
          session[s].view[i] <= posted[session[s].order][i] + PendingOf(s, i)

(* received_quantity of a line that has a part never exceeds what the stock
   ledger booked for that line, however receipts interleave, fail half-way or
   die: the books may run ahead of the order, the order never of the books. *)
LinesBackedByStock ==
    \A p \in Orders : \A i \in PartLines(lines[p]) : received[p][i] <= posted[p][i]

PurchasingInv == /\ TypeOK /\ SessionsOK /\ ViewsBacked /\ LinesBackedByStock
=============================================================================
