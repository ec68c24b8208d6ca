-------------------------- MODULE PurchasingProofs --------------------------
(* Proof that PurchasingInv is an invariant of Purchasing.                 *)
(*                                                                         *)
(* The argument: an order, once inserted, keeps its lines, and nothing is  *)
(* ever taken off the ledger (Grows); so what a session has seen of a line *)
(* remains covered by what was booked, however stale it is.  That an order *)
(* which is not there has received nothing is what makes the insertion of  *)
(* its lines harmless.                                                     *)
EXTENDS Purchasing, TLAPS

Delivering(v) == v.at \in {"line", "post", "marking", "markReceived"}
PendingIn(v, i) == IF v.at = "post" /\ Head(v.items).line = i
                   THEN Head(v.items).quantity ELSE 0

(* SessionsOK and ViewsBacked for the state v of one session, and that a
   transition about to be written leaves an order that exists in existence. *)
Holds(v, ord, ls, book) ==
    /\ v.at = "writeRequest" => v.request \in Requests /\ v.to \in RequestStatuses
    /\ v.at = "writeOrder" => /\ v.order \in Orders /\ ord[v.order] # "ABSENT"
                              /\ v.to \in OrderStatuses \ {"ABSENT"}
    /\ v.at \in {"ordering", "markOrdered"} =>
          v.todo # {} /\ v.todo \subseteq LinkedLines(v.layout)
    /\ v.at \in {"ordering", "markOrdered", "commitOrder"} => v.order \in Orders
    /\ Delivering(v) => /\ v.order \in Orders
                        /\ ord[v.order] # "ABSENT" /\ v.from # "ABSENT"
                        /\ v.dirty \subseteq v.loaded
                        /\ \A i \in v.loaded \cap PartLines(ls[v.order]) :
                              v.view[i] <= book[v.order][i] + PendingIn(v, i)
    /\ v.at = "post" => v.items # <<>>
    /\ v.at \in {"marking", "markReceived"} =>
          /\ v.to \in OrderStatuses \ {"ABSENT"}
          /\ v.todo \subseteq LinkedLines(ls[v.order])
    /\ v.at = "markReceived" => v.todo # {}

SessionsHold == \A s \in Sessions : Holds(session[s], order, lines, posted)

(* An order that does not exist has received nothing. *)
NothingBeforeOrder ==
    \A p \in Orders : order[p] = "ABSENT" => \A i \in LineNumbers : received[p][i] = 0

PurchasingIndInv == TypeOK /\ SessionsHold /\ LinesBackedByStock /\ NothingBeforeOrder

(* Orders stay, with their lines, and the ledger only grows. *)
Grows(ord, ls, book, ord2, ls2, book2) ==
    \A p \in Orders :
       /\ ord[p] # "ABSENT" => ord2[p] # "ABSENT" /\ ls2[p] = ls[p]
       /\ \A i \in LineNumbers : book[p][i] <= book2[p][i]

GrowsNext == Grows(order, lines, posted, order', lines', posted')
-----------------------------------------------------------------------------
LEMMA IndInvImplies == PurchasingIndInv => PurchasingInv
  <1> SUFFICES ASSUME PurchasingIndInv PROVE SessionsOK /\ ViewsBacked
    BY DEF PurchasingIndInv, PurchasingInv
  <1>1. SessionsOK
    BY DEF PurchasingIndInv, SessionsHold, Holds, SessionsOK, At, Receiving, Delivering
  <1>2. ViewsBacked
    BY DEF PurchasingIndInv, SessionsHold, Holds, ViewsBacked, At, Receiving, Delivering,
           PendingOf, PendingIn
  <1>3. QED BY <1>1, <1>2

(* What a session holds survives what the others do. *)
LEMMA HoldsKept ==
    ASSUME NEW v \in Session, NEW ord, NEW ls, NEW book, NEW ord2, NEW ls2, NEW book2,
           book \in [Orders -> [LineNumbers -> Nat]], book2 \in [Orders -> [LineNumbers -> Nat]],
           Holds(v, ord, ls, book), Grows(ord, ls, book, ord2, ls2, book2)
    PROVE  Holds(v, ord2, ls2, book2)
  <1>1. ASSUME Delivering(v)
        PROVE  /\ v.order \in Orders /\ ord2[v.order] # "ABSENT" /\ ls2[v.order] = ls[v.order]
               /\ v.dirty \subseteq v.loaded /\ v.from # "ABSENT"
               /\ \A i \in v.loaded \cap PartLines(ls2[v.order]) :
                     v.view[i] <= book2[v.order][i] + PendingIn(v, i)
    <2>1. /\ v.order \in Orders /\ ord[v.order] # "ABSENT"
          /\ v.dirty \subseteq v.loaded /\ v.from # "ABSENT"
      BY <1>1 DEF Holds
    <2>2. ord2[v.order] # "ABSENT" /\ ls2[v.order] = ls[v.order]
      BY <2>1 DEF Grows
    <2>3. ASSUME NEW i \in v.loaded \cap PartLines(ls2[v.order])
          PROVE  v.view[i] <= book2[v.order][i] + PendingIn(v, i)
      <3>1. v.view[i] <= book[v.order][i] + PendingIn(v, i)
        BY <1>1, <2>2, <2>3 DEF Holds
      <3>2. i \in LineNumbers BY DEF Session
      <3>3. v.view[i] \in Nat /\ book[v.order][i] \in Nat /\ book2[v.order][i] \in Nat
        BY <2>1, <3>2 DEF Session
      <3>4. book[v.order][i] <= book2[v.order][i]
        BY <2>1, <3>2 DEF Grows
      <3>5. PendingIn(v, i) \in Int
        <4>1. CASE v.at = "post"
          <5>1. v.items # <<>> /\ v.items \in Seq(Item) BY <4>1 DEF Holds, Session
          <5>2. Head(v.items) \in Item BY <5>1
          <5>3. QED BY <5>2 DEF PendingIn, Item
        <4>2. CASE v.at # "post" BY <4>2 DEF PendingIn
        <4>3. QED BY <4>1, <4>2
      <3>6. QED BY <3>1, <3>3, <3>4, <3>5
    <2>4. QED BY <2>1, <2>2, <2>3
  <1>2. v.at = "writeOrder" => v.order \in Orders /\ ord2[v.order] # "ABSENT"
    BY DEF Holds, Grows
  <1>3. v.at \in {"marking", "markReceived"} => v.todo \subseteq LinkedLines(ls2[v.order])
    BY <1>1 DEF Holds, Delivering
  <1>4. QED BY <1>1, <1>2, <1>3 DEF Holds
-----------------------------------------------------------------------------
LEMMA IdleTyped == Idle \in Session /\ [Idle EXCEPT !.at = "done"] \in Session
  <1>1. [i \in LineNumbers |-> [request |-> NoRequest, quantity |-> 0]] \in [LineNumbers -> Line]
    BY DEF Line
  <1>2. [i \in LineNumbers |-> 0] \in [LineNumbers -> Nat]
    OBVIOUS
  <1>3. <<>> \in Seq(Item)
    OBVIOUS
  <1>4. Idle \in Session
    BY <1>1, <1>2, <1>3 DEF Idle, Session, Phases, RequestStatuses, OrderStatuses
  <1>5. QED BY <1>4 DEF Session, Phases

(* A session that is not at work holds nothing. *)
LEMMA QuietHolds ==
    ASSUME NEW v, v.at \in {"idle", "done"}, NEW ord, NEW ls, NEW book
    PROVE  Holds(v, ord, ls, book)
  BY DEF Holds, Delivering

(* One session moves, orders and ledger grow. *)
LEMMA SessionMoves ==
    ASSUME PurchasingIndInv, NEW s \in Sessions, NEW v \in Session, Goto(s, v),
           GrowsNext, posted' \in [Orders -> [LineNumbers -> Nat]],
           Holds(v, order', lines', posted')
    PROVE  session' \in [Sessions -> Session] /\ SessionsHold'
  <1>1. session \in [Sessions -> Session] /\ posted \in [Orders -> [LineNumbers -> Nat]]
    BY DEF PurchasingIndInv, TypeOK
  <1>2. session' = [session EXCEPT ![s] = v]
    BY DEF Goto
  <1>3. ASSUME NEW x \in Sessions PROVE Holds(session'[x], order', lines', posted')
    <2>1. CASE x = s BY <1>1, <1>2, <2>1
    <2>2. CASE x # s
      <3>1. session'[x] = session[x] /\ session[x] \in Session BY <1>1, <1>2, <2>2
      <3>2. Holds(session[x], order, lines, posted) BY DEF PurchasingIndInv, SessionsHold
      <3>3. Holds(session[x], order', lines', posted')
        BY <1>1, <3>1, <3>2, HoldsKept DEF GrowsNext
      <3>4. QED BY <3>1, <3>3
    <2>3. QED BY <2>1, <2>2
  <1>4. QED BY <1>1, <1>2, <1>3 DEF SessionsHold

LEMMA GrowsReflexive ==
    ASSUME PurchasingIndInv, UNCHANGED <<order, lines, posted>> PROVE GrowsNext
  <1>1. \A p \in Orders : \A i \in LineNumbers : posted[p][i] \in Nat
    BY DEF PurchasingIndInv, TypeOK
  <1>2. QED BY <1>1 DEF GrowsNext, Grows

(* One session moves, the tables stay. *)
LEMMA OnlySession ==
    ASSUME PurchasingIndInv, NEW s \in Sessions, NEW v \in Session, Goto(s, v),
           UNCHANGED <<request, order, lines, received, posted>>,
           Holds(v, order, lines, posted)
    PROVE  PurchasingIndInv'
  <1>1. GrowsNext /\ posted' \in [Orders -> [LineNumbers -> Nat]]
    BY GrowsReflexive DEF PurchasingIndInv, TypeOK
  <1>2. Holds(v, order', lines', posted')
    OBVIOUS
  <1>3. session' \in [Sessions -> Session] /\ SessionsHold'
    BY <1>1, <1>2, SessionMoves
  <1>4. TypeOK' /\ LinesBackedByStock' /\ NothingBeforeOrder'
    BY <1>3 DEF PurchasingIndInv, TypeOK, LinesBackedByStock, NothingBeforeOrder
  <1>5. QED BY <1>3, <1>4 DEF PurchasingIndInv

(* The request ends, well or not, and commits nothing. *)
LEMMA OnlyEnds ==
    ASSUME PurchasingIndInv, NEW s \in Sessions, End(s),
           UNCHANGED <<request, order, lines, received, posted>>
    PROVE  PurchasingIndInv'
  <1> DEFINE v == [Idle EXCEPT !.at = "done"]
  <1>1. v \in Session /\ v.at = "done" BY IdleTyped DEF Session
  <1>2. Goto(s, v) BY DEF End
  <1> HIDE DEF v
  <1>3. Holds(v, order, lines, posted) BY <1>1, QuietHolds
  <1>4. QED BY <1>1, <1>2, <1>3, OnlySession

(* The request ends with a commit. *)
LEMMA EndsAndGrows ==
    ASSUME PurchasingIndInv, NEW s \in Sessions, End(s), GrowsNext,
           posted' \in [Orders -> [LineNumbers -> Nat]]
    PROVE  session' \in [Sessions -> Session] /\ SessionsHold'
  <1> DEFINE v == [Idle EXCEPT !.at = "done"]
  <1>1. v \in Session /\ v.at = "done" BY IdleTyped DEF Session
  <1>2. Goto(s, v) BY DEF End
  <1> HIDE DEF v
  <1>3. Holds(v, order', lines', posted') BY <1>1, QuietHolds
  <1>4. QED BY <1>1, <1>2, <1>3, SessionMoves
-----------------------------------------------------------------------------
(* Steps that commit nothing. *)

LEMMA ReadRequestStep ==
    ASSUME PurchasingIndInv, NEW s \in Sessions, NEW r \in Requests,
           NEW target \in RequestStatuses, ReadRequest(s, r, target)
    PROVE  PurchasingIndInv'
  <1> DEFINE v == [Idle EXCEPT !.at = "writeRequest", !.request = r, !.to = target]
  <1>1. v \in Session /\ v.at = "writeRequest" /\ v.request = r /\ v.to = target
    BY IdleTyped DEF Session, Phases
  <1>2. Goto(s, v) /\ UNCHANGED <<request, order, lines, received, posted>>
    BY DEF ReadRequest
  <1> HIDE DEF v
  <1>3. Holds(v, order, lines, posted) BY <1>1 DEF Holds, Delivering
  <1>4. QED BY <1>1, <1>2, <1>3, OnlySession

LEMMA TransitionsOfExisting ==
    ASSUME NEW current, NEW target, Allows(OrderTransitions, current, target)
    PROVE  current # "ABSENT" /\ target \in OrderStatuses \ {"ABSENT"}
  BY DEF Allows, OrderTransitions, OrderStatuses

LEMMA ReadOrderStep ==
    ASSUME PurchasingIndInv, NEW s \in Sessions, NEW p \in Orders,
           NEW target \in OrderStatuses, ReadOrder(s, p, target)
    PROVE  PurchasingIndInv'
  <1> DEFINE v == [Idle EXCEPT !.at = "writeOrder", !.order = p, !.to = target]
  <1>1. v \in Session /\ v.at = "writeOrder" /\ v.order = p /\ v.to = target
    BY IdleTyped DEF Session, Phases
  <1>2. Goto(s, v) /\ UNCHANGED <<request, order, lines, received, posted>>
    BY DEF ReadOrder
  <1>3. order[p] # "ABSENT" /\ target # "ABSENT"
    BY TransitionsOfExisting DEF ReadOrder
  <1> HIDE DEF v
  <1>4. Holds(v, order, lines, posted) BY <1>1, <1>3 DEF Holds, Delivering
  <1>5. QED BY <1>1, <1>2, <1>4, OnlySession

LEMMA StartOrderStep ==
    ASSUME PurchasingIndInv, NEW s \in Sessions, NEW p \in Orders,
           NEW layout \in Layouts, StartOrder(s, p, layout)
    PROVE  PurchasingIndInv'
  <1> DEFINE phase == IF LinkedLines(layout) = {} THEN "commitOrder" ELSE "markOrdered"
             todo  == LinkedLines(layout)
             v     == [Idle EXCEPT !.at = phase, !.order = p, !.layout = layout, !.todo = todo]
  <1>1. layout \in [LineNumbers -> Line]
    BY PurchasingAssumption
  <1>2. todo \in SUBSET LineNumbers
    BY DEF LinkedLines
  <1>3. phase \in Phases /\ phase \in {"commitOrder", "markOrdered"}
        /\ (phase = "markOrdered" => todo # {})
    BY DEF Phases
  <1>4. Goto(s, v) /\ UNCHANGED <<request, order, lines, received, posted>>
    BY DEF StartOrder
  <1>5. todo = LinkedLines(layout)
    OBVIOUS
  <1> HIDE DEF phase, todo
  <1>6. v \in Session
    BY <1>1, <1>2, <1>3, IdleTyped DEF Session
  <1>7. v.at = phase /\ v.order = p /\ v.layout = layout /\ v.todo = todo
    BY IdleTyped DEF Session
  <1> HIDE DEF v
  <1>8. Holds(v, order, lines, posted) BY <1>3, <1>5, <1>7 DEF Holds, Delivering
  <1>9. QED BY <1>4, <1>6, <1>8, OnlySession

LEMMA ReadToOrderStep ==
    ASSUME PurchasingIndInv, NEW s \in Sessions, ReadToOrder(s)
    PROVE  PurchasingIndInv'
  <1>1. UNCHANGED <<request, order, lines, received, posted>> /\ session[s].at = "ordering"
    BY DEF ReadToOrder, At
  <1>2. CASE End(s) BY <1>1, <1>2, OnlyEnds
  <1>3. CASE Goto(s, [session[s] EXCEPT !.at = "markOrdered"])
    <2> DEFINE v == [session[s] EXCEPT !.at = "markOrdered"]
    <2>1. session[s] \in Session /\ Holds(session[s], order, lines, posted)
      BY DEF PurchasingIndInv, TypeOK, SessionsHold
    <2>2. /\ v \in Session /\ v.at = "markOrdered" /\ v.todo = session[s].todo
          /\ v.layout = session[s].layout /\ v.order = session[s].order
      BY <2>1 DEF Session, Phases
    <2>3. Goto(s, v) BY <1>3
    <2> HIDE DEF v
    <2>4. Holds(v, order, lines, posted) BY <1>1, <2>1, <2>2 DEF Holds, Delivering
    <2>5. QED BY <1>1, <2>2, <2>3, <2>4, OnlySession
  <1>4. QED BY <1>2, <1>3 DEF ReadToOrder

LEMMA StartReceiptStep ==
    ASSUME PurchasingIndInv, NEW s \in Sessions, NEW p \in Orders,
           NEW receipt \in Receipts, StartReceipt(s, p, receipt)
    PROVE  PurchasingIndInv'
  <1> DEFINE v == [Idle EXCEPT !.at = "line", !.order = p, !.from = order[p],
                               !.items = receipt, !.view = received[p], !.loaded = LineNumbers]
  <1>1. /\ order[p] \in OrderStatuses /\ received[p] \in [LineNumbers -> Nat]
        /\ posted[p] \in [LineNumbers -> Nat] /\ receipt \in Seq(Item)
    BY PurchasingAssumption DEF PurchasingIndInv, TypeOK
  <1>2. Idle.dirty = {} BY DEF Idle
  <1>3. /\ v \in Session /\ v.at = "line" /\ v.order = p /\ v.view = received[p]
        /\ v.loaded = LineNumbers /\ v.dirty = {} /\ v.from = order[p]
    BY <1>1, <1>2, IdleTyped DEF Session, Phases
  <1>4. Goto(s, v) /\ UNCHANGED <<request, order, lines, received, posted>>
    BY DEF StartReceipt
  <1>5. order[p] # "ABSENT"
    BY DEF StartReceipt, Receivable
  <1> HIDE DEF v
  <1>6. \A i \in PartLines(lines[p]) : i \in LineNumbers /\ received[p][i] <= posted[p][i]
    BY DEF PurchasingIndInv, LinesBackedByStock, PartLines
  <1>7. \A i \in v.loaded \cap PartLines(lines[v.order]) :
           v.view[i] <= posted[v.order][i] + PendingIn(v, i)
    BY <1>1, <1>3, <1>6 DEF PendingIn
  <1>8. Holds(v, order, lines, posted) BY <1>3, <1>5, <1>7 DEF Holds, Delivering
  <1>9. QED BY <1>3, <1>4, <1>8, OnlySession

(* What a delivering session sees of a part's line is covered. *)
LEMMA SeenCovered ==
    ASSUME PurchasingIndInv, NEW s \in Sessions, At(s, "line") \/ At(s, "post")
    PROVE  /\ session[s] \in Session /\ Holds(session[s], order, lines, posted)
           /\ session[s].order \in Orders /\ session[s].dirty \subseteq session[s].loaded
           /\ posted[session[s].order] \in [LineNumbers -> Nat]
           /\ received[session[s].order] \in [LineNumbers -> Nat]
           /\ \A i \in LineNumbers : Seen(s, i) \in Nat
           /\ At(s, "line") => \A i \in PartLines(lines[session[s].order]) :
                                  Seen(s, i) <= posted[session[s].order][i]
  <1>1. session[s] \in Session /\ Holds(session[s], order, lines, posted)
    BY DEF PurchasingIndInv, TypeOK, SessionsHold
  <1>2. session[s].order \in Orders /\ session[s].dirty \subseteq session[s].loaded
    BY <1>1 DEF Holds, Delivering, At
  <1>3. /\ posted[session[s].order] \in [LineNumbers -> Nat]
        /\ received[session[s].order] \in [LineNumbers -> Nat]
    BY <1>2 DEF PurchasingIndInv, TypeOK
  <1>4. \A i \in LineNumbers : Seen(s, i) \in Nat
    BY <1>1, <1>3 DEF Seen, Session
  <1>5. ASSUME At(s, "line"), NEW i \in PartLines(lines[session[s].order])
        PROVE  Seen(s, i) <= posted[session[s].order][i]
    <2>1. i \in LineNumbers BY DEF PartLines
    <2>2. CASE i \in session[s].loaded
      <3>1. session[s].view[i] <= posted[session[s].order][i] + PendingIn(session[s], i)
        BY <1>1, <1>5, <2>2 DEF Holds, Delivering, At
      <3>2. PendingIn(session[s], i) = 0 BY <1>5 DEF PendingIn, At
      <3>3. session[s].view[i] \in Nat /\ posted[session[s].order][i] \in Nat
        BY <1>1, <1>3, <2>1 DEF Session
      <3>4. QED BY <2>2, <3>1, <3>2, <3>3 DEF Seen
    <2>3. CASE i \notin session[s].loaded
      BY <1>2, <2>3 DEF Seen, PurchasingIndInv, LinesBackedByStock
    <2>4. QED BY <2>2, <2>3
  <1>6. QED BY <1>1, <1>2, <1>3, <1>4, <1>5

LEMMA ReceiveLineStep ==
    ASSUME PurchasingIndInv, NEW s \in Sessions, ReceiveLine(s)
    PROVE  PurchasingIndInv'
  <1> DEFINE item == Head(session[s].items)
             i    == item.line
             part == i \in PartLines(lines[session[s].order])
             v    == [session[s] EXCEPT
                        !.at = IF part THEN "post" ELSE "line",
                        !.items = IF part THEN session[s].items ELSE Tail(session[s].items),
                        !.view = [session[s].view EXCEPT ![i] = Seen(s, i) + item.quantity],
                        !.loaded = session[s].loaded \cup {i},
                        !.dirty = session[s].dirty \cup {i}]
  <1>1. At(s, "line") /\ session[s].items # <<>>
        /\ UNCHANGED <<request, order, lines, received, posted>>
    BY DEF ReceiveLine
  <1>2. CASE End(s) BY <1>1, <1>2, OnlyEnds
  <1>3. CASE Goto(s, v)
    <2>1. /\ session[s] \in Session /\ Holds(session[s], order, lines, posted)
          /\ session[s].order \in Orders /\ session[s].dirty \subseteq session[s].loaded
          /\ posted[session[s].order] \in [LineNumbers -> Nat]
          /\ \A j \in LineNumbers : Seen(s, j) \in Nat
          /\ \A j \in PartLines(lines[session[s].order]) :
                Seen(s, j) <= posted[session[s].order][j]
      BY <1>1, SeenCovered
    <2>2. /\ session[s].items \in Seq(Item) /\ item \in Item /\ Tail(session[s].items) \in Seq(Item)
      BY <1>1, <2>1 DEF Session
    <2>3. i \in LineNumbers /\ item.quantity \in Nat BY <2>2 DEF Item
    <2> HIDE DEF item, i, part
    <2>4. Seen(s, i) + item.quantity \in Nat BY <2>1, <2>3
    <2>5. /\ v \in Session
          /\ v.at = IF part THEN "post" ELSE "line"
          /\ v.items = IF part THEN session[s].items ELSE Tail(session[s].items)
          /\ v.view = [session[s].view EXCEPT ![i] = Seen(s, i) + item.quantity]
          /\ v.loaded = session[s].loaded \cup {i}
          /\ v.dirty = session[s].dirty \cup {i}
          /\ v.order = session[s].order /\ v.from = session[s].from
      BY <2>1, <2>2, <2>3, <2>4 DEF Session, Phases
    <2> HIDE DEF v
    <2>6. ASSUME NEW j \in v.loaded \cap PartLines(lines[v.order])
          PROVE  v.view[j] <= posted[v.order][j] + PendingIn(v, j)
      <3>1. j \in LineNumbers /\ posted[v.order][j] \in Nat
        BY <2>1, <2>5 DEF PartLines
      <3>2. CASE j = i
        <4>1. part /\ v.at = "post" /\ v.items = session[s].items
          BY <2>5, <3>2 DEF part
        <4>2. PendingIn(v, j) = item.quantity BY <3>2, <4>1 DEF PendingIn, item, i
        <4>3. v.view[j] = Seen(s, i) + item.quantity
          BY <2>1, <2>3, <2>5, <3>2 DEF Session
        <4>4. Seen(s, i) <= posted[v.order][j] BY <2>1, <2>5, <3>2
        <4>5. QED BY <2>1, <2>3, <3>1, <4>2, <4>3, <4>4
      <3>3. CASE j # i
        <4>1. v.view[j] = session[s].view[j] /\ j \in session[s].loaded
          BY <2>1, <2>5, <3>1, <3>3 DEF Session
        <4>2. v.view[j] = Seen(s, j) BY <4>1 DEF Seen
        <4>3. Seen(s, j) <= posted[v.order][j] BY <2>1, <2>5
        <4>4. PendingIn(v, j) = 0
          BY <2>5, <3>3 DEF PendingIn, item, i
        <4>5. QED BY <2>1, <3>1, <4>2, <4>3, <4>4
      <3>4. QED BY <3>2, <3>3
    <2>7. Holds(v, order, lines, posted)
      BY <1>1, <2>1, <2>5, <2>6 DEF Holds, Delivering, At
    <2>8. QED BY <1>1, <1>3, <2>5, <2>7, OnlySession
  <1>4. QED BY <1>2, <1>3 DEF ReceiveLine

LEMMA ReceivedStatusExists ==
    ASSUME NEW ls, NEW seen, NEW from \in OrderStatuses \ {"ABSENT"}
    PROVE  ReceivedStatus(ls, seen, from) \in OrderStatuses \ {"ABSENT"}
  BY DEF ReceivedStatus, OrderStatuses

LEMMA DecideStatusStep ==
    ASSUME PurchasingIndInv, NEW s \in Sessions, DecideStatus(s)
    PROVE  PurchasingIndInv'
  <1> DEFINE p    == session[s].order
             seen == [i \in LineNumbers |-> Seen(s, i)]
             from == IF session[s].from = "EXPIRED" THEN order[p] ELSE session[s].from
             to   == ReceivedStatus(lines[p], seen, from)
             todo == IF to = "RECEIVED" THEN LinkedLines(lines[p]) ELSE {}
             v    == [session[s] EXCEPT
                        !.at = "marking", !.from = from, !.to = to, !.view = seen,
                        !.loaded = LineNumbers, !.todo = todo]
  <1>1. /\ At(s, "line") /\ Goto(s, v)
        /\ UNCHANGED <<request, order, lines, received, posted>>
    BY DEF DecideStatus
  <1>2. /\ session[s] \in Session /\ Holds(session[s], order, lines, posted) /\ p \in Orders
        /\ posted[p] \in [LineNumbers -> Nat] /\ seen \in [LineNumbers -> Nat]
        /\ \A i \in PartLines(lines[p]) : Seen(s, i) <= posted[p][i]
    BY <1>1, SeenCovered
  <1>3. order[p] \in OrderStatuses \ {"ABSENT"} /\ session[s].from # "ABSENT"
    BY <1>1, <1>2 DEF Holds, Delivering, At, PurchasingIndInv, TypeOK
  <1>4. from \in OrderStatuses \ {"ABSENT"}
    BY <1>2, <1>3 DEF Session
  <1>5. to \in OrderStatuses \ {"ABSENT"}
    BY <1>4, ReceivedStatusExists
  <1>6. todo \in SUBSET LineNumbers /\ todo \subseteq LinkedLines(lines[p])
    BY DEF LinkedLines
  <1>7. \A i \in LineNumbers : seen[i] = Seen(s, i)
    OBVIOUS
  <1>8. session[s].dirty \subseteq LineNumbers BY <1>2 DEF Session
  <1> HIDE DEF p, seen, from, to, todo
  <1>9. /\ v \in Session /\ v.at = "marking" /\ v.to = to /\ v.view = seen
        /\ v.loaded = LineNumbers /\ v.todo = todo /\ v.order = p
        /\ v.dirty = session[s].dirty /\ v.from = from
    BY <1>2, <1>4, <1>5, <1>6 DEF Session, Phases, p
  <1> HIDE DEF v
  <1>10. \A i \in v.loaded \cap PartLines(lines[v.order]) :
            v.view[i] <= posted[v.order][i] + PendingIn(v, i)
    <2> SUFFICES ASSUME NEW i \in LineNumbers, i \in PartLines(lines[p])
                 PROVE  v.view[i] <= posted[p][i] + PendingIn(v, i)
      BY <1>9
    <2>1. PendingIn(v, i) = 0 BY <1>9 DEF PendingIn
    <2>2. QED BY <1>2, <1>7, <1>9, <2>1
  <1>11. Holds(v, order, lines, posted)
    BY <1>2, <1>3, <1>4, <1>5, <1>6, <1>8, <1>9, <1>10 DEF Holds, Delivering
  <1>12. QED BY <1>1, <1>9, <1>11, OnlySession

LEMMA ReadToMarkStep ==
    ASSUME PurchasingIndInv, NEW s \in Sessions, ReadToMark(s)
    PROVE  PurchasingIndInv'
  <1>1. /\ session[s].at = "marking" /\ session[s].todo # {}
        /\ UNCHANGED <<request, order, lines, received, posted>>
    BY DEF ReadToMark, At
  <1>2. session[s] \in Session /\ Holds(session[s], order, lines, posted)
    BY DEF PurchasingIndInv, TypeOK, SessionsHold
  <1>3. \A i \in LineNumbers : PendingIn(session[s], i) = 0
    BY <1>1 DEF PendingIn
  <1>4. CASE Goto(s, [session[s] EXCEPT !.at = "markReceived"])
    <2> DEFINE v == [session[s] EXCEPT !.at = "markReceived"]
    <2>1. /\ v \in Session /\ v.at = "markReceived" /\ v.todo = session[s].todo /\ v.to = session[s].to
          /\ v.order = session[s].order /\ v.from = session[s].from /\ v.view = session[s].view
          /\ v.loaded = session[s].loaded /\ v.dirty = session[s].dirty
      BY <1>2 DEF Session, Phases
    <2>2. Goto(s, v) BY <1>4
    <2> HIDE DEF v
    <2>3. \A i : PendingIn(v, i) = 0 /\ PendingIn(session[s], i) = 0 BY <1>1, <2>1 DEF PendingIn
    <2>4. Holds(v, order, lines, posted) BY <1>1, <1>2, <2>1, <2>3 DEF Holds, Delivering
    <2>5. QED BY <1>1, <2>1, <2>2, <2>4, OnlySession
  <1>5. CASE Goto(s, [session[s] EXCEPT !.todo = @ \ {First(@)}])
    <2> DEFINE v == [session[s] EXCEPT !.todo = @ \ {First(@)}]
    <2>1. /\ v \in Session /\ v.at = "marking" /\ v.todo \subseteq session[s].todo /\ v.to = session[s].to
          /\ v.order = session[s].order /\ v.from = session[s].from /\ v.view = session[s].view
          /\ v.loaded = session[s].loaded /\ v.dirty = session[s].dirty
      BY <1>1, <1>2 DEF Session
    <2>2. Goto(s, v) BY <1>5
    <2> HIDE DEF v
    <2>3. \A i : PendingIn(v, i) = 0 /\ PendingIn(session[s], i) = 0 BY <1>1, <2>1 DEF PendingIn
    <2>4. Holds(v, order, lines, posted) BY <1>1, <1>2, <2>1, <2>3 DEF Holds, Delivering
    <2>5. QED BY <1>1, <2>1, <2>2, <2>4, OnlySession
  <1>6. QED BY <1>4, <1>5 DEF ReadToMark
-----------------------------------------------------------------------------
(* Steps that commit. *)

LEMMA CreateRequestStep ==
    ASSUME PurchasingIndInv, NEW r \in Requests, CreateRequest(r)
    PROVE  PurchasingIndInv'
  <1>1. /\ request' = [request EXCEPT ![r] = "SUBMITTED"]
        /\ UNCHANGED <<order, lines, received, posted, session>>
    BY DEF CreateRequest
  <1>2. request' \in [Requests -> RequestStatuses]
    BY <1>1 DEF PurchasingIndInv, TypeOK, RequestStatuses
  <1>3. QED
    BY <1>1, <1>2 DEF PurchasingIndInv, TypeOK, SessionsHold, LinesBackedByStock, NothingBeforeOrder

LEMMA WriteRequestStep ==
    ASSUME PurchasingIndInv, NEW s \in Sessions, WriteRequest(s)
    PROVE  PurchasingIndInv'
  <1>1. /\ At(s, "writeRequest") /\ End(s)
        /\ request' = [request EXCEPT ![session[s].request] = session[s].to]
        /\ UNCHANGED <<order, lines, received, posted>>
    BY DEF WriteRequest
  <1>2. session[s].to \in RequestStatuses
    BY <1>1 DEF PurchasingIndInv, SessionsHold, Holds, At
  <1>3. request' \in [Requests -> RequestStatuses]
    BY <1>1, <1>2 DEF PurchasingIndInv, TypeOK
  <1>4. GrowsNext /\ posted' \in [Orders -> [LineNumbers -> Nat]]
    BY <1>1, GrowsReflexive DEF PurchasingIndInv, TypeOK
  <1>5. session' \in [Sessions -> Session] /\ SessionsHold'
    BY <1>1, <1>4, EndsAndGrows
  <1>6. QED
    BY <1>1, <1>3, <1>5 DEF PurchasingIndInv, TypeOK, LinesBackedByStock, NothingBeforeOrder

LEMMA WriteOrderStep ==
    ASSUME PurchasingIndInv, NEW s \in Sessions, WriteOrder(s)
    PROVE  PurchasingIndInv'
  <1>1. /\ At(s, "writeOrder") /\ End(s)
        /\ order' = [order EXCEPT ![session[s].order] = session[s].to]
        /\ UNCHANGED <<request, lines, received, posted>>
    BY DEF WriteOrder
  <1>2. /\ session[s].to \in OrderStatuses \ {"ABSENT"}
        /\ order[session[s].order] # "ABSENT"
    BY <1>1 DEF PurchasingIndInv, SessionsHold, Holds, At
  <1>3. /\ order' \in [Orders -> OrderStatuses]
        /\ \A p \in Orders : order[p] = "ABSENT" <=> order'[p] = "ABSENT"
    BY <1>1, <1>2 DEF PurchasingIndInv, TypeOK
  <1>4. /\ posted \in [Orders -> [LineNumbers -> Nat]] /\ posted' = posted
        /\ \A p \in Orders : \A i \in LineNumbers : posted[p][i] \in Nat
    BY <1>1 DEF PurchasingIndInv, TypeOK
  <1>5. GrowsNext BY <1>1, <1>3, <1>4 DEF GrowsNext, Grows
  <1>6. session' \in [Sessions -> Session] /\ SessionsHold'
    BY <1>1, <1>4, <1>5, EndsAndGrows
  <1>7. QED
    BY <1>1, <1>3, <1>6 DEF PurchasingIndInv, TypeOK, LinesBackedByStock, NothingBeforeOrder

(* The insertion of an order changes nothing an operation relies on. *)
LEMMA InsertOrderGrows ==
    ASSUME PurchasingIndInv, NEW s \in Sessions, InsertOrder(s), session[s].order \in Orders,
           UNCHANGED <<received, posted>>
    PROVE  /\ order' \in [Orders -> OrderStatuses]
           /\ lines' \in [Orders -> [LineNumbers -> Line]]
           /\ posted' \in [Orders -> [LineNumbers -> Nat]]
           /\ received' \in [Orders -> [LineNumbers -> Nat]]
           /\ GrowsNext /\ LinesBackedByStock' /\ NothingBeforeOrder'
  <1> DEFINE p == session[s].order
  <1>1. /\ session[s].layout \in [LineNumbers -> Line]
        /\ order \in [Orders -> OrderStatuses] /\ lines \in [Orders -> [LineNumbers -> Line]]
        /\ posted \in [Orders -> [LineNumbers -> Nat]]
        /\ received \in [Orders -> [LineNumbers -> Nat]]
    BY DEF PurchasingIndInv, TypeOK, Session
  <1>2. CASE order[p] = "ABSENT"
    <2>1. /\ order' = [order EXCEPT ![p] = "DRAFT"]
          /\ lines' = [lines EXCEPT ![p] = session[s].layout]
      BY <1>2 DEF InsertOrder
    <2>2. /\ order' \in [Orders -> OrderStatuses] /\ lines' \in [Orders -> [LineNumbers -> Line]]
      BY <1>1, <2>1 DEF OrderStatuses
    <2>3. \A q \in Orders : q # p => order'[q] = order[q] /\ lines'[q] = lines[q]
      BY <1>1, <2>1
    <2>4. order'[p] = "DRAFT" BY <1>1, <2>1
    <2>5. \A q \in Orders : order[q] # "ABSENT" => order'[q] # "ABSENT" /\ lines'[q] = lines[q]
      BY <1>2, <2>3
    <2>6. GrowsNext BY <1>1, <2>5 DEF GrowsNext, Grows
    <2>7. ASSUME NEW q \in Orders, NEW i \in PartLines(lines'[q])
          PROVE  received[q][i] <= posted[q][i]
      <3>1. i \in LineNumbers BY DEF PartLines
      <3>2. CASE q = p
        BY <1>1, <1>2, <3>1, <3>2 DEF PurchasingIndInv, NothingBeforeOrder
      <3>3. CASE q # p
        BY <2>3, <2>7, <3>3 DEF PurchasingIndInv, LinesBackedByStock
      <3>4. QED BY <3>2, <3>3
    <2>8. LinesBackedByStock' BY <2>7 DEF LinesBackedByStock
    <2>9. NothingBeforeOrder' BY <2>3, <2>4 DEF PurchasingIndInv, NothingBeforeOrder
    <2>10. QED BY <1>1, <2>2, <2>6, <2>8, <2>9
  <1>3. CASE order[p] # "ABSENT"
    <2>1. UNCHANGED <<order, lines>> BY <1>3 DEF InsertOrder
    <2>2. GrowsNext BY <2>1, GrowsReflexive
    <2>3. QED BY <1>1, <2>1, <2>2 DEF PurchasingIndInv, LinesBackedByStock, NothingBeforeOrder
  <1>4. QED BY <1>2, <1>3

LEMMA CommitOrderStep ==
    ASSUME PurchasingIndInv, NEW s \in Sessions, CommitOrder(s)
    PROVE  PurchasingIndInv'
  <1>1. /\ At(s, "commitOrder") /\ InsertOrder(s) /\ End(s)
        /\ UNCHANGED <<request, received, posted>>
    BY DEF CommitOrder
  <1>2. session[s].order \in Orders
    BY <1>1 DEF PurchasingIndInv, SessionsHold, Holds, At
  <1>3. /\ order' \in [Orders -> OrderStatuses]
        /\ lines' \in [Orders -> [LineNumbers -> Line]]
        /\ posted' \in [Orders -> [LineNumbers -> Nat]]
        /\ received' \in [Orders -> [LineNumbers -> Nat]]
        /\ GrowsNext /\ LinesBackedByStock' /\ NothingBeforeOrder'
    BY <1>1, <1>2, InsertOrderGrows
  <1>4. session' \in [Sessions -> Session] /\ SessionsHold'
    BY <1>1, <1>3, EndsAndGrows
  <1>5. request' \in [Requests -> RequestStatuses]
    BY <1>1 DEF PurchasingIndInv, TypeOK
  <1>6. QED BY <1>3, <1>4, <1>5 DEF PurchasingIndInv, TypeOK

LEMMA MarkOrderedStep ==
    ASSUME PurchasingIndInv, NEW s \in Sessions, MarkOrdered(s)
    PROVE  PurchasingIndInv'
  <1> DEFINE i    == First(session[s].todo)
             rest == session[s].todo \ {i}
             v    == [session[s] EXCEPT !.at = IF rest = {} THEN "commitOrder" ELSE "ordering",
                                        !.todo = rest]
  <1>1. /\ At(s, "markOrdered") /\ InsertOrder(s) /\ Goto(s, v)
        /\ request' = [request EXCEPT ![session[s].layout[i].request] = "ORDERED"]
        /\ UNCHANGED <<received, posted>>
    BY DEF MarkOrdered
  <1>2. /\ session[s] \in Session /\ session[s].order \in Orders
        /\ rest \subseteq LinkedLines(session[s].layout)
    BY <1>1 DEF PurchasingIndInv, TypeOK, SessionsHold, Holds, At
  <1>3. /\ order' \in [Orders -> OrderStatuses]
        /\ lines' \in [Orders -> [LineNumbers -> Line]]
        /\ posted' \in [Orders -> [LineNumbers -> Nat]]
        /\ received' \in [Orders -> [LineNumbers -> Nat]]
        /\ GrowsNext /\ LinesBackedByStock' /\ NothingBeforeOrder'
    BY <1>1, <1>2, InsertOrderGrows
  <1>4. request' \in [Requests -> RequestStatuses]
    BY <1>1 DEF PurchasingIndInv, TypeOK, RequestStatuses
  <1>5. rest \in SUBSET LineNumbers BY <1>2 DEF Session
  <1> HIDE DEF i, rest
  <1>6. /\ v \in Session /\ v.at = IF rest = {} THEN "commitOrder" ELSE "ordering"
        /\ v.todo = rest /\ v.order = session[s].order /\ v.layout = session[s].layout
    BY <1>2, <1>5 DEF Session, Phases
  <1> HIDE DEF v
  <1>7. Holds(v, order', lines', posted')
    BY <1>2, <1>6 DEF Holds, Delivering
  <1>8. session' \in [Sessions -> Session] /\ SessionsHold'
    BY <1>1, <1>3, <1>6, <1>7, SessionMoves
  <1>9. QED BY <1>3, <1>4, <1>8 DEF PurchasingIndInv, TypeOK

(* What a receipt writes to the lines is covered by the ledger as it then is. *)
LEMMA WriteLinesBacked ==
    ASSUME PurchasingIndInv, NEW s \in Sessions, Delivering(session[s]), WriteLines(s), GrowsNext,
           lines' = lines, posted' \in [Orders -> [LineNumbers -> Nat]],
           \A i \in LineNumbers :
              posted[session[s].order][i] + PendingIn(session[s], i) <= posted'[session[s].order][i],
           \A i \in LineNumbers : PendingIn(session[s], i) \in Nat,
           \A p \in Orders : order'[p] = "ABSENT" => order[p] = "ABSENT"
    PROVE  /\ received' \in [Orders -> [LineNumbers -> Nat]]
           /\ LinesBackedByStock' /\ NothingBeforeOrder'
  <1> DEFINE p   == session[s].order
             new == [i \in LineNumbers |-> IF i \in session[s].dirty THEN session[s].view[i]
                                           ELSE received[p][i]]
  <1>1. /\ session[s] \in Session /\ Holds(session[s], order, lines, posted) /\ p \in Orders
        /\ session[s].dirty \subseteq session[s].loaded /\ order[p] # "ABSENT"
        /\ received \in [Orders -> [LineNumbers -> Nat]]
        /\ posted \in [Orders -> [LineNumbers -> Nat]]
    BY DEF PurchasingIndInv, TypeOK, SessionsHold, Holds
  <1>2. new \in [LineNumbers -> Nat]
    BY <1>1 DEF Session
  <1>3. received' = [received EXCEPT ![p] = new]
    BY DEF WriteLines
  <1>4. received'[p] = new /\ \A q \in Orders : q # p => received'[q] = received[q]
    BY <1>1, <1>3
  <1>5. received' \in [Orders -> [LineNumbers -> Nat]]
    BY <1>1, <1>2, <1>3
  <1>6. ASSUME NEW q \in Orders, NEW i \in PartLines(lines[q])
        PROVE  received'[q][i] <= posted'[q][i]
    <2>1. i \in LineNumbers BY DEF PartLines
    <2>2. received[q][i] <= posted[q][i] BY DEF PurchasingIndInv, LinesBackedByStock
    <2>3. posted[q][i] <= posted'[q][i] BY <2>1 DEF GrowsNext, Grows
    <2>4. /\ received[q][i] \in Nat /\ posted[q][i] \in Nat /\ posted'[q][i] \in Nat
          /\ posted[p][i] \in Nat /\ posted'[p][i] \in Nat
      BY <1>1, <2>1
    <2>5. CASE q # p BY <1>4, <2>2, <2>3, <2>4, <2>5
    <2>6. CASE q = p /\ i \notin session[s].dirty
      <3>1. received'[q][i] = received[q][i] BY <1>4, <2>1, <2>6
      <3>2. QED BY <2>2, <2>3, <2>4, <3>1
    <2>7. CASE q = p /\ i \in session[s].dirty
      <3>1. received'[q][i] = session[s].view[i] /\ session[s].view[i] \in Nat
        BY <1>1, <1>4, <2>1, <2>7 DEF Session
      <3>2. session[s].view[i] <= posted[p][i] + PendingIn(session[s], i)
        BY <1>1, <2>7 DEF Holds
      <3>3. posted[p][i] + PendingIn(session[s], i) <= posted'[p][i]
        BY <2>1
      <3>4. PendingIn(session[s], i) \in Nat BY <2>1
      <3> HIDE DEF p
      <3>5. QED BY <2>4, <2>7, <3>1, <3>2, <3>3, <3>4
    <2>8. QED BY <2>5, <2>6, <2>7
  <1>7. LinesBackedByStock' BY <1>6 DEF LinesBackedByStock
  <1>8. NothingBeforeOrder'
    BY <1>1, <1>4 DEF PurchasingIndInv, NothingBeforeOrder
  <1>9. QED BY <1>5, <1>7, <1>8

LEMMA PostReceiptStep ==
    ASSUME PurchasingIndInv, NEW s \in Sessions, PostReceipt(s)
    PROVE  PurchasingIndInv'
  <1> DEFINE p    == session[s].order
             item == Head(session[s].items)
             j    == item.line
             v    == [session[s] EXCEPT !.at = "line", !.items = Tail(session[s].items),
                                        !.from = "EXPIRED", !.loaded = {}, !.dirty = {}]
  <1>1. /\ At(s, "post") /\ WriteLines(s) /\ Goto(s, v)
        /\ posted' = [posted EXCEPT ![p] = [posted[p] EXCEPT ![j] = @ + item.quantity]]
        /\ UNCHANGED <<request, order, lines>>
    BY DEF PostReceipt
  <1>2. /\ session[s] \in Session /\ Holds(session[s], order, lines, posted)
        /\ p \in Orders /\ order[p] # "ABSENT" /\ session[s].items # <<>>
        /\ posted \in [Orders -> [LineNumbers -> Nat]]
    BY <1>1 DEF PurchasingIndInv, TypeOK, SessionsHold, Holds, Delivering, At
  <1>3. item \in Item /\ Tail(session[s].items) \in Seq(Item)
    BY <1>2 DEF Session
  <1>4. j \in LineNumbers /\ item.quantity \in Nat BY <1>3 DEF Item
  <1>5. \A i \in LineNumbers : PendingIn(session[s], i) = IF i = j THEN item.quantity ELSE 0
    BY <1>1 DEF PendingIn, At
  <1> HIDE DEF item, j
  <1>6. posted[p] \in [LineNumbers -> Nat] BY <1>2
  <1>7. [posted[p] EXCEPT ![j] = @ + item.quantity] \in [LineNumbers -> Nat]
    BY <1>4, <1>6
  <1>8. /\ posted' \in [Orders -> [LineNumbers -> Nat]]
        /\ posted'[p] = [posted[p] EXCEPT ![j] = @ + item.quantity]
        /\ \A q \in Orders : q # p => posted'[q] = posted[q]
    BY <1>1, <1>2, <1>7
  <1>9. \A i \in LineNumbers :
           /\ posted[p][i] + PendingIn(session[s], i) <= posted'[p][i]
           /\ posted[p][i] <= posted'[p][i]
    BY <1>4, <1>5, <1>6, <1>8
  <1>10. \A q \in Orders : \A i \in LineNumbers : posted[q][i] <= posted'[q][i]
    <2> TAKE q \in Orders
    <2> TAKE i \in LineNumbers
    <2>1. posted[q][i] \in Nat BY <1>2
    <2>2. CASE q = p BY <1>9, <2>2
    <2>3. CASE q # p BY <1>8, <2>1, <2>3
    <2>4. QED BY <2>2, <2>3
  <1>11. GrowsNext BY <1>1, <1>10 DEF GrowsNext, Grows
  <1>12. /\ received' \in [Orders -> [LineNumbers -> Nat]]
         /\ LinesBackedByStock' /\ NothingBeforeOrder'
    <2>1. Delivering(session[s]) BY <1>1 DEF Delivering, At
    <2>2. \A i \in LineNumbers : PendingIn(session[s], i) \in Nat BY <1>4, <1>5
    <2>3. \A q \in Orders : order'[q] = "ABSENT" => order[q] = "ABSENT" BY <1>1
    <2>4. lines' = lines BY <1>1
    <2>5. QED BY <1>1, <1>8, <1>9, <1>11, <2>1, <2>2, <2>3, <2>4, WriteLinesBacked
  <1>13. /\ v \in Session /\ v.at = "line" /\ v.order = p /\ v.from = "EXPIRED"
         /\ v.loaded = {} /\ v.dirty = {}
    BY <1>2, <1>3 DEF Session, Phases
  <1> HIDE DEF v
  <1>14. Holds(v, order', lines', posted')
    BY <1>1, <1>2, <1>13 DEF Holds, Delivering
  <1>15. session' \in [Sessions -> Session] /\ SessionsHold'
    BY <1>1, <1>8, <1>11, <1>13, <1>14, SessionMoves
  <1>16. QED BY <1>1, <1>8, <1>12, <1>15 DEF PurchasingIndInv, TypeOK

(* The commit of a receipt that is being completed. *)
LEMMA WriteReceiptKeeps ==
    ASSUME PurchasingIndInv, NEW s \in Sessions, At(s, "marking") \/ At(s, "markReceived"),
           WriteReceipt(s), UNCHANGED <<lines, posted>>
    PROVE  /\ order' \in [Orders -> OrderStatuses]
           /\ \A p \in Orders : order'[p] = "ABSENT" => order[p] = "ABSENT"
           /\ received' \in [Orders -> [LineNumbers -> Nat]]
           /\ posted' \in [Orders -> [LineNumbers -> Nat]]
           /\ GrowsNext /\ LinesBackedByStock' /\ NothingBeforeOrder'
  <1>1. /\ session[s] \in Session /\ Holds(session[s], order, lines, posted)
        /\ order \in [Orders -> OrderStatuses]
        /\ posted \in [Orders -> [LineNumbers -> Nat]]
    BY DEF PurchasingIndInv, TypeOK, SessionsHold
  <1>2. /\ session[s].order \in Orders /\ order[session[s].order] # "ABSENT"
        /\ session[s].to \in OrderStatuses \ {"ABSENT"}
    BY <1>1 DEF Holds, Delivering, At
  <1>3. /\ order' \in [Orders -> OrderStatuses]
        /\ \A p \in Orders : order'[p] = "ABSENT" <=> order[p] = "ABSENT"
    BY <1>1, <1>2 DEF WriteReceipt
  <1>4. \A q \in Orders : \A i \in LineNumbers : posted[q][i] \in Nat
    BY <1>1
  <1>5. GrowsNext BY <1>3, <1>4 DEF GrowsNext, Grows
  <1>6. \A i : PendingIn(session[s], i) = 0 BY DEF PendingIn, At
  <1>7. \A i \in LineNumbers :
           /\ posted[session[s].order][i] + PendingIn(session[s], i) <= posted'[session[s].order][i]
           /\ PendingIn(session[s], i) \in Nat
    BY <1>2, <1>4, <1>6
  <1>8. Delivering(session[s]) BY DEF Delivering, At
  <1>9. /\ received' \in [Orders -> [LineNumbers -> Nat]]
        /\ LinesBackedByStock' /\ NothingBeforeOrder'
    <2>1. WriteLines(s) /\ lines' = lines /\ posted' \in [Orders -> [LineNumbers -> Nat]]
      BY <1>1 DEF WriteReceipt
    <2>2. QED BY <1>3, <1>5, <1>7, <1>8, <2>1, WriteLinesBacked
  <1>10. QED BY <1>1, <1>3, <1>5, <1>9

LEMMA MarkReceivedStep ==
    ASSUME PurchasingIndInv, NEW s \in Sessions, MarkReceived(s)
    PROVE  PurchasingIndInv'
  <1> DEFINE v == [session[s] EXCEPT !.at = "marking", !.todo = @ \ {First(@)},
                                     !.from = session[s].to, !.dirty = {}]
  <1>1. /\ At(s, "markReceived") /\ WriteReceipt(s) /\ Goto(s, v)
        /\ request' = [request EXCEPT ![NextToMark(s)] = "RECEIVED"]
        /\ UNCHANGED <<lines, posted>>
    BY DEF MarkReceived
  <1>2. /\ order' \in [Orders -> OrderStatuses]
        /\ \A p \in Orders : order'[p] = "ABSENT" => order[p] = "ABSENT"
        /\ received' \in [Orders -> [LineNumbers -> Nat]]
        /\ posted' \in [Orders -> [LineNumbers -> Nat]]
        /\ GrowsNext /\ LinesBackedByStock' /\ NothingBeforeOrder'
    BY <1>1, WriteReceiptKeeps
  <1>3. request' \in [Requests -> RequestStatuses]
    BY <1>1 DEF PurchasingIndInv, TypeOK, RequestStatuses
  <1>4. session[s] \in Session /\ Holds(session[s], order, lines, posted)
    BY DEF PurchasingIndInv, TypeOK, SessionsHold
  <1>5. session[s].to \in OrderStatuses \ {"ABSENT"}
    BY <1>1, <1>4 DEF Holds, At
  <1>6. /\ v \in Session /\ v.at = "marking" /\ v.todo \subseteq session[s].todo
        /\ v.to = session[s].to /\ v.from = session[s].to /\ v.order = session[s].order
        /\ v.view = session[s].view /\ v.loaded = session[s].loaded /\ v.dirty = {}
    BY <1>4, <1>5 DEF Session, Phases
  <1> HIDE DEF v
  <1>7. \A i : PendingIn(v, i) = 0 /\ PendingIn(session[s], i) = 0
    BY <1>1, <1>6 DEF PendingIn, At
  <1>8. Holds(v, order', lines', posted')
    BY <1>1, <1>2, <1>4, <1>5, <1>6, <1>7 DEF Holds, Delivering, At
  <1>9. session' \in [Sessions -> Session] /\ SessionsHold'
    BY <1>1, <1>2, <1>6, <1>8, SessionMoves
  <1>10. lines' \in [Orders -> [LineNumbers -> Line]]
    BY <1>1 DEF PurchasingIndInv, TypeOK
  <1>11. QED BY <1>2, <1>3, <1>9, <1>10 DEF PurchasingIndInv, TypeOK

LEMMA CommitReceiptStep ==
    ASSUME PurchasingIndInv, NEW s \in Sessions, CommitReceipt(s)
    PROVE  PurchasingIndInv'
  <1>1. /\ At(s, "marking") /\ WriteReceipt(s) /\ End(s) /\ UNCHANGED <<request, lines, posted>>
    BY DEF CommitReceipt
  <1>2. /\ order' \in [Orders -> OrderStatuses]
        /\ received' \in [Orders -> [LineNumbers -> Nat]]
        /\ posted' \in [Orders -> [LineNumbers -> Nat]]
        /\ GrowsNext /\ LinesBackedByStock' /\ NothingBeforeOrder'
    BY <1>1, WriteReceiptKeeps
  <1>3. session' \in [Sessions -> Session] /\ SessionsHold'
    BY <1>1, <1>2, EndsAndGrows
  <1>4. /\ request' \in [Requests -> RequestStatuses]
        /\ lines' \in [Orders -> [LineNumbers -> Line]]
    BY <1>1 DEF PurchasingIndInv, TypeOK
  <1>5. QED BY <1>2, <1>3, <1>4 DEF PurchasingIndInv, TypeOK
-----------------------------------------------------------------------------
LEMMA IndInvInit == Init => PurchasingIndInv
  <1> SUFFICES ASSUME Init PROVE PurchasingIndInv
    OBVIOUS
  <1>1. /\ session = [s \in Sessions |-> Idle] /\ posted = received
        /\ received = [p \in Orders |-> Idle.view]
        /\ request \in OpeningRequests
    BY DEF Init
  <1>2. PICK o \in OpeningOrders : /\ order = [p \in Orders |-> o[p].status]
                                   /\ lines = [p \in Orders |-> o[p].lines]
    BY DEF Init
  <1>3. o \in [Orders -> [status : OrderStatuses, lines : [LineNumbers -> Line]]]
    BY PurchasingAssumption
  <1>4. order \in [Orders -> OrderStatuses] /\ lines \in [Orders -> [LineNumbers -> Line]]
    BY <1>2, <1>3
  <1>5. Idle.view = [i \in LineNumbers |-> 0] /\ Idle.at = "idle"
    BY DEF Idle
  <1>6. /\ received \in [Orders -> [LineNumbers -> Nat]]
        /\ \A p \in Orders : \A i \in LineNumbers : received[p][i] = 0
    BY <1>1, <1>5
  <1>7. session \in [Sessions -> Session] /\ \A s \in Sessions : session[s].at = "idle"
    BY <1>1, <1>5, IdleTyped
  <1>8. TypeOK BY <1>1, <1>4, <1>6, <1>7, PurchasingAssumption DEF TypeOK
  <1>9. SessionsHold
    <2>1. ASSUME NEW s \in Sessions PROVE Holds(session[s], order, lines, posted)
      <3>1. session[s].at \in {"idle", "done"} BY <1>7
      <3>2. QED BY <3>1 DEF Holds, Delivering
    <2>2. QED BY <2>1 DEF SessionsHold
  <1>10. LinesBackedByStock /\ NothingBeforeOrder
    BY <1>1, <1>6 DEF LinesBackedByStock, NothingBeforeOrder, PartLines
  <1>11. QED BY <1>8, <1>9, <1>10 DEF PurchasingIndInv

LEMMA IndInvArrive ==
    ASSUME PurchasingIndInv, NEW s \in Sessions, Arrive(s) PROVE PurchasingIndInv'
  BY ReadRequestStep, ReadOrderStep, StartOrderStep, StartReceiptStep DEF Arrive

LEMMA IndInvContinue ==
    ASSUME PurchasingIndInv, NEW s \in Sessions, Continue(s) PROVE PurchasingIndInv'
  <1>1. CASE WriteRequest(s) BY <1>1, WriteRequestStep
  <1>2. CASE WriteOrder(s) BY <1>2, WriteOrderStep
  <1>3. CASE MarkOrdered(s) BY <1>3, MarkOrderedStep
  <1>4. CASE ReadToOrder(s) BY <1>4, ReadToOrderStep
  <1>5. CASE CommitOrder(s) BY <1>5, CommitOrderStep
  <1>6. CASE ReceiveLine(s) BY <1>6, ReceiveLineStep
  <1>7. CASE PostReceipt(s) BY <1>7, PostReceiptStep
  <1>8. CASE RefusePosting(s) BY <1>8, OnlyEnds DEF RefusePosting
  <1>9. CASE DecideStatus(s) BY <1>9, DecideStatusStep
  <1>10. CASE ReadToMark(s) BY <1>10, ReadToMarkStep
  <1>11. CASE MarkReceived(s) BY <1>11, MarkReceivedStep
  <1>12. CASE CommitReceipt(s) BY <1>12, CommitReceiptStep
  <1>13. QED
    BY <1>1, <1>2, <1>3, <1>4, <1>5, <1>6, <1>7, <1>8, <1>9, <1>10, <1>11, <1>12 DEF Continue

LEMMA IndInvCrash ==
    ASSUME PurchasingIndInv, NEW s \in Sessions, Crash(s) PROVE PurchasingIndInv'
  BY OnlyEnds DEF Crash

LEMMA IndInvStutters == PurchasingIndInv /\ UNCHANGED vars => PurchasingIndInv'
  BY DEF vars, PurchasingIndInv, TypeOK, SessionsHold, LinesBackedByStock, NothingBeforeOrder

LEMMA IndInvStep == PurchasingIndInv /\ [Next]_vars => PurchasingIndInv'
  <1> SUFFICES ASSUME PurchasingIndInv, [Next]_vars PROVE PurchasingIndInv'
    OBVIOUS
  <1>1. CASE UNCHANGED vars BY <1>1, IndInvStutters
  <1>2. CASE \E r \in Requests : CreateRequest(r) BY <1>2, CreateRequestStep
  <1>3. CASE \E s \in Sessions : Arrive(s) \/ Continue(s) \/ Crash(s)
    BY <1>3, IndInvArrive, IndInvContinue, IndInvCrash
  <1>4. QED BY <1>1, <1>2, <1>3 DEF Next

(* Requests, orders and sessions keep their types, every receipt under way has
   a right to what it will write, and a line of a part never claims more than
   the stock ledger booked for it, however operations interleave, fail between
   two commits (receiving_service, purchase_order_service) or die.          *)
THEOREM PurchasingInvariant == Spec => []PurchasingInv
  <1>1. Init => PurchasingIndInv BY IndInvInit
  <1>2. PurchasingIndInv /\ [Next]_vars => PurchasingIndInv' BY IndInvStep
  <1>3. PurchasingIndInv => PurchasingInv BY IndInvImplies
  <1>4. QED BY <1>1, <1>2, <1>3, PTL DEF Spec
=============================================================================
