----------------------- MODULE PurchasingSerialProofs -----------------------
(* Proofs of what MCPurchasing claims of operations that do not overlap.   *)
(*                                                                         *)
(* The argument: while one session works the others hold nothing, so what  *)
(* it has loaded is what the tables say (Agrees); a movement and its line  *)
(* are committed together, so ledger and lines agree in every state and    *)
(* not only when the operation is over.                                    *)
EXTENDS MCPurchasing, PurchasingProofs, FiniteSetTheorems, WellFoundedInduction

Quiet(v) == v.at \in {"idle", "done"}
OthersQuiet(s) == \A x \in Sessions : x # s => Quiet(session[x])
OneAtATime == \A s \in Sessions : ~Quiet(session[s]) => OthersQuiet(s)

(* A receipt sees the lines as they are, but for those it has modified; of
   those at most the one whose movement is being posted has a part.        *)
Agrees(v, ord, ls, rec) ==
    Delivering(v) =>
       /\ \A i \in v.loaded \ v.dirty : v.view[i] = rec[v.order][i]
       /\ \A i \in v.dirty : v.view[i] <= ls[v.order][i].quantity
       /\ \A i \in v.dirty \cap PartLines(ls[v.order]) : v.at = "post" /\ Head(v.items).line = i
       /\ v.at = "post" => /\ Head(v.items).line \in v.dirty \cap PartLines(ls[v.order])
                           /\ v.view[Head(v.items).line] =
                                 rec[v.order][Head(v.items).line] + Head(v.items).quantity
       /\ v.from # "EXPIRED" => v.from = ord[v.order]
       /\ ord[v.order] \in Receivable \/ (v.at \in {"marking", "markReceived"} /\ v.dirty = {})

AllAgree == \A s \in Sessions : Agrees(session[s], order, lines, received)

Booked == \A p \in Orders : \A i \in LineNumbers :
             posted[p][i] = IF i \in PartLines(lines[p]) THEN received[p][i] ELSE 0
WithinOrder == \A p \in Orders : \A i \in LineNumbers : received[p][i] <= lines[p][i].quantity

SerialOK == OneAtATime /\ AllAgree /\ Booked /\ WithinOrder

SerialInv == scenario # "concurrent" => SerialOK
-----------------------------------------------------------------------------
LEMMA QuietAgrees ==
    ASSUME NEW v, Quiet(v), NEW ord, NEW ls, NEW rec PROVE Agrees(v, ord, ls, rec)
  BY DEF Quiet, Agrees, Delivering

LEMMA NotDelivering ==
    ASSUME NEW v, ~Delivering(v), NEW ord, NEW ls, NEW rec PROVE Agrees(v, ord, ls, rec)
  BY DEF Agrees

(* Where the others are quiet, only the session that moves matters. *)
LEMMA AloneMoves ==
    ASSUME PurchasingIndInv, NEW s \in Sessions, OthersQuiet(s), NEW v, Goto(s, v),
           Agrees(v, order', lines', received')
    PROVE  OneAtATime' /\ AllAgree'
  <1>1. session \in [Sessions -> Session] BY DEF PurchasingIndInv, TypeOK
  <1>2. session'[s] = v /\ \A x \in Sessions : x # s => session'[x] = session[x]
    BY <1>1 DEF Goto
  <1>3. \A x \in Sessions : x # s => Quiet(session'[x])
    BY <1>2 DEF OthersQuiet
  <1>4. OneAtATime'
    BY <1>3 DEF OneAtATime, OthersQuiet
  <1>5. ASSUME NEW x \in Sessions PROVE Agrees(session'[x], order', lines', received')
    <2>1. CASE x = s BY <1>2, <2>1
    <2>2. CASE x # s
      <3>1. Quiet(session'[x]) BY <1>3, <2>2
      <3>2. QED BY <3>1 DEF Quiet, Agrees, Delivering
    <2>3. QED BY <2>1, <2>2
  <1>6. QED BY <1>4, <1>5 DEF AllAgree

LEMMA AloneEnds ==
    ASSUME PurchasingIndInv, NEW s \in Sessions, OthersQuiet(s), End(s)
    PROVE  OneAtATime' /\ AllAgree'
  <1> DEFINE v == [Idle EXCEPT !.at = "done"]
  <1>1. v.at = "done" BY IdleTyped DEF Session
  <1>2. Goto(s, v) BY DEF End
  <1> HIDE DEF v
  <1>3. Agrees(v, order', lines', received') BY <1>1 DEF Agrees, Delivering
  <1>4. QED BY <1>2, <1>3, AloneMoves

LEMMA TablesStay ==
    ASSUME SerialOK, UNCHANGED <<lines, received, posted>>
    PROVE  Booked' /\ WithinOrder'
  BY DEF SerialOK, Booked, WithinOrder

(* Tables stay, one session moves alone. *)
LEMMA SerialReads ==
    ASSUME PurchasingIndInv, SerialOK, NEW s \in Sessions, OthersQuiet(s), NEW v, Goto(s, v),
           UNCHANGED <<order, lines, received, posted>>, Agrees(v, order, lines, received)
    PROVE  SerialOK'
  <1>1. Agrees(v, order', lines', received') OBVIOUS
  <1>2. OneAtATime' /\ AllAgree' BY <1>1, AloneMoves
  <1>3. Booked' /\ WithinOrder' BY TablesStay
  <1>4. QED BY <1>2, <1>3 DEF SerialOK

LEMMA SerialEnds ==
    ASSUME PurchasingIndInv, SerialOK, NEW s \in Sessions, OthersQuiet(s), End(s),
           UNCHANGED <<lines, received, posted>>
    PROVE  SerialOK'
  <1>1. OneAtATime' /\ AllAgree' BY AloneEnds
  <1>2. Booked' /\ WithinOrder' BY TablesStay
  <1>3. QED BY <1>1, <1>2 DEF SerialOK

LEMMA SerialStartReceipt ==
    ASSUME PurchasingIndInv, SerialOK, NEW s \in Sessions, OthersQuiet(s), NEW p \in Orders,
           NEW receipt \in Receipts, StartReceipt(s, p, receipt)
    PROVE  SerialOK'
  <1> DEFINE v == [Idle EXCEPT !.at = "line", !.order = p, !.from = order[p],
                               !.items = receipt, !.view = received[p], !.loaded = LineNumbers]
  <1>1. Goto(s, v) /\ UNCHANGED <<order, lines, received, posted>> /\ order[p] \in Receivable
    BY DEF StartReceipt
  <1>2. Idle.dirty = {} BY DEF Idle
  <1>3. /\ v.at = "line" /\ v.order = p /\ v.from = order[p] /\ v.view = received[p] /\ v.dirty = {}
    BY <1>2, IdleTyped DEF Session
  <1> HIDE DEF v
  <1>4. Agrees(v, order, lines, received) BY <1>1, <1>3 DEF Agrees
  <1>5. QED BY <1>1, <1>4, SerialReads

LEMMA SerialArrive ==
    ASSUME PurchasingIndInv, SerialOK, NEW s \in Sessions, OthersQuiet(s), Arrive(s)
    PROVE  SerialOK'
  <1>1. ASSUME NEW r \in Requests, NEW target \in RequestStatuses, ReadRequest(s, r, target)
        PROVE  SerialOK'
    <2> DEFINE v == [Idle EXCEPT !.at = "writeRequest", !.request = r, !.to = target]
    <2>1. Goto(s, v) /\ UNCHANGED <<order, lines, received, posted>> BY <1>1 DEF ReadRequest
    <2>2. v.at = "writeRequest" BY IdleTyped DEF Session
    <2> HIDE DEF v
    <2>3. Agrees(v, order, lines, received) BY <2>2 DEF Agrees, Delivering
    <2>4. QED BY <2>1, <2>3, SerialReads
  <1>2. ASSUME NEW p \in Orders, NEW target \in OrderStatuses, ReadOrder(s, p, target)
        PROVE  SerialOK'
    <2> DEFINE v == [Idle EXCEPT !.at = "writeOrder", !.order = p, !.to = target]
    <2>1. Goto(s, v) /\ UNCHANGED <<order, lines, received, posted>> BY <1>2 DEF ReadOrder
    <2>2. v.at = "writeOrder" BY IdleTyped DEF Session
    <2> HIDE DEF v
    <2>3. Agrees(v, order, lines, received) BY <2>2 DEF Agrees, Delivering
    <2>4. QED BY <2>1, <2>3, SerialReads
  <1>3. ASSUME NEW p \in Orders, NEW layout \in Layouts, StartOrder(s, p, layout)
        PROVE  SerialOK'
    <2> DEFINE v == [Idle EXCEPT
          !.at = IF LinkedLines(layout) = {} THEN "commitOrder" ELSE "markOrdered",
          !.order = p, !.layout = layout, !.todo = LinkedLines(layout)]
    <2>1. Goto(s, v) /\ UNCHANGED <<order, lines, received, posted>> BY <1>3 DEF StartOrder
    <2>2. v.at = IF LinkedLines(layout) = {} THEN "commitOrder" ELSE "markOrdered"
      BY IdleTyped DEF Session
    <2>3. v.at \in {"commitOrder", "markOrdered"} BY <2>2
    <2> HIDE DEF v
    <2>4. Agrees(v, order, lines, received) BY <2>3 DEF Agrees, Delivering
    <2>5. QED BY <2>1, <2>4, SerialReads
  <1>4. ASSUME NEW p \in Orders, NEW receipt \in Receipts, StartReceipt(s, p, receipt)
        PROVE  SerialOK'
    BY <1>4, SerialStartReceipt
  <1>5. QED BY <1>1, <1>2, <1>3, <1>4 DEF Arrive
-----------------------------------------------------------------------------
(* Steps of a receipt. *)

LEMMA SerialReceiveLine ==
    ASSUME PurchasingIndInv, SerialOK, NEW s \in Sessions, OthersQuiet(s), ReceiveLine(s)
    PROVE  SerialOK'
  <1> DEFINE item == Head(session[s].items)
             i    == item.line
             p    == session[s].order
             part == i \in PartLines(lines[p])
             v    == [session[s] EXCEPT
                        !.at = IF part THEN "post" ELSE "line",
                        !.items = IF part THEN session[s].items ELSE Tail(session[s].items),
                        !.view = [session[s].view EXCEPT ![i] = Seen(s, i) + item.quantity],
                        !.loaded = session[s].loaded \cup {i},
                        !.dirty = session[s].dirty \cup {i}]
  <1>1. At(s, "line") /\ session[s].items # <<>> /\ UNCHANGED <<order, lines, received, posted>>
    BY DEF ReceiveLine
  <1>2. CASE End(s) BY <1>1, <1>2, SerialEnds
  <1>3. CASE Goto(s, v) /\ ~(item.quantity > Outstanding(s, i))
    <2>1. /\ session[s] \in Session /\ p \in Orders
          /\ session[s].dirty \subseteq session[s].loaded
          /\ received[p] \in [LineNumbers -> Nat]
          /\ \A j \in LineNumbers : Seen(s, j) \in Nat
      BY <1>1, SeenCovered
    <2>2. item \in Item BY <1>1, <2>1 DEF Session
    <2>3. i \in LineNumbers /\ item.quantity \in Nat BY <2>2 DEF Item
    <2>4. lines[p][i].quantity \in Nat
      BY <2>1, <2>3 DEF PurchasingIndInv, TypeOK, Line
    <2>5. /\ \A j \in session[s].loaded \ session[s].dirty : session[s].view[j] = received[p][j]
          /\ \A j \in session[s].dirty : session[s].view[j] <= lines[p][j].quantity
          /\ session[s].dirty \cap PartLines(lines[p]) = {}
          /\ session[s].from # "EXPIRED" => session[s].from = order[p]
          /\ order[p] \in Receivable
      BY <1>1 DEF SerialOK, AllAgree, Agrees, Delivering, At
    <2>6. Seen(s, i) + item.quantity <= lines[p][i].quantity
      <3>1. Outstanding(s, i) = lines[p][i].quantity - Seen(s, i) BY DEF Outstanding
      <3>2. Seen(s, i) \in Nat BY <2>1, <2>3
      <3> HIDE DEF p, i, item
      <3>3. QED BY <1>3, <2>3, <2>4, <3>1, <3>2
    <2>7. part => Seen(s, i) = received[p][i]
      BY <2>5 DEF Seen
    <2> HIDE DEF item, i, part, p
    <2>8. /\ v.at = IF part THEN "post" ELSE "line"
          /\ v.items = IF part THEN session[s].items ELSE Tail(session[s].items)
          /\ v.view = [session[s].view EXCEPT ![i] = Seen(s, i) + item.quantity]
          /\ v.loaded = session[s].loaded \cup {i}
          /\ v.dirty = session[s].dirty \cup {i}
          /\ v.order = p /\ v.from = session[s].from
      BY <2>1 DEF Session, p
    <2> HIDE DEF v
    <2>9. v.view[i] = Seen(s, i) + item.quantity
      BY <2>1, <2>3, <2>8 DEF Session
    <2>10. \A j \in LineNumbers : j # i => v.view[j] = session[s].view[j]
      BY <2>1, <2>8 DEF Session
    <2>11. session[s].dirty \subseteq LineNumbers /\ session[s].loaded \subseteq LineNumbers
      BY <2>1 DEF Session
    <2>12. \A j \in v.loaded \ v.dirty : v.view[j] = received[p][j]
      BY <2>5, <2>8, <2>10, <2>11
    <2>13. \A j \in v.dirty : v.view[j] <= lines[p][j].quantity
      BY <2>5, <2>6, <2>8, <2>9, <2>10, <2>11
    <2>14. \A j \in v.dirty \cap PartLines(lines[p]) : v.at = "post" /\ Head(v.items).line = j
      BY <2>5, <2>8 DEF part, i, item
    <2>15. v.at = "post" => /\ Head(v.items).line \in v.dirty \cap PartLines(lines[p])
                            /\ v.view[Head(v.items).line] =
                                  received[p][Head(v.items).line] + Head(v.items).quantity
      <3>1. SUFFICES ASSUME v.at = "post" PROVE i \in v.dirty \cap PartLines(lines[p])
                       /\ v.view[i] = received[p][i] + item.quantity /\ v.items = session[s].items
        BY DEF i, item
      <3>2. part BY <2>8, <3>1
      <3>3. QED BY <2>7, <2>8, <2>9, <3>2 DEF part
    <2>16. Agrees(v, order, lines, received)
      BY <2>5, <2>8, <2>12, <2>13, <2>14, <2>15 DEF Agrees
    <2>17. QED BY <1>1, <1>3, <2>16, SerialReads
  <1>4. QED BY <1>2, <1>3 DEF ReceiveLine

LEMMA SerialDecideStatus ==
    ASSUME PurchasingIndInv, SerialOK, NEW s \in Sessions, OthersQuiet(s), DecideStatus(s)
    PROVE  SerialOK'
  <1> DEFINE p    == session[s].order
             seen == [i \in LineNumbers |-> Seen(s, i)]
             from == IF session[s].from = "EXPIRED" THEN order[p] ELSE session[s].from
             to   == ReceivedStatus(lines[p], seen, from)
             todo == IF to = "RECEIVED" THEN LinkedLines(lines[p]) ELSE {}
             v    == [session[s] EXCEPT
                        !.at = "marking", !.from = from, !.to = to, !.view = seen,
                        !.loaded = LineNumbers, !.todo = todo]
  <1>1. At(s, "line") /\ Goto(s, v) /\ UNCHANGED <<order, lines, received, posted>>
    BY DEF DecideStatus
  <1>2. session[s] \in Session
    BY DEF PurchasingIndInv, TypeOK
  <1>3. /\ \A j \in session[s].loaded \ session[s].dirty : session[s].view[j] = received[p][j]
        /\ \A j \in session[s].dirty : session[s].view[j] <= lines[p][j].quantity
        /\ session[s].dirty \cap PartLines(lines[p]) = {}
        /\ session[s].from # "EXPIRED" => session[s].from = order[p]
        /\ order[p] \in Receivable
    BY <1>1 DEF SerialOK, AllAgree, Agrees, Delivering, At
  <1>4. session[s].dirty \subseteq session[s].loaded
    BY <1>1, SeenCovered
  <1>5. from = order[p] BY <1>3
  <1>6. \A j \in LineNumbers : seen[j] = IF j \in session[s].dirty THEN session[s].view[j]
                                        ELSE received[p][j]
    BY <1>3, <1>4 DEF Seen
  <1>7. session[s].dirty \subseteq LineNumbers BY <1>2 DEF Session
  <1> HIDE DEF p, seen, from, to, todo
  <1>8. /\ v.at = "marking" /\ v.view = seen /\ v.loaded = LineNumbers /\ v.order = p
        /\ v.dirty = session[s].dirty /\ v.from = from
    BY <1>2 DEF Session, p
  <1> HIDE DEF v
  <1>9. Agrees(v, order, lines, received)
    BY <1>3, <1>5, <1>6, <1>7, <1>8 DEF Agrees
  <1>10. QED BY <1>1, <1>9, SerialReads

LEMMA SerialReadToMark ==
    ASSUME PurchasingIndInv, SerialOK, NEW s \in Sessions, OthersQuiet(s), ReadToMark(s)
    PROVE  SerialOK'
  <1>1. At(s, "marking") /\ UNCHANGED <<order, lines, received, posted>>
    BY DEF ReadToMark
  <1>2. session[s] \in Session /\ Agrees(session[s], order, lines, received)
    BY DEF PurchasingIndInv, TypeOK, SerialOK, AllAgree
  <1>3. ASSUME NEW v, Goto(s, v), v.at \in {"marking", "markReceived"}, v.order = session[s].order,
               v.view = session[s].view, v.loaded = session[s].loaded,
               v.dirty = session[s].dirty, v.from = session[s].from
        PROVE  SerialOK'
    <2>1. Agrees(v, order, lines, received)
      BY <1>1, <1>2, <1>3 DEF Agrees, Delivering, At
    <2>2. QED BY <1>1, <1>3, <2>1, SerialReads
  <1>4. CASE Goto(s, [session[s] EXCEPT !.at = "markReceived"])
    <2> DEFINE v == [session[s] EXCEPT !.at = "markReceived"]
    <2>1. /\ Goto(s, v) /\ v.at \in {"marking", "markReceived"} /\ v.order = session[s].order
          /\ v.view = session[s].view /\ v.loaded = session[s].loaded
          /\ v.dirty = session[s].dirty /\ v.from = session[s].from
      BY <1>2, <1>4 DEF Session
    <2> HIDE DEF v
    <2>2. QED BY <1>3, <2>1
  <1>5. CASE Goto(s, [session[s] EXCEPT !.todo = @ \ {First(@)}])
    <2> DEFINE v == [session[s] EXCEPT !.todo = @ \ {First(@)}]
    <2>1. /\ Goto(s, v) /\ v.at \in {"marking", "markReceived"} /\ v.order = session[s].order
          /\ v.view = session[s].view /\ v.loaded = session[s].loaded
          /\ v.dirty = session[s].dirty /\ v.from = session[s].from
      BY <1>1, <1>2, <1>5 DEF Session, At
    <2> HIDE DEF v
    <2>2. QED BY <1>3, <2>1
  <1>6. QED BY <1>4, <1>5 DEF ReadToMark
-----------------------------------------------------------------------------
(* Steps that commit. *)

LEMMA WriteLinesEffect ==
    ASSUME PurchasingIndInv, NEW s \in Sessions, Delivering(session[s]), WriteLines(s)
    PROVE  /\ session[s].order \in Orders
           /\ \A q \in Orders : q # session[s].order => received'[q] = received[q]
           /\ received'[session[s].order] =
                 [i \in LineNumbers |-> IF i \in session[s].dirty THEN session[s].view[i]
                                        ELSE received[session[s].order][i]]
  <1>1. session[s].order \in Orders
    BY DEF PurchasingIndInv, SessionsHold, Holds
  <1>2. received \in [Orders -> [LineNumbers -> Nat]]
    BY DEF PurchasingIndInv, TypeOK
  <1>3. QED BY <1>1, <1>2 DEF WriteLines

LEMMA WriteLinesByLine ==
    ASSUME PurchasingIndInv, NEW s \in Sessions, Delivering(session[s]), WriteLines(s)
    PROVE  /\ \A i \in LineNumbers : i \in session[s].dirty =>
                 received'[session[s].order][i] = session[s].view[i]
           /\ \A i \in LineNumbers : i \notin session[s].dirty =>
                 received'[session[s].order][i] = received[session[s].order][i]
           /\ \A q \in Orders : q # session[s].order => received'[q] = received[q]
  BY WriteLinesEffect

(* What a session writes to the lines stays within the order. *)
LEMMA WriteLinesWithin ==
    ASSUME PurchasingIndInv, SerialOK, NEW s \in Sessions, Delivering(session[s]),
           WriteLines(s), lines' = lines
    PROVE  WithinOrder'
  <1>1. \A i \in session[s].dirty : session[s].view[i] <= lines[session[s].order][i].quantity
    BY DEF SerialOK, AllAgree, Agrees
  <1>2. ASSUME NEW q \in Orders, NEW i \in LineNumbers
        PROVE  received'[q][i] <= lines[q][i].quantity
    <2>1. received[q][i] <= lines[q][i].quantity BY DEF SerialOK, WithinOrder
    <2>2. CASE q # session[s].order BY <2>1, <2>2, WriteLinesByLine
    <2>3. CASE q = session[s].order /\ i \in session[s].dirty
      BY <1>1, <2>3, WriteLinesByLine
    <2>4. CASE q = session[s].order /\ i \notin session[s].dirty
      BY <2>1, <2>4, WriteLinesByLine
    <2>5. QED BY <2>2, <2>3, <2>4
  <1>3. QED BY <1>2 DEF WithinOrder

LEMMA SerialPostReceipt ==
    ASSUME PurchasingIndInv, SerialOK, NEW s \in Sessions, OthersQuiet(s), PostReceipt(s)
    PROVE  SerialOK'
  <1> DEFINE p    == session[s].order
             item == Head(session[s].items)
             j    == item.line
             v    == [session[s] EXCEPT !.at = "line", !.items = Tail(session[s].items),
                                        !.from = "EXPIRED", !.loaded = {}, !.dirty = {}]
  <1>1. /\ At(s, "post") /\ WriteLines(s) /\ Goto(s, v)
        /\ posted' = [posted EXCEPT ![p] = [posted[p] EXCEPT ![j] = @ + item.quantity]]
        /\ UNCHANGED <<order, lines>>
    BY DEF PostReceipt
  <1>2. Delivering(session[s]) BY <1>1 DEF Delivering, At
  <1>3. session[s] \in Session /\ p \in Orders /\ posted[p] \in [LineNumbers -> Nat]
        /\ posted \in [Orders -> [LineNumbers -> Nat]] /\ received[p] \in [LineNumbers -> Nat]
    BY <1>1, SeenCovered DEF PurchasingIndInv, TypeOK
  <1>4. session[s].items # <<>>
    BY <1>1 DEF PurchasingIndInv, SessionsHold, Holds, At
  <1>5. item \in Item BY <1>3, <1>4 DEF Session
  <1>6. /\ \A i \in session[s].dirty \cap PartLines(lines[p]) : i = j
        /\ j \in session[s].dirty \cap PartLines(lines[p])
        /\ session[s].view[j] = received[p][j] + item.quantity
        /\ order[p] \in Receivable
    BY <1>1, <1>2 DEF SerialOK, AllAgree, Agrees, At
  <1>7. j \in LineNumbers /\ item.quantity \in Nat BY <1>5 DEF Item
  <1> HIDE DEF item, j
  <1>8. /\ posted'[p] = [posted[p] EXCEPT ![j] = posted[p][j] + item.quantity]
        /\ \A q \in Orders : q # p => posted'[q] = posted[q]
    BY <1>1, <1>3
  <1>9. ASSUME NEW q \in Orders, NEW i \in LineNumbers
        PROVE  posted'[q][i] = IF i \in PartLines(lines[q]) THEN received'[q][i] ELSE 0
    <2>1. posted[q][i] = IF i \in PartLines(lines[q]) THEN received[q][i] ELSE 0
      BY DEF SerialOK, Booked
    <2>2. CASE q # p
      <3>1. received'[q] = received[q] BY <1>1, <1>2, <2>2, WriteLinesByLine
      <3>2. QED BY <1>8, <2>1, <2>2, <3>1
    <2>3. CASE q = p /\ i = j
      <3>1. received'[p][j] = session[s].view[j] BY <1>1, <1>2, <1>6, <1>7, WriteLinesByLine
      <3>2. posted'[p][j] = posted[p][j] + item.quantity BY <1>3, <1>7, <1>8
      <3>3. posted[p][j] = received[p][j] BY <1>6, <2>1, <2>3
      <3>4. QED BY <1>6, <2>3, <3>1, <3>2, <3>3
    <2>4. CASE q = p /\ i # j
      <3>1. posted'[p][i] = posted[p][i] BY <1>3, <1>8, <2>4
      <3>2. i \in PartLines(lines[p]) => i \notin session[s].dirty BY <1>6, <2>4
      <3>3. i \in PartLines(lines[p]) => received'[p][i] = received[p][i]
        BY <1>1, <1>2, <3>2, WriteLinesByLine
      <3>4. QED BY <2>1, <2>4, <3>1, <3>3
    <2>5. QED BY <2>2, <2>3, <2>4
  <1>10. Booked' BY <1>1, <1>9 DEF Booked
  <1>11. WithinOrder' BY <1>1, <1>2, WriteLinesWithin
  <1>12. /\ v.at = "line" /\ v.order = p /\ v.from = "EXPIRED" /\ v.loaded = {} /\ v.dirty = {}
    BY <1>3 DEF Session
  <1> HIDE DEF v
  <1>13. order'[p] \in Receivable BY <1>1, <1>6
  <1>14. Agrees(v, order', lines', received')
    BY <1>12, <1>13 DEF Agrees
  <1>15. OneAtATime' /\ AllAgree' BY <1>1, <1>14, AloneMoves
  <1>16. QED BY <1>10, <1>11, <1>15 DEF SerialOK

(* The commit that completes a receipt touches no line of a part. *)
LEMMA SerialWriteReceipt ==
    ASSUME PurchasingIndInv, SerialOK, NEW s \in Sessions,
           At(s, "marking") \/ At(s, "markReceived"), WriteReceipt(s), UNCHANGED <<lines, posted>>
    PROVE  Booked' /\ WithinOrder'
  <1>1. Delivering(session[s]) /\ WriteLines(s) BY DEF Delivering, At, WriteReceipt
  <1>2. WithinOrder' BY <1>1, WriteLinesWithin
  <1>3. session[s].dirty \cap PartLines(lines[session[s].order]) = {}
    BY <1>1 DEF SerialOK, AllAgree, Agrees, At
  <1>4. ASSUME NEW q \in Orders, NEW i \in PartLines(lines[q]), i \in LineNumbers
        PROVE  received'[q][i] = received[q][i]
    <2>1. CASE q # session[s].order BY <1>1, <2>1, WriteLinesByLine
    <2>2. CASE q = session[s].order
      <3>1. i \notin session[s].dirty BY <1>3, <2>2
      <3>2. QED BY <1>1, <1>4, <2>2, <3>1, WriteLinesByLine
    <2>3. QED BY <2>1, <2>2
  <1>5. Booked' BY <1>4 DEF SerialOK, Booked
  <1>6. QED BY <1>2, <1>5

LEMMA SerialMarkReceived ==
    ASSUME PurchasingIndInv, SerialOK, NEW s \in Sessions, OthersQuiet(s), MarkReceived(s)
    PROVE  SerialOK'
  <1> DEFINE p == session[s].order
             v == [session[s] EXCEPT !.at = "marking", !.todo = @ \ {First(@)},
                                     !.from = session[s].to, !.dirty = {}]
  <1>1. /\ At(s, "markReceived") /\ WriteReceipt(s) /\ Goto(s, v) /\ UNCHANGED <<lines, posted>>
    BY DEF MarkReceived
  <1>2. Booked' /\ WithinOrder' BY <1>1, SerialWriteReceipt
  <1>3. session[s] \in Session /\ order \in [Orders -> OrderStatuses]
    BY DEF PurchasingIndInv, TypeOK
  <1>4. Delivering(session[s]) /\ WriteLines(s) BY <1>1 DEF Delivering, At, WriteReceipt
  <1>5. /\ \A i \in session[s].loaded \ session[s].dirty : session[s].view[i] = received[p][i]
        /\ session[s].from # "EXPIRED" => session[s].from = order[p]
    BY <1>4 DEF SerialOK, AllAgree, Agrees
  <1>6. p \in Orders /\ session[s].to \in OrderStatuses \ {"ABSENT"}
    BY <1>1, <1>4 DEF PurchasingIndInv, SessionsHold, Holds, At
  <1>7. session[s].to = order'[p]
    <2>1. CASE session[s].to = session[s].from
      <3>1. session[s].from # "EXPIRED" BY <1>6, <2>1 DEF OrderStatuses
      <3>2. order' = order BY <1>1, <2>1 DEF WriteReceipt
      <3>3. QED BY <1>5, <2>1, <3>1, <3>2
    <2>2. CASE session[s].to # session[s].from BY <1>1, <1>3, <1>6, <2>2 DEF WriteReceipt
    <2>3. QED BY <2>1, <2>2
  <1>8. \A i \in session[s].loaded : session[s].view[i] = received'[p][i]
    <2>1. session[s].loaded \subseteq LineNumbers BY <1>3 DEF Session
    <2>2. QED BY <1>4, <1>5, <2>1, WriteLinesByLine
  <1>9. /\ v.at = "marking" /\ v.order = p /\ v.view = session[s].view
        /\ v.loaded = session[s].loaded /\ v.dirty = {} /\ v.from = session[s].to
    BY <1>3 DEF Session
  <1> HIDE DEF v
  <1>10. Agrees(v, order', lines', received')
    BY <1>7, <1>8, <1>9 DEF Agrees
  <1>11. OneAtATime' /\ AllAgree' BY <1>1, <1>10, AloneMoves
  <1>12. QED BY <1>2, <1>11 DEF SerialOK

LEMMA SerialCommitReceipt ==
    ASSUME PurchasingIndInv, SerialOK, NEW s \in Sessions, OthersQuiet(s), CommitReceipt(s)
    PROVE  SerialOK'
  <1>1. At(s, "marking") /\ WriteReceipt(s) /\ End(s) /\ UNCHANGED <<lines, posted>>
    BY DEF CommitReceipt
  <1>2. Booked' /\ WithinOrder' BY <1>1, SerialWriteReceipt
  <1>3. OneAtATime' /\ AllAgree' BY <1>1, AloneEnds
  <1>4. QED BY <1>2, <1>3 DEF SerialOK

LEMMA SerialInsertOrder ==
    ASSUME PurchasingIndInv, SerialOK, NEW s \in Sessions, InsertOrder(s),
           session[s].order \in Orders, UNCHANGED <<received, posted>>
    PROVE  Booked' /\ WithinOrder'
  <1> DEFINE p == session[s].order
  <1>1. CASE order[p] # "ABSENT"
    <2>1. lines' = lines BY <1>1 DEF InsertOrder
    <2>2. QED BY <2>1, TablesStay
  <1>2. CASE order[p] = "ABSENT"
    <2>1. lines' = [lines EXCEPT ![p] = session[s].layout] BY <1>2 DEF InsertOrder
    <2>2. /\ lines \in [Orders -> [LineNumbers -> Line]]
          /\ session[s].layout \in [LineNumbers -> Line]
      BY DEF PurchasingIndInv, TypeOK, Session
    <2>3. lines'[p] = session[s].layout /\ \A q \in Orders : q # p => lines'[q] = lines[q]
      BY <2>1, <2>2
    <2>4. ASSUME NEW q \in Orders, NEW i \in LineNumbers
          PROVE  /\ posted[q][i] = IF i \in PartLines(lines'[q]) THEN received[q][i] ELSE 0
                 /\ received[q][i] <= lines'[q][i].quantity
      <3>1. /\ posted[q][i] = IF i \in PartLines(lines[q]) THEN received[q][i] ELSE 0
            /\ received[q][i] <= lines[q][i].quantity
        BY DEF SerialOK, Booked, WithinOrder
      <3>2. CASE q # p BY <2>3, <3>1, <3>2
      <3>3. CASE q = p
        <4>1. received[q][i] = 0 BY <1>2, <3>3 DEF PurchasingIndInv, NothingBeforeOrder
        <4>2. session[s].layout[i].quantity \in Nat BY <2>2 DEF Line
        <4>3. QED BY <2>3, <3>1, <3>3, <4>1, <4>2
      <3>4. QED BY <3>2, <3>3
    <2>5. QED BY <2>4 DEF Booked, WithinOrder
  <1>3. QED BY <1>1, <1>2

LEMMA SerialMarkOrdered ==
    ASSUME PurchasingIndInv, SerialOK, NEW s \in Sessions, OthersQuiet(s), MarkOrdered(s)
    PROVE  SerialOK'
  <1> DEFINE rest == session[s].todo \ {First(session[s].todo)}
             v    == [session[s] EXCEPT !.at = IF rest = {} THEN "commitOrder" ELSE "ordering",
                                        !.todo = rest]
  <1>1. /\ At(s, "markOrdered") /\ InsertOrder(s) /\ Goto(s, v) /\ UNCHANGED <<received, posted>>
    BY DEF MarkOrdered
  <1>2. session[s] \in Session /\ session[s].order \in Orders
    BY <1>1 DEF PurchasingIndInv, TypeOK, SessionsHold, Holds, At
  <1>3. Booked' /\ WithinOrder' BY <1>1, <1>2, SerialInsertOrder
  <1> HIDE DEF rest
  <1>4. v.at = IF rest = {} THEN "commitOrder" ELSE "ordering" BY <1>2 DEF Session
  <1>5. v.at \in {"commitOrder", "ordering"} BY <1>4
  <1> HIDE DEF v
  <1>6. Agrees(v, order', lines', received') BY <1>5 DEF Agrees, Delivering
  <1>7. OneAtATime' /\ AllAgree' BY <1>1, <1>6, AloneMoves
  <1>8. QED BY <1>3, <1>7 DEF SerialOK

LEMMA SerialReadToOrder ==
    ASSUME PurchasingIndInv, SerialOK, NEW s \in Sessions, OthersQuiet(s), ReadToOrder(s)
    PROVE  SerialOK'
  <1>1. UNCHANGED <<order, lines, received, posted>> BY DEF ReadToOrder
  <1>2. CASE End(s) BY <1>1, <1>2, SerialEnds
  <1>3. CASE Goto(s, [session[s] EXCEPT !.at = "markOrdered"])
    <2> DEFINE v == [session[s] EXCEPT !.at = "markOrdered"]
    <2>1. session[s] \in Session BY DEF PurchasingIndInv, TypeOK
    <2>2. v.at = "markOrdered" /\ Goto(s, v) BY <1>3, <2>1 DEF Session
    <2> HIDE DEF v
    <2>3. Agrees(v, order, lines, received) BY <2>2 DEF Agrees, Delivering
    <2>4. QED BY <1>1, <2>2, <2>3, SerialReads
  <1>4. QED BY <1>2, <1>3 DEF ReadToOrder

LEMMA SerialCommitOrder ==
    ASSUME PurchasingIndInv, SerialOK, NEW s \in Sessions, OthersQuiet(s), CommitOrder(s)
    PROVE  SerialOK'
  <1>1. At(s, "commitOrder") /\ InsertOrder(s) /\ End(s) /\ UNCHANGED <<received, posted>>
    BY DEF CommitOrder
  <1>2. session[s].order \in Orders BY <1>1 DEF PurchasingIndInv, SessionsHold, Holds, At
  <1>3. Booked' /\ WithinOrder' BY <1>1, <1>2, SerialInsertOrder
  <1>4. OneAtATime' /\ AllAgree' BY <1>1, AloneEnds
  <1>5. QED BY <1>3, <1>4 DEF SerialOK
-----------------------------------------------------------------------------
(* A session whose turn it is moves while the others are quiet. *)
LEMMA InTurnAlone ==
    ASSUME OneAtATime, NEW s \in Sessions, InTurn(s) PROVE OthersQuiet(s)
  <1>1. CASE AllDone BY <1>1 DEF AllDone, OthersQuiet, Quiet
  <1>2. CASE Continue(s)
    <2>1. ~Quiet(session[s])
      BY <1>2 DEF Continue, WriteRequest, WriteOrder, MarkOrdered, ReadToOrder, CommitOrder,
         ReceiveLine, PostReceipt, RefusePosting, DecideStatus, ReadToMark, MarkReceived,
         CommitReceipt, At, Quiet
    <2>2. QED BY <2>1 DEF OneAtATime
  <1>3. CASE Crash(s)
    <2>1. ~Quiet(session[s]) BY <1>3 DEF Crash, Quiet
    <2>2. QED BY <2>1 DEF OneAtATime
  <1>4. QED BY <1>1, <1>2, <1>3 DEF InTurn

LEMMA SerialContinue ==
    ASSUME PurchasingIndInv, SerialOK, NEW s \in Sessions, OthersQuiet(s), Continue(s)
    PROVE  SerialOK'
  <1>1. CASE WriteRequest(s) BY <1>1, SerialEnds DEF WriteRequest
  <1>2. CASE WriteOrder(s) BY <1>2, SerialEnds DEF WriteOrder
  <1>3. CASE MarkOrdered(s) BY <1>3, SerialMarkOrdered
  <1>4. CASE ReadToOrder(s) BY <1>4, SerialReadToOrder
  <1>5. CASE CommitOrder(s) BY <1>5, SerialCommitOrder
  <1>6. CASE ReceiveLine(s) BY <1>6, SerialReceiveLine
  <1>7. CASE PostReceipt(s) BY <1>7, SerialPostReceipt
  <1>8. CASE RefusePosting(s) BY <1>8, SerialEnds DEF RefusePosting
  <1>9. CASE DecideStatus(s) BY <1>9, SerialDecideStatus
  <1>10. CASE ReadToMark(s) BY <1>10, SerialReadToMark
  <1>11. CASE MarkReceived(s) BY <1>11, SerialMarkReceived
  <1>12. CASE CommitReceipt(s) BY <1>12, SerialCommitReceipt
  <1>13. QED
    BY <1>1, <1>2, <1>3, <1>4, <1>5, <1>6, <1>7, <1>8, <1>9, <1>10, <1>11, <1>12 DEF Continue

LEMMA SerialInTurn ==
    ASSUME PurchasingIndInv, SerialOK, NEW s \in Sessions, InTurn(s)
    PROVE  SerialOK' /\ PurchasingIndInv'
  <1>1. OthersQuiet(s) BY InTurnAlone DEF SerialOK
  <1>2. CASE Arrive(s) BY <1>1, <1>2, SerialArrive, IndInvArrive
  <1>3. CASE Continue(s) BY <1>1, <1>3, SerialContinue, IndInvContinue
  <1>4. CASE Crash(s)
    <2>1. PurchasingIndInv' BY <1>4, IndInvCrash
    <2>2. SerialOK' BY <1>1, <1>4, SerialEnds DEF Crash
    <2>3. QED BY <2>1, <2>2
  <1>5. QED BY <1>2, <1>3, <1>4 DEF InTurn

(* The next round starts with quiet sessions. *)
LEMMA RoundStarts ==
    ASSUME PurchasingIndInv, NextRound
    PROVE  /\ PurchasingIndInv'
           /\ \A s \in Sessions : Quiet(session'[s])
           /\ UNCHANGED <<request, order, lines, received, posted>>
  <1>1. /\ session' = [s \in Sessions |-> Idle]
        /\ UNCHANGED <<request, order, lines, received, posted>>
    BY DEF NextRound
  <1>2. \A s \in Sessions : session'[s] = Idle /\ session'[s].at = "idle"
    BY <1>1 DEF Idle
  <1>3. session' \in [Sessions -> Session] BY <1>1, IdleTyped
  <1>4. SessionsHold' BY <1>2 DEF SessionsHold, Holds, Delivering
  <1>5. PurchasingIndInv'
    BY <1>1, <1>3, <1>4 DEF PurchasingIndInv, TypeOK, LinesBackedByStock, NothingBeforeOrder
  <1>6. QED BY <1>1, <1>2, <1>5 DEF Quiet

LEMMA RoundAgrees ==
    ASSUME PurchasingIndInv, SerialOK, NextRound PROVE SerialOK'
  <1>1. /\ \A s \in Sessions : Quiet(session'[s])
        /\ UNCHANGED <<request, order, lines, received, posted>>
    BY RoundStarts
  <1>2. OneAtATime' BY <1>1 DEF OneAtATime
  <1>3. AllAgree' BY <1>1 DEF AllAgree, Agrees, Delivering, Quiet
  <1>4. Booked' /\ WithinOrder' BY <1>1, TablesStay
  <1>5. QED BY <1>2, <1>3, <1>4 DEF SerialOK
-----------------------------------------------------------------------------
MCIndInv == PurchasingIndInv /\ SerialInv

LEMMA MCInitially == MCInit => MCIndInv
  <1> SUFFICES ASSUME MCInit PROVE MCIndInv
    OBVIOUS
  <1>1. PurchasingIndInv BY IndInvInit DEF MCInit
  <1>2. /\ session = [s \in Sessions |-> Idle] /\ posted = received
        /\ received = [p \in Orders |-> Idle.view]
    BY DEF MCInit, Init
  <1>3. Idle.view = [i \in LineNumbers |-> 0] /\ Idle.at = "idle"
    BY DEF Idle
  <1>4. \A s \in Sessions : session[s].at = "idle" BY <1>2, <1>3
  <1>5. \A p \in Orders : \A i \in LineNumbers : received[p][i] = 0 /\ posted[p][i] = 0
    BY <1>2, <1>3
  <1>6. \A p \in Orders : \A i \in LineNumbers : lines[p][i].quantity \in Nat
    BY <1>1 DEF PurchasingIndInv, TypeOK, Line
  <1>7. OneAtATime BY <1>4 DEF OneAtATime, Quiet
  <1>8. AllAgree BY <1>4 DEF AllAgree, Agrees, Delivering
  <1>9. Booked /\ WithinOrder BY <1>5, <1>6 DEF Booked, WithinOrder
  <1>10. QED BY <1>1, <1>7, <1>8, <1>9 DEF MCIndInv, SerialInv, SerialOK

LEMMA MCStep == MCIndInv /\ [MCNext]_mcvars => MCIndInv'
  <1> SUFFICES ASSUME MCIndInv, [MCNext]_mcvars PROVE MCIndInv'
    OBVIOUS
  <1>1. CASE UNCHANGED mcvars
    <2>1. UNCHANGED vars /\ UNCHANGED <<scenario, order, lines, received, posted, session>>
      BY <1>1 DEF mcvars, vars
    <2>2. PurchasingIndInv' BY <2>1, IndInvStutters DEF MCIndInv
    <2>3. SerialInv'
      BY <2>1 DEF MCIndInv, SerialInv, SerialOK, OneAtATime, OthersQuiet, AllAgree, Booked, WithinOrder
    <2>4. QED BY <2>2, <2>3 DEF MCIndInv
  <1>2. CASE scenario' = scenario /\ NextRound
    <2>1. PurchasingIndInv' BY <1>2, RoundStarts DEF MCIndInv
    <2>2. SerialInv' BY <1>2, RoundAgrees DEF MCIndInv, SerialInv
    <2>3. QED BY <2>1, <2>2 DEF MCIndInv
  <1>3. CASE scenario' = scenario /\ scenario = "concurrent" /\ Next
    <2>1. PurchasingIndInv' BY <1>3, IndInvStep DEF MCIndInv
    <2>2. QED BY <1>3, <2>1 DEF MCIndInv, SerialInv
  <1>4. CASE scenario' = scenario /\ scenario # "concurrent" /\ \E s \in Sessions : InTurn(s)
    BY <1>4, SerialInTurn DEF MCIndInv, SerialInv
  <1>5. QED BY <1>1, <1>2, <1>3, <1>4 DEF MCNext

LEMMA MCInvariant == MCSpec => []MCIndInv
  <1>1. MCInit => MCIndInv BY MCInitially
  <1>2. MCIndInv /\ [MCNext]_mcvars => MCIndInv'
    BY MCStep DEF mcvars
  <1>3. QED BY <1>1, <1>2, PTL DEF MCSpec

(* As long as receipts do not overlap (receiving_service.receive_purchase_order)
   a part's line has received what the ledger booked for it and a line without
   a part books nothing, although a receipt commits part by part and may stop
   between two commits.                                                     *)
THEOREM SerialStockMatchesLines == MCSpec => []StockMatchesLines
  <1>1. MCIndInv => StockMatchesLines
    BY DEF MCIndInv, SerialInv, SerialOK, Booked, StockMatchesLines
  <1>2. QED BY <1>1, MCInvariant, PTL

(* As long as receipts do not overlap no line takes in or books more than was
   ordered (receiving_service: quantity against the outstanding quantity).  *)
THEOREM SerialNoOverReceipt == MCSpec => []NoOverReceiptSerially
  <1>1. ASSUME MCIndInv PROVE NoOverReceiptSerially
    <2>1. ASSUME scenario # "concurrent", NEW p \in Orders, NEW i \in LineNumbers
          PROVE  received[p][i] <= lines[p][i].quantity /\ posted[p][i] <= lines[p][i].quantity
      <3>1. SerialOK BY <1>1, <2>1 DEF MCIndInv, SerialInv
      <3>2. lines[p][i].quantity \in Nat BY <1>1 DEF MCIndInv, PurchasingIndInv, TypeOK, Line
      <3>3. QED BY <3>1, <3>2 DEF SerialOK, Booked, WithinOrder
    <2>2. QED BY <2>1 DEF NoOverReceiptSerially, NoOverReceipt
  <1>2. QED BY <1>1, MCInvariant, PTL

ReceivesReceivable == \A p \in Orders :
    received'[p] # received[p] \/ posted'[p] # posted[p] => order[p] \in Receivable

LEMMA WritesReceivable ==
    ASSUME PurchasingIndInv, SerialOK, NEW s \in Sessions, Delivering(session[s]), WriteLines(s),
           posted' = posted \/ At(s, "post"),
           \A q \in Orders : q # session[s].order => posted'[q] = posted[q]
    PROVE  ReceivesReceivable
  <1> DEFINE p == session[s].order
  <1>1. /\ p \in Orders /\ received[p] \in [LineNumbers -> Nat]
        /\ \A q \in Orders : q # p => received'[q] = received[q]
        /\ received'[p] = [i \in LineNumbers |-> IF i \in session[s].dirty THEN session[s].view[i]
                                                 ELSE received[p][i]]
    BY WriteLinesEffect DEF PurchasingIndInv, TypeOK
  <1>2. \/ order[p] \in Receivable
        \/ session[s].at \in {"marking", "markReceived"} /\ session[s].dirty = {}
    BY DEF SerialOK, AllAgree, Agrees
  <1>3. CASE order[p] \in Receivable BY <1>1, <1>3 DEF ReceivesReceivable
  <1>4. CASE session[s].at \in {"marking", "markReceived"} /\ session[s].dirty = {}
    <2>1. received'[p] = received[p] BY <1>1, <1>4
    <2>2. posted' = posted BY <1>4 DEF At
    <2>3. QED BY <1>1, <2>1, <2>2 DEF ReceivesReceivable
  <1>5. QED BY <1>2, <1>3, <1>4

LEMMA InTurnReceivable ==
    ASSUME PurchasingIndInv, SerialOK, NEW s \in Sessions, InTurn(s) PROVE ReceivesReceivable
  <1>1. CASE UNCHANGED <<received, posted>> BY <1>1 DEF ReceivesReceivable
  <1>2. CASE PostReceipt(s)
    <2>1. /\ At(s, "post") /\ WriteLines(s)
          /\ posted' = [posted EXCEPT ![session[s].order] =
                           [posted[session[s].order] EXCEPT ![Head(session[s].items).line] =
                               @ + Head(session[s].items).quantity]]
      BY <1>2 DEF PostReceipt
    <2>2. posted \in [Orders -> [LineNumbers -> Nat]] BY DEF PurchasingIndInv, TypeOK
    <2>3. \A q \in Orders : q # session[s].order => posted'[q] = posted[q] BY <2>1, <2>2
    <2>4. Delivering(session[s]) BY <2>1 DEF Delivering, At
    <2>5. QED BY <2>1, <2>3, <2>4, WritesReceivable
  <1>3. CASE MarkReceived(s)
    <2>1. WriteLines(s) /\ posted' = posted /\ Delivering(session[s])
      BY <1>3 DEF MarkReceived, WriteReceipt, Delivering, At
    <2>2. QED BY <2>1, WritesReceivable
  <1>4. CASE CommitReceipt(s)
    <2>1. WriteLines(s) /\ posted' = posted /\ Delivering(session[s])
      BY <1>4 DEF CommitReceipt, WriteReceipt, Delivering, At
    <2>2. QED BY <2>1, WritesReceivable
  <1>5. CASE Arrive(s)
    BY <1>1, <1>5 DEF Arrive, ReadRequest, ReadOrder, StartOrder, StartReceipt
  <1>6. CASE Continue(s) /\ ~PostReceipt(s) /\ ~MarkReceived(s) /\ ~CommitReceipt(s)
    BY <1>1, <1>6 DEF Continue, WriteRequest, WriteOrder, MarkOrdered, ReadToOrder, CommitOrder,
       ReceiveLine, RefusePosting, DecideStatus, ReadToMark
  <1>7. CASE Crash(s) BY <1>1, <1>7 DEF Crash
  <1>8. QED BY <1>2, <1>3, <1>4, <1>5, <1>6, <1>7 DEF InTurn

(* As long as receipts do not overlap nothing is received or booked against an
   order outside the states that accept a delivery (_RECEIVABLE_STATUSES of
   receiving_service), by no commit of the receipt, nor by the last, which
   follows the change of the order's own status.                            *)
THEOREM SerialDeliveredWhileReceivable == MCSpec => DeliveredWhileReceivable
  <1>1. ASSUME MCIndInv, [MCNext]_mcvars, scenario # "concurrent"
        PROVE  ReceivesReceivable \/ UNCHANGED vars
    <2>1. CASE UNCHANGED mcvars BY <2>1 DEF mcvars
    <2>2. CASE NextRound BY <2>2 DEF NextRound, ReceivesReceivable
    <2>3. CASE \E s \in Sessions : InTurn(s)
      BY <1>1, <2>3, InTurnReceivable DEF MCIndInv, SerialInv
    <2>4. QED BY <1>1, <2>1, <2>2, <2>3 DEF MCNext
  <1>2. MCIndInv /\ [MCNext]_mcvars =>
           [scenario # "concurrent" => \A p \in Orders :
              received'[p] # received[p] \/ posted'[p] # posted[p] => order[p] \in Receivable]_vars
    BY <1>1 DEF mcvars, ReceivesReceivable
  <1>3. QED BY <1>2, MCInvariant, PTL DEF MCSpec, DeliveredWhileReceivable
-----------------------------------------------------------------------------
(* Creations that do not overlap, any of which may be refused or die: what a
   creation has marked so far is bought, is named by nothing confirmed and by
   no other line it has marked.                                             *)

Ordering(v) == v.at \in {"ordering", "markOrdered", "commitOrder"}
Marked(v) == LinkedLines(v.layout) \ v.todo
Bought == {"ORDERED", "RECEIVED", "CLOSED"}

Buys(v, req, ord, ls, conf) ==
    /\ v.at = "writeRequest" => Allows(RequestTransitions, req[v.request], v.to)
    /\ Ordering(v) =>
          /\ v.layout \in Layouts /\ v.todo \subseteq LinkedLines(v.layout)
          /\ v.order \notin conf
          /\ IF ord[v.order] = "ABSENT" THEN v.todo = LinkedLines(v.layout)
             ELSE ls[v.order] = v.layout
          /\ \A i \in Marked(v) :
                /\ req[v.layout[i].request] \in Bought
                /\ \A j \in Marked(v) : v.layout[i].request = v.layout[j].request => i = j
                /\ \A p \in conf : \A j \in LinkedLines(ls[p]) :
                      ls[p][j].request # v.layout[i].request
          /\ v.at = "markOrdered" => req[v.layout[First(v.todo)].request] = "APPROVED"
          /\ v.at = "commitOrder" => v.todo = {}

AllBuy == \A s \in Sessions : Buys(session[s], request, order, lines, confirmed)

ConfirmedBought ==
    /\ confirmed \subseteq Orders
    /\ \A p \in confirmed : order[p] # "ABSENT"
    /\ \A p \in confirmed : \A i \in LinkedLines(lines[p]) : request[lines[p][i].request] \in Bought

ConfirmedOnce ==
    \A p, q \in confirmed : \A i \in LinkedLines(lines[p]), j \in LinkedLines(lines[q]) :
       lines[p][i].request = lines[q][j].request => p = q /\ i = j

BuyingOK == AllBuy /\ ConfirmedBought /\ ConfirmedOnce

BuyingInv == scenario # "concurrent" => BuyingOK

(* The status of an order says what its lines say, unless a receipt under way
   has committed a part of what it brings and has the status still to write. *)
SaysLines(p) ==
    (\E i \in LineNumbers : received[p][i] > 0) =>
       order[p] = IF \A i \in LineNumbers : received[p][i] >= lines[p][i].quantity
                  THEN "RECEIVED" ELSE "PARTIALLY_RECEIVED"

Completes(v, p) == /\ Delivering(v) /\ v.order = p
                   /\ v.from = "EXPIRED" \/ v.at \in {"marking", "markReceived"}

Decided(v, ord, ls) ==
    /\ v.at = "writeOrder" => Allows(OrderTransitions, ord[v.order], v.to)
    /\ v.at \in {"marking", "markReceived"} =>
          v.loaded = LineNumbers /\ v.to = ReceivedStatus(ls[v.order], v.view, v.from)

AllDecided == \A s \in Sessions : Decided(session[s], order, lines)
StatusKept == \A p \in Orders : SaysLines(p) \/ \E s \in Sessions : Completes(session[s], p)

StatusOK == AllDecided /\ StatusKept

StatusInv == scenario = "smooth" => StatusOK
-----------------------------------------------------------------------------
LEMMA FirstOf ==
    ASSUME NEW S, S \subseteq LineNumbers, S # {} PROVE First(S) \in S
  <1>1. IsWellFoundedOn(OpToRel(<, Nat), Nat) BY NatLessThanWellFounded, Zenon
  <1>2. S \subseteq Nat BY PurchasingAssumption
  <1>3. PICK i \in S : \A j \in S : ~(<<j, i>> \in OpToRel(<, Nat))
    BY <1>1, <1>2, WFMin, Zenon
  <1>4. ASSUME NEW j \in S PROVE i <= j
    <2>1. i \in Nat /\ j \in Nat BY <1>2
    <2>2. ~(j < i) BY <1>3, <2>1 DEF OpToRel
    <2>3. QED BY <2>1, <2>2
  <1>5. QED BY <1>4 DEF First

(* Where the others are quiet, only the session that moves buys. *)
LEMMA BuysAlone ==
    ASSUME PurchasingIndInv, NEW s \in Sessions, OthersQuiet(s), NEW v, Goto(s, v),
           Buys(v, request', order', lines', confirmed')
    PROVE  AllBuy'
  <1>1. session'[s] = v /\ \A x \in Sessions : x # s => session'[x] = session[x]
    BY DEF PurchasingIndInv, TypeOK, Goto
  <1>2. ASSUME NEW x \in Sessions PROVE Buys(session'[x], request', order', lines', confirmed')
    <2>1. CASE x = s BY <1>1, <2>1
    <2>2. CASE x # s
      <3>1. Quiet(session'[x]) BY <1>1, <2>2 DEF OthersQuiet
      <3>2. QED BY <3>1 DEF Quiet, Buys, Ordering
    <2>3. QED BY <2>1, <2>2
  <1>3. QED BY <1>2 DEF AllBuy

(* What a step may do that confirms nothing. *)
OrdersKept ==
    /\ confirmed' = confirmed
    /\ \A p \in Orders : order[p] # "ABSENT" => order'[p] # "ABSENT" /\ lines'[p] = lines[p]
    /\ \A r \in Requests : request[r] \in Bought => request'[r] \in Bought

LEMMA LinkedRequests ==
    ASSUME NEW layout \in [LineNumbers -> Line], NEW i \in LinkedLines(layout)
    PROVE  i \in LineNumbers /\ layout[i].request \in Requests
  BY DEF LinkedLines, Line

LEMMA ConfirmedStays ==
    ASSUME PurchasingIndInv, BuyingOK, OrdersKept PROVE ConfirmedBought' /\ ConfirmedOnce'
  <1>1. /\ ConfirmedBought /\ ConfirmedOnce /\ lines \in [Orders -> [LineNumbers -> Line]]
        /\ confirmed' = confirmed
    BY DEF BuyingOK, PurchasingIndInv, TypeOK, OrdersKept
  <1>2. ASSUME NEW p \in confirmed
        PROVE  p \in Orders /\ order'[p] # "ABSENT" /\ lines'[p] = lines[p]
    BY <1>1 DEF ConfirmedBought, OrdersKept
  <1>3. ASSUME NEW p \in confirmed, NEW i \in LinkedLines(lines[p])
        PROVE  request'[lines[p][i].request] \in Bought
    <2>1. lines[p][i].request \in Requests BY <1>1, <1>2, LinkedRequests
    <2>2. request[lines[p][i].request] \in Bought BY <1>1 DEF ConfirmedBought
    <2>3. QED BY <2>1, <2>2 DEF OrdersKept
  <1>4. ConfirmedBought' BY <1>1, <1>2, <1>3 DEF ConfirmedBought
  <1>5. ConfirmedOnce' BY <1>1, <1>2 DEF ConfirmedOnce
  <1>6. QED BY <1>4, <1>5

(* Steps that leave their session buying nothing, and confirm nothing. *)
LEMMA NotBuying ==
    ASSUME PurchasingIndInv, BuyingOK, NEW s \in Sessions, OthersQuiet(s), NEW v, Goto(s, v),
           ~Ordering(v), OrdersKept,
           v.at = "writeRequest" => Allows(RequestTransitions, request'[v.request], v.to)
    PROVE  BuyingOK'
  <1>1. Buys(v, request', order', lines', confirmed') BY DEF Buys
  <1>2. AllBuy' BY <1>1, BuysAlone
  <1>3. QED BY <1>2, ConfirmedStays DEF BuyingOK

LEMMA BoughtStays ==
    ASSUME NEW current \in Bought, NEW target, Allows(RequestTransitions, current, target)
    PROVE  target \in Bought
  BY DEF Bought, Allows, RequestTransitions

(* A creation that is refused half-way or dies is one of them. *)
LEMMA BuyingEnds ==
    ASSUME PurchasingIndInv, BuyingOK, NEW s \in Sessions, OthersQuiet(s), End(s), OrdersKept
    PROVE  BuyingOK'
  <1> DEFINE v == [Idle EXCEPT !.at = "done"]
  <1>1. v.at = "done" /\ Goto(s, v) BY IdleTyped DEF Session, End
  <1> HIDE DEF v
  <1>2. ~Ordering(v) BY <1>1 DEF Ordering
  <1>3. QED BY <1>1, <1>2, NotBuying

LEMMA TablesKept ==
    ASSUME UNCHANGED <<request, order, lines, confirmed>> PROVE OrdersKept
  BY DEF OrdersKept

LEMMA BuyingArrive ==
    ASSUME PurchasingIndInv, BuyingOK, NEW s \in Sessions, OthersQuiet(s), Arrive(s),
           confirmed' = confirmed
    PROVE  BuyingOK'
  <1>1. UNCHANGED <<request, order, lines>> /\ OrdersKept
    BY TablesKept DEF Arrive, ReadRequest, ReadOrder, StartOrder, StartReceipt
  <1>4. ASSUME NEW r \in Requests, NEW target \in RequestStatuses, ReadRequest(s, r, target)
        PROVE  BuyingOK'
    <2> DEFINE v == [Idle EXCEPT !.at = "writeRequest", !.request = r, !.to = target]
    <2>1. Goto(s, v) /\ Allows(RequestTransitions, request[r], target) BY <1>4 DEF ReadRequest
    <2>2. v.at = "writeRequest" /\ v.request = r /\ v.to = target BY IdleTyped DEF Session
    <2> HIDE DEF v
    <2>3. ~Ordering(v) /\ Allows(RequestTransitions, request'[v.request], v.to)
      BY <1>1, <2>1, <2>2 DEF Ordering
    <2>4. QED BY <1>1, <2>1, <2>3, NotBuying
  <1>5. ASSUME NEW p \in Orders, NEW target \in OrderStatuses, ReadOrder(s, p, target)
        PROVE  BuyingOK'
    <2> DEFINE v == [Idle EXCEPT !.at = "writeOrder", !.order = p, !.to = target]
    <2>1. Goto(s, v) BY <1>5 DEF ReadOrder
    <2>2. v.at = "writeOrder" BY IdleTyped DEF Session
    <2> HIDE DEF v
    <2>3. ~Ordering(v) BY <2>2 DEF Ordering
    <2>4. QED BY <1>1, <2>1, <2>2, <2>3, NotBuying
  <1>6. ASSUME NEW p \in Orders, NEW receipt \in Receipts, StartReceipt(s, p, receipt)
        PROVE  BuyingOK'
    <2> DEFINE v == [Idle EXCEPT !.at = "line", !.order = p, !.from = order[p],
                                 !.items = receipt, !.view = received[p], !.loaded = LineNumbers]
    <2>1. Goto(s, v) BY <1>6 DEF StartReceipt
    <2>2. v.at = "line" BY IdleTyped DEF Session
    <2> HIDE DEF v
    <2>3. ~Ordering(v) BY <2>2 DEF Ordering
    <2>4. QED BY <1>1, <2>1, <2>2, <2>3, NotBuying
  <1>7. ASSUME NEW p \in Orders, NEW layout \in Layouts, StartOrder(s, p, layout)
        PROVE  BuyingOK'
    <2> DEFINE phase == IF LinkedLines(layout) = {} THEN "commitOrder" ELSE "markOrdered"
               todo  == LinkedLines(layout)
               v     == [Idle EXCEPT !.at = phase, !.order = p, !.layout = layout, !.todo = todo]
    <2>1. /\ Goto(s, v) /\ order[p] = "ABSENT"
          /\ \A i \in LinkedLines(layout) : request[layout[i].request] = "APPROVED"
      BY <1>7 DEF StartOrder
    <2>2. /\ phase \in {"commitOrder", "markOrdered"} /\ (phase = "commitOrder" => todo = {})
          /\ (phase = "markOrdered" => todo # {}) /\ todo = LinkedLines(layout)
      OBVIOUS
    <2>3. todo # {} => First(todo) \in todo BY FirstOf DEF LinkedLines
    <2> HIDE DEF phase, todo
    <2>4. v.at = phase /\ v.order = p /\ v.layout = layout /\ v.todo = todo
      BY IdleTyped DEF Session
    <2> HIDE DEF v
    <2>5. p \notin confirmed BY <2>1 DEF BuyingOK, ConfirmedBought
    <2>6. Marked(v) = {} BY <2>2, <2>4 DEF Marked
    <2>7. v.at = "markOrdered" => request[v.layout[First(v.todo)].request] = "APPROVED"
      BY <2>1, <2>2, <2>3, <2>4
    <2>8. Buys(v, request, order, lines, confirmed)
      BY <2>1, <2>2, <2>4, <2>5, <2>6, <2>7 DEF Buys, Ordering
    <2>9. Buys(v, request', order', lines', confirmed') BY <1>1, <2>8
    <2>10. AllBuy' BY <2>1, <2>9, BuysAlone
    <2>11. QED BY <1>1, <2>10, ConfirmedStays DEF BuyingOK
  <1>8. QED BY <1>4, <1>5, <1>6, <1>7 DEF Arrive

(* A request is marked, and with the first of them the order is inserted. *)
LEMMA BuyingMarkOrdered ==
    ASSUME PurchasingIndInv, BuyingOK, NEW s \in Sessions, OthersQuiet(s), MarkOrdered(s),
           confirmed' = confirmed
    PROVE  BuyingOK'
  <1> DEFINE p    == session[s].order
             lay  == session[s].layout
             todo == session[s].todo
             i0   == First(todo)
             rest == todo \ {i0}
             v    == [session[s] EXCEPT !.at = IF rest = {} THEN "commitOrder" ELSE "ordering",
                                        !.todo = rest]
  <1>1. /\ At(s, "markOrdered") /\ InsertOrder(s) /\ Goto(s, v)
        /\ request' = [request EXCEPT ![lay[i0].request] = "ORDERED"]
    BY DEF MarkOrdered
  <1>2. /\ session[s] \in Session /\ p \in Orders /\ todo # {}
        /\ request \in [Requests -> RequestStatuses] /\ order \in [Orders -> OrderStatuses]
        /\ lines \in [Orders -> [LineNumbers -> Line]]
    BY <1>1 DEF PurchasingIndInv, TypeOK, SessionsHold, Holds, At
  <1>3. Buys(session[s], request, order, lines, confirmed) /\ Ordering(session[s])
    BY <1>1 DEF BuyingOK, AllBuy, Ordering, At
  <1>4. /\ lay \in Layouts /\ todo \subseteq LinkedLines(lay) /\ p \notin confirmed
        /\ IF order[p] = "ABSENT" THEN todo = LinkedLines(lay) ELSE lines[p] = lay
        /\ request[lay[i0].request] = "APPROVED"
    BY <1>1, <1>3 DEF Buys, At
  <1>5. ASSUME NEW i \in LinkedLines(lay) \ todo
        PROVE  /\ request[lay[i].request] \in Bought
               /\ \A j \in LinkedLines(lay) \ todo : lay[i].request = lay[j].request => i = j
               /\ \A q \in confirmed : \A j \in LinkedLines(lines[q]) :
                     lines[q][j].request # lay[i].request
    BY <1>3 DEF Buys, Marked
  <1>6. lay \in [LineNumbers -> Line] /\ LinkedLines(lay) \subseteq LineNumbers
    BY <1>4, PurchasingAssumption DEF LinkedLines
  <1>7. i0 \in todo
    <2>1. todo \subseteq LineNumbers BY <1>4, <1>6
    <2>2. QED BY <1>2, <2>1, FirstOf
  <1>8. \A i \in LinkedLines(lay) : lay[i].request \in Requests BY <1>6, LinkedRequests
  <1>9. /\ v.at \in {"commitOrder", "ordering"} /\ (v.at = "commitOrder" => rest = {})
        /\ v.todo = rest /\ v.order = p /\ v.layout = lay
    BY <1>2 DEF Session
  <1>10. i0 \in LinkedLines(lay) /\ LinkedLines(lay) \ rest = (LinkedLines(lay) \ todo) \cup {i0}
    BY <1>4, <1>7
  <1> HIDE DEF v, i0
  <1>11. /\ \A q \in Orders : q # p => lines'[q] = lines[q] /\ order'[q] = order[q]
         /\ lines'[p] = lay /\ order'[p] # "ABSENT"
         /\ order[p] # "ABSENT" => lines'[p] = lines[p]
    <2>1. CASE order[p] = "ABSENT"
      <3>1. order' = [order EXCEPT ![p] = "DRAFT"] /\ lines' = [lines EXCEPT ![p] = lay]
        BY <1>1, <2>1 DEF InsertOrder
      <3>2. QED BY <1>2, <2>1, <3>1
    <2>2. CASE order[p] # "ABSENT"
      <3>1. UNCHANGED <<order, lines>> BY <1>1, <2>2 DEF InsertOrder
      <3>2. QED BY <1>4, <2>2, <3>1
    <2>3. QED BY <2>1, <2>2
  <1>12. /\ request'[lay[i0].request] = "ORDERED"
         /\ \A r \in Requests : r # lay[i0].request => request'[r] = request[r]
    BY <1>1, <1>2, <1>8, <1>10
  <1>13. OrdersKept
    <2>1. \A r \in Requests : request[r] \in Bought => request'[r] \in Bought
      BY <1>12 DEF Bought
    <2>2. \A q \in Orders : order[q] # "ABSENT" => order'[q] # "ABSENT" /\ lines'[q] = lines[q]
      BY <1>11
    <2>3. QED BY <2>1, <2>2 DEF OrdersKept
  <1>14. ASSUME NEW q \in confirmed
         PROVE  /\ lines'[q] = lines[q]
                /\ \A j \in LinkedLines(lines[q]) : request[lines[q][j].request] \in Bought
    BY <1>4, <1>11 DEF BuyingOK, ConfirmedBought
  <1>15. ASSUME NEW i \in (LinkedLines(lay) \ todo) \cup {i0}
         PROVE  /\ request'[lay[i].request] \in Bought
                /\ \A j \in (LinkedLines(lay) \ todo) \cup {i0} :
                      lay[i].request = lay[j].request => i = j
                /\ \A q \in confirmed : \A j \in LinkedLines(lines'[q]) :
                      lines'[q][j].request # lay[i].request
    <2>1. CASE i = i0
      <3>1. \A j \in LinkedLines(lay) \ todo : lay[i0].request # lay[j].request
        BY <1>4, <1>5 DEF Bought
      <3>2. \A q \in confirmed : \A j \in LinkedLines(lines[q]) : lines[q][j].request # lay[i0].request
        BY <1>4, <1>14 DEF Bought
      <3>3. request'[lay[i0].request] \in Bought BY <1>12 DEF Bought
      <3>4. QED BY <1>14, <2>1, <3>1, <3>2, <3>3
    <2>2. CASE i # i0
      <3>1. i \in LinkedLines(lay) \ todo BY <2>2
      <3>2. lay[i0].request # lay[i].request BY <1>4, <1>5, <3>1 DEF Bought
      <3>3. request'[lay[i].request] \in Bought BY <1>5, <1>8, <1>12, <3>1, <3>2
      <3>4. QED BY <1>5, <1>14, <3>1, <3>2, <3>3
    <2>3. QED BY <2>1, <2>2
  <1>16. Marked(v) = (LinkedLines(lay) \ todo) \cup {i0} BY <1>9, <1>10 DEF Marked
  <1>17. rest \subseteq LinkedLines(lay) BY <1>4
  <1> HIDE DEF rest
  <1>18. Buys(v, request', order', lines', confirmed')
    BY <1>4, <1>9, <1>11, <1>15, <1>16, <1>17 DEF Buys, Ordering
  <1>19. AllBuy' BY <1>1, <1>18, BuysAlone
  <1>20. QED BY <1>13, <1>19, ConfirmedStays DEF BuyingOK

(* The next request is found approved, or the creation stops. *)
LEMMA BuyingReadToOrder ==
    ASSUME PurchasingIndInv, BuyingOK, NEW s \in Sessions, OthersQuiet(s), ReadToOrder(s),
           confirmed' = confirmed
    PROVE  BuyingOK'
  <1> DEFINE v == [session[s] EXCEPT !.at = "markOrdered"]
  <1>1. At(s, "ordering") /\ UNCHANGED <<request, order, lines, confirmed>> BY DEF ReadToOrder
  <1>2. session[s] \in Session /\ Buys(session[s], request, order, lines, confirmed)
    BY DEF PurchasingIndInv, TypeOK, BuyingOK, AllBuy
  <1>3. OrdersKept BY <1>1, TablesKept
  <1>4. CASE request[session[s].layout[First(session[s].todo)].request] = "APPROVED"
    <2>1. Goto(s, v) BY <1>4 DEF ReadToOrder
    <2>2. /\ v.at = "markOrdered" /\ v.order = session[s].order
          /\ v.todo = session[s].todo /\ v.layout = session[s].layout
      BY <1>2 DEF Session
    <2> HIDE DEF v
    <2>3. Marked(v) = Marked(session[s]) BY <2>2 DEF Marked
    <2>4. Buys(v, request, order, lines, confirmed)
      BY <1>1, <1>2, <1>4, <2>2, <2>3 DEF Buys, Ordering, At
    <2>5. Buys(v, request', order', lines', confirmed') BY <1>1, <2>4
    <2>6. AllBuy' BY <2>1, <2>5, BuysAlone
    <2>7. QED BY <1>3, <2>6, ConfirmedStays DEF BuyingOK
  <1>5. CASE request[session[s].layout[First(session[s].todo)].request] # "APPROVED"
    BY <1>3, <1>5, BuyingEnds DEF ReadToOrder
  <1>6. QED BY <1>4, <1>5

(* The last commit confirms what the creation has marked: all of its lines. *)
LEMMA BuyingCommitOrder ==
    ASSUME PurchasingIndInv, BuyingOK, NEW s \in Sessions, OthersQuiet(s), CommitOrder(s),
           confirmed' = confirmed \cup {session[s].order}
    PROVE  BuyingOK'
  <1> DEFINE p   == session[s].order
             lay == session[s].layout
             v   == [Idle EXCEPT !.at = "done"]
  <1>1. At(s, "commitOrder") /\ InsertOrder(s) /\ End(s) /\ request' = request
    BY DEF CommitOrder
  <1>2. /\ p \in Orders /\ order \in [Orders -> OrderStatuses]
        /\ lines \in [Orders -> [LineNumbers -> Line]]
    BY <1>1 DEF PurchasingIndInv, TypeOK, SessionsHold, Holds, At
  <1>3. Buys(session[s], request, order, lines, confirmed) /\ Ordering(session[s])
    BY <1>1 DEF BuyingOK, AllBuy, Ordering, At
  <1>4. session[s].todo = {} /\ p \notin confirmed /\ Marked(session[s]) = LinkedLines(lay)
    BY <1>1, <1>3 DEF Buys, At, Marked
  <1>5. ASSUME NEW i \in LinkedLines(lay)
        PROVE  /\ request[lay[i].request] \in Bought
               /\ \A j \in LinkedLines(lay) : lay[i].request = lay[j].request => i = j
               /\ \A q \in confirmed : \A j \in LinkedLines(lines[q]) :
                     lines[q][j].request # lay[i].request
    BY <1>3, <1>4 DEF Buys
  <1>6. /\ \A q \in Orders : q # p => lines'[q] = lines[q] /\ order'[q] = order[q]
        /\ lines'[p] = lay /\ order'[p] # "ABSENT"
    <2>1. CASE order[p] = "ABSENT"
      <3>1. order' = [order EXCEPT ![p] = "DRAFT"] /\ lines' = [lines EXCEPT ![p] = lay]
        BY <1>1, <2>1 DEF InsertOrder
      <3>2. QED BY <1>2, <3>1
    <2>2. CASE order[p] # "ABSENT"
      <3>1. UNCHANGED <<order, lines>> BY <1>1, <2>2 DEF InsertOrder
      <3>2. lines[p] = lay BY <1>3, <2>2 DEF Buys
      <3>3. QED BY <2>2, <3>1, <3>2
    <2>3. QED BY <2>1, <2>2
  <1>7. ConfirmedBought /\ ConfirmedOnce BY DEF BuyingOK
  <1>8. \A q \in confirmed : q \in Orders /\ lines'[q] = lines[q] /\ order'[q] # "ABSENT"
    BY <1>4, <1>6, <1>7 DEF ConfirmedBought
  <1>9. ConfirmedBought'
    <2>1. ASSUME NEW q \in confirmed', NEW i \in LinkedLines(lines'[q])
          PROVE  request'[lines'[q][i].request] \in Bought
      <3>1. CASE q = p BY <1>1, <1>5, <1>6, <3>1
      <3>2. CASE q # p BY <1>1, <1>7, <1>8, <3>2 DEF ConfirmedBought
      <3>3. QED BY <3>1, <3>2
    <2>2. \A q \in confirmed' : q \in Orders /\ order'[q] # "ABSENT" BY <1>2, <1>6, <1>8
    <2>3. QED BY <2>1, <2>2 DEF ConfirmedBought
  <1>10. ConfirmedOnce'
    <2>1. ASSUME NEW q \in confirmed', NEW q2 \in confirmed', NEW i \in LinkedLines(lines'[q]),
                 NEW j \in LinkedLines(lines'[q2]), lines'[q][i].request = lines'[q2][j].request
          PROVE  q = q2 /\ i = j
      <3>1. CASE q # p /\ q2 # p BY <1>7, <1>8, <2>1, <3>1 DEF ConfirmedOnce
      <3>2. CASE q # p /\ q2 = p BY <1>5, <1>6, <1>8, <2>1, <3>2
      <3>3. CASE q = p /\ q2 # p BY <1>5, <1>6, <1>8, <2>1, <3>3
      <3>4. CASE q = p /\ q2 = p BY <1>5, <1>6, <2>1, <3>4
      <3>5. QED BY <3>1, <3>2, <3>3, <3>4
    <2>2. QED BY <2>1 DEF ConfirmedOnce
  <1>11. v.at = "done" /\ Goto(s, v) BY <1>1, IdleTyped DEF Session, End
  <1> HIDE DEF v
  <1>12. Buys(v, request', order', lines', confirmed') BY <1>11 DEF Buys, Ordering
  <1>13. AllBuy' BY <1>11, <1>12, BuysAlone
  <1>14. QED BY <1>9, <1>10, <1>13 DEF BuyingOK

LEMMA BuyingReceives ==
    ASSUME PurchasingIndInv, BuyingOK, NEW s \in Sessions, OthersQuiet(s),
           ReceiveLine(s) \/ PostReceipt(s) \/ DecideStatus(s) \/ ReadToMark(s),
           confirmed' = confirmed
    PROVE  BuyingOK'
  <1>1. /\ UNCHANGED <<request, order, lines>>
        /\ session[s].at \in {"line", "post", "marking"} /\ session[s] \in Session
    BY DEF ReceiveLine, PostReceipt, DecideStatus, ReadToMark, At, PurchasingIndInv, TypeOK
  <1>2. PICK v : Goto(s, v) /\ v.at \in {"done", "line", "post", "marking", "markReceived"}
    <2>1. CASE End(s)
      <3>1. [Idle EXCEPT !.at = "done"].at = "done" BY IdleTyped DEF Session
      <3>2. QED BY <2>1, <3>1 DEF End
    <2>2. CASE ~End(s) /\ ReceiveLine(s)
      <3> DEFINE item == Head(session[s].items)
                 i    == item.line
                 part == i \in PartLines(lines[session[s].order])
                 v    == [session[s] EXCEPT
                        !.at = IF part THEN "post" ELSE "line",
                        !.items = IF part THEN session[s].items ELSE Tail(session[s].items),
                        !.view = [session[s].view EXCEPT ![i] = Seen(s, i) + item.quantity],
                        !.loaded = session[s].loaded \cup {i},
                        !.dirty = session[s].dirty \cup {i}]
      <3>1. Goto(s, v) BY <2>2 DEF ReceiveLine
      <3> HIDE DEF part, i, item
      <3>2. v.at = IF part THEN "post" ELSE "line" BY <1>1 DEF Session
      <3> HIDE DEF v
      <3>3. QED BY <3>1, <3>2
    <2>3. CASE PostReceipt(s)
      <3> DEFINE v == [session[s] EXCEPT !.at = "line", !.items = Tail(session[s].items),
                                         !.from = "EXPIRED", !.loaded = {}, !.dirty = {}]
      <3>1. Goto(s, v) /\ v.at = "line" BY <1>1, <2>3 DEF PostReceipt, Session
      <3> HIDE DEF v
      <3>2. QED BY <3>1
    <2>4. CASE DecideStatus(s)
      <3> DEFINE p    == session[s].order
                 seen == [i \in LineNumbers |-> Seen(s, i)]
                 from == IF session[s].from = "EXPIRED" THEN order[p] ELSE session[s].from
                 to   == ReceivedStatus(lines[p], seen, from)
                 todo == IF to = "RECEIVED" THEN LinkedLines(lines[p]) ELSE {}
                 v    == [session[s] EXCEPT
                            !.at = "marking", !.from = from, !.to = to, !.view = seen,
                            !.loaded = LineNumbers, !.todo = todo]
      <3>1. Goto(s, v) BY <2>4 DEF DecideStatus
      <3> HIDE DEF p, seen, from, to, todo
      <3>2. v.at = "marking" BY <1>1 DEF Session
      <3> HIDE DEF v
      <3>3. QED BY <3>1, <3>2
    <2>5. CASE ReadToMark(s)
      <3>1. [session[s] EXCEPT !.at = "markReceived"].at = "markReceived" BY <1>1 DEF Session
      <3>2. [session[s] EXCEPT !.todo = @ \ {First(@)}].at = "marking"
        BY <1>1, <2>5 DEF Session, ReadToMark, At
      <3>3. QED BY <2>5, <3>1, <3>2 DEF ReadToMark
    <2>6. QED BY <2>1, <2>2, <2>3, <2>4, <2>5
  <1>3. ~Ordering(v) /\ v.at # "writeRequest" BY <1>2 DEF Ordering
  <1>4. OrdersKept BY <1>1, TablesKept
  <1>5. QED BY <1>2, <1>3, <1>4, NotBuying

LEMMA BuyingContinue ==
    ASSUME PurchasingIndInv, BuyingOK, NEW s \in Sessions, OthersQuiet(s), Continue(s),
           ~CommitOrder(s), confirmed' = confirmed
    PROVE  BuyingOK'
  <1>1. CASE WriteRequest(s)
    <2>1. /\ session[s].at = "writeRequest" /\ End(s) /\ lines' = lines /\ order' = order
          /\ request' = [request EXCEPT ![session[s].request] = session[s].to]
      BY <1>1 DEF WriteRequest, At
    <2>2. Allows(RequestTransitions, request[session[s].request], session[s].to)
      BY <2>1 DEF BuyingOK, AllBuy, Buys
    <2>3. request \in [Requests -> RequestStatuses] BY DEF PurchasingIndInv, TypeOK
    <2>4. \A r \in Requests : request[r] \in Bought => request'[r] \in Bought
      BY <2>1, <2>2, <2>3, BoughtStays
    <2>5. OrdersKept BY <2>1, <2>4 DEF OrdersKept
    <2>6. QED BY <2>1, <2>5, BuyingEnds
  <1>2. CASE WriteOrder(s)
    <2>1. /\ session[s].at = "writeOrder" /\ End(s) /\ lines' = lines /\ request' = request
          /\ order' = [order EXCEPT ![session[s].order] = session[s].to]
      BY <1>2 DEF WriteOrder, At
    <2>2. session[s].to # "ABSENT" /\ order \in [Orders -> OrderStatuses]
      BY <2>1 DEF PurchasingIndInv, TypeOK, SessionsHold, Holds
    <2>3. OrdersKept BY <2>1, <2>2 DEF OrdersKept
    <2>4. QED BY <2>1, <2>3, BuyingEnds
  <1>3. CASE RefusePosting(s)
    <2>1. OrdersKept BY <1>3, TablesKept DEF RefusePosting
    <2>2. QED BY <1>3, <2>1, BuyingEnds DEF RefusePosting
  <1>4. CASE MarkReceived(s)
    <2> DEFINE v == [session[s] EXCEPT !.at = "marking", !.todo = @ \ {First(@)},
                                       !.from = session[s].to, !.dirty = {}]
    <2>1. /\ At(s, "markReceived") /\ WriteReceipt(s) /\ Goto(s, v) /\ UNCHANGED <<lines, posted>>
          /\ request' = [request EXCEPT ![NextToMark(s)] = "RECEIVED"]
      BY <1>4 DEF MarkReceived
    <2>2. session[s] \in Session /\ request \in [Requests -> RequestStatuses]
      BY DEF PurchasingIndInv, TypeOK
    <2>3. v.at = "marking" BY <2>2 DEF Session
    <2> HIDE DEF v
    <2>4. ~Ordering(v) BY <2>3 DEF Ordering
    <2>5. \A r \in Requests : request[r] \in Bought => request'[r] \in Bought
      BY <2>1, <2>2 DEF Bought
    <2>6. \A p \in Orders : order'[p] = "ABSENT" => order[p] = "ABSENT"
      BY <2>1, WriteReceiptKeeps
    <2>7. OrdersKept BY <2>1, <2>5, <2>6 DEF OrdersKept
    <2>8. QED BY <2>1, <2>3, <2>4, <2>7, NotBuying
  <1>5. CASE CommitReceipt(s)
    <2>1. At(s, "marking") /\ WriteReceipt(s) /\ End(s) /\ UNCHANGED <<request, lines, posted>>
      BY <1>5 DEF CommitReceipt
    <2>2. \A p \in Orders : order'[p] = "ABSENT" => order[p] = "ABSENT"
      BY <2>1, WriteReceiptKeeps
    <2>3. OrdersKept BY <2>1, <2>2 DEF OrdersKept
    <2>4. QED BY <2>1, <2>3, BuyingEnds
  <1>6. QED
    BY <1>1, <1>2, <1>3, <1>4, <1>5, BuyingMarkOrdered, BuyingReadToOrder, BuyingReceives
       DEF Continue

LEMMA BuyingInTurn ==
    ASSUME PurchasingIndInv, BuyingOK, NEW s \in Sessions, OthersQuiet(s), InTurn(s),
           scenario # "concurrent", RecordConfirmed
    PROVE  BuyingOK'
  <1>1. CASE CommitOrder(s)
    <2>1. session[s].order \in Orders
      BY <1>1 DEF CommitOrder, At, PurchasingIndInv, SessionsHold, Holds
    <2>2. \A x \in Sessions : CommitOrder(x) => x = s
      BY DEF CommitOrder, At, OthersQuiet, Quiet
    <2>3. confirmed' = confirmed \cup {session[s].order} BY <1>1, <2>1, <2>2 DEF RecordConfirmed
    <2>4. QED BY <1>1, <2>3, BuyingCommitOrder
  <1>2. CASE ~CommitOrder(s)
    <2>1. \A x \in Sessions : ~CommitOrder(x)
      BY <1>2 DEF CommitOrder, At, OthersQuiet, Quiet
    <2>2. confirmed' = confirmed BY <2>1 DEF RecordConfirmed
    <2>3. CASE Crash(s)
      <3>1. OrdersKept BY <2>2, <2>3, TablesKept DEF Crash
      <3>2. QED BY <2>3, <3>1, BuyingEnds DEF Crash
    <2>4. QED BY <1>2, <2>2, <2>3, BuyingArrive, BuyingContinue DEF InTurn
  <1>3. QED BY <1>1, <1>2

LEMMA BuyingRound ==
    ASSUME PurchasingIndInv, BuyingOK, NextRound, scenario # "concurrent", RecordConfirmed
    PROVE  BuyingOK'
  <1>1. /\ \A s \in Sessions : Quiet(session'[s]) /\ Quiet(session[s])
        /\ UNCHANGED <<request, order, lines>>
    BY RoundStarts DEF NextRound, Quiet, At
  <1>2. \A s \in Sessions : ~CommitOrder(s) BY <1>1 DEF CommitOrder, At, Quiet
  <1>3. confirmed' = confirmed BY <1>2 DEF RecordConfirmed
  <1>4. AllBuy' BY <1>1 DEF AllBuy, Buys, Quiet, Ordering
  <1>5. QED BY <1>1, <1>3, <1>4, TablesKept, ConfirmedStays DEF BuyingOK

LEMMA BuyingInitially == MCInit => BuyingInv
  <1> SUFFICES ASSUME MCInit PROVE BuyingOK
    BY DEF BuyingInv
  <1>1. (\A s \in Sessions : session[s] = Idle) /\ confirmed = {} BY DEF MCInit, Init
  <1>2. Idle.at = "idle" BY DEF Idle
  <1>3. AllBuy BY <1>1, <1>2 DEF AllBuy, Buys, Ordering
  <1>4. QED BY <1>1, <1>3 DEF BuyingOK, ConfirmedBought, ConfirmedOnce
-----------------------------------------------------------------------------
LEMMA StatusAlone ==
    ASSUME PurchasingIndInv, NEW s \in Sessions, OthersQuiet(s), NEW v, Goto(s, v),
           Decided(v, order', lines'), \A p \in Orders : SaysLines(p)' \/ Completes(v, p)
    PROVE  StatusOK'
  <1>1. session'[s] = v /\ \A x \in Sessions : x # s => session'[x] = session[x]
    BY DEF PurchasingIndInv, TypeOK, Goto
  <1>2. ASSUME NEW x \in Sessions PROVE Decided(session'[x], order', lines')
    <2>1. CASE x = s BY <1>1, <2>1
    <2>2. CASE x # s
      <3>1. Quiet(session'[x]) BY <1>1, <2>2 DEF OthersQuiet
      <3>2. QED BY <3>1 DEF Quiet, Decided
    <2>3. QED BY <2>1, <2>2
  <1>3. StatusKept' BY <1>1 DEF StatusKept
  <1>4. QED BY <1>2, <1>3 DEF StatusOK, AllDecided

LEMMA CompletedBy ==
    ASSUME StatusOK, NEW s \in Sessions, OthersQuiet(s), NEW p \in Orders
    PROVE  SaysLines(p) \/ Completes(session[s], p)
  BY DEF StatusOK, StatusKept, OthersQuiet, Completes, Delivering, Quiet

LEMMA StatusReads ==
    ASSUME PurchasingIndInv, StatusOK, NEW s \in Sessions, OthersQuiet(s), NEW v, Goto(s, v),
           UNCHANGED <<order, lines, received>>, Decided(v, order, lines),
           \A p \in Orders : Completes(session[s], p) => Completes(v, p)
    PROVE  StatusOK'
  <1>1. \A p \in Orders : SaysLines(p)' \/ Completes(v, p)
    BY CompletedBy DEF SaysLines
  <1>2. Decided(v, order', lines') OBVIOUS
  <1>3. QED BY <1>1, <1>2, StatusAlone

(* An operation ends that has no status to write. *)
LEMMA StatusEnds ==
    ASSUME PurchasingIndInv, NEW s \in Sessions, OthersQuiet(s), End(s),
           \A p \in Orders : SaysLines(p)'
    PROVE  StatusOK'
  <1> DEFINE v == [Idle EXCEPT !.at = "done"]
  <1>1. v.at = "done" /\ Goto(s, v) BY IdleTyped DEF Session, End
  <1> HIDE DEF v
  <1>2. Decided(v, order', lines') BY <1>1 DEF Decided
  <1>3. QED BY <1>1, <1>2, StatusAlone

LEMMA StatusStops ==
    ASSUME PurchasingIndInv, StatusOK, NEW s \in Sessions, OthersQuiet(s), End(s),
           UNCHANGED <<order, lines, received>>, \A p \in Orders : ~Completes(session[s], p)
    PROVE  StatusOK'
  <1>1. \A p \in Orders : SaysLines(p)' BY CompletedBy DEF SaysLines
  <1>2. QED BY <1>1, StatusEnds

LEMMA StatusArrive ==
    ASSUME PurchasingIndInv, StatusOK, NEW s \in Sessions, OthersQuiet(s), Arrive(s)
    PROVE  StatusOK'
  <1>1. UNCHANGED <<order, lines, received>> /\ At(s, "idle")
    BY DEF Arrive, ReadRequest, ReadOrder, StartOrder, StartReceipt
  <1>2. \A p \in Orders : ~Completes(session[s], p) BY <1>1 DEF Completes, Delivering, At
  <1>3. ASSUME NEW r \in Requests, NEW target \in RequestStatuses, ReadRequest(s, r, target)
        PROVE  StatusOK'
    <2> DEFINE v == [Idle EXCEPT !.at = "writeRequest", !.request = r, !.to = target]
    <2>1. Goto(s, v) BY <1>3 DEF ReadRequest
    <2>2. v.at = "writeRequest" BY IdleTyped DEF Session
    <2> HIDE DEF v
    <2>3. Decided(v, order, lines) BY <2>2 DEF Decided
    <2>4. QED BY <1>1, <1>2, <2>1, <2>3, StatusReads
  <1>4. ASSUME NEW p \in Orders, NEW target \in OrderStatuses, ReadOrder(s, p, target)
        PROVE  StatusOK'
    <2> DEFINE v == [Idle EXCEPT !.at = "writeOrder", !.order = p, !.to = target]
    <2>1. Goto(s, v) /\ Allows(OrderTransitions, order[p], target) BY <1>4 DEF ReadOrder
    <2>2. v.at = "writeOrder" /\ v.order = p /\ v.to = target BY IdleTyped DEF Session
    <2> HIDE DEF v
    <2>3. Decided(v, order, lines) BY <2>1, <2>2 DEF Decided
    <2>4. QED BY <1>1, <1>2, <2>1, <2>3, StatusReads
  <1>5. ASSUME NEW p \in Orders, NEW layout \in Layouts, StartOrder(s, p, layout)
        PROVE  StatusOK'
    <2> DEFINE phase == IF LinkedLines(layout) = {} THEN "commitOrder" ELSE "markOrdered"
               v == [Idle EXCEPT !.at = phase, !.order = p, !.layout = layout,
                                 !.todo = LinkedLines(layout)]
    <2>1. Goto(s, v) BY <1>5 DEF StartOrder
    <2>2. phase \in {"commitOrder", "markOrdered"} OBVIOUS
    <2> HIDE DEF phase
    <2>3. v.at = phase BY IdleTyped DEF Session
    <2> HIDE DEF v
    <2>4. Decided(v, order, lines) BY <2>2, <2>3 DEF Decided
    <2>5. QED BY <1>1, <1>2, <2>1, <2>4, StatusReads
  <1>6. ASSUME NEW p \in Orders, NEW receipt \in Receipts, StartReceipt(s, p, receipt)
        PROVE  StatusOK'
    <2> DEFINE v == [Idle EXCEPT !.at = "line", !.order = p, !.from = order[p],
                                 !.items = receipt, !.view = received[p], !.loaded = LineNumbers]
    <2>1. Goto(s, v) BY <1>6 DEF StartReceipt
    <2>2. v.at = "line" BY IdleTyped DEF Session
    <2> HIDE DEF v
    <2>3. Decided(v, order, lines) BY <2>2 DEF Decided
    <2>4. QED BY <1>1, <1>2, <2>1, <2>3, StatusReads
  <1>7. QED BY <1>3, <1>4, <1>5, <1>6 DEF Arrive

(* Orders that have received something are past every transition of theirs. *)
LEMMA StatusWriteOrder ==
    ASSUME PurchasingIndInv, StatusOK, NEW s \in Sessions, OthersQuiet(s), WriteOrder(s)
    PROVE  StatusOK'
  <1>1. /\ session[s].at = "writeOrder" /\ End(s) /\ lines' = lines /\ received' = received
        /\ order' = [order EXCEPT ![session[s].order] = session[s].to]
    BY DEF WriteOrder, At
  <1>2. Allows(OrderTransitions, order[session[s].order], session[s].to)
    BY <1>1 DEF StatusOK, AllDecided, Decided
  <1>3. order[session[s].order] \notin {"RECEIVED", "PARTIALLY_RECEIVED"}
    BY <1>2 DEF Allows, OrderTransitions
  <1>4. ASSUME NEW p \in Orders PROVE SaysLines(p)'
    <2>1. SaysLines(p) BY <1>1, CompletedBy DEF Completes, Delivering
    <2>2. CASE p = session[s].order
      <3>1. ~\E i \in LineNumbers : received[p][i] > 0 BY <1>3, <2>1, <2>2 DEF SaysLines
      <3>2. QED BY <1>1, <3>1 DEF SaysLines
    <2>3. CASE p # session[s].order
      <3>1. order'[p] = order[p] BY <1>1, <2>3 DEF PurchasingIndInv, TypeOK
      <3>2. QED BY <1>1, <2>1, <3>1 DEF SaysLines
    <2>4. QED BY <2>2, <2>3
  <1>5. QED BY <1>1, <1>4, StatusEnds

LEMMA StatusInsertOrder ==
    ASSUME PurchasingIndInv, StatusOK, NEW s \in Sessions, OthersQuiet(s), Ordering(session[s]),
           InsertOrder(s), received' = received, NEW p \in Orders
    PROVE  SaysLines(p)'
  <1>1. SaysLines(p) BY CompletedBy DEF Completes, Delivering, Ordering
  <1>2. CASE order[session[s].order] # "ABSENT"
    <2>1. UNCHANGED <<order, lines>> BY <1>2 DEF InsertOrder
    <2>2. QED BY <1>1, <2>1 DEF SaysLines
  <1>3. CASE order[session[s].order] = "ABSENT" /\ p = session[s].order
    <2>1. \A i \in LineNumbers : received[p][i] = 0
      BY <1>3 DEF PurchasingIndInv, NothingBeforeOrder
    <2>2. QED BY <2>1 DEF SaysLines
  <1>4. CASE order[session[s].order] = "ABSENT" /\ p # session[s].order
    <2>1. order'[p] = order[p] /\ lines'[p] = lines[p]
      BY <1>4 DEF InsertOrder, PurchasingIndInv, TypeOK
    <2>2. QED BY <1>1, <2>1 DEF SaysLines
  <1>5. QED BY <1>2, <1>3, <1>4

LEMMA StatusCreates ==
    ASSUME PurchasingIndInv, StatusOK, NEW s \in Sessions, OthersQuiet(s),
           MarkOrdered(s) \/ ReadToOrder(s) \/ CommitOrder(s)
    PROVE  StatusOK'
  <1>1. session[s] \in Session /\ Ordering(session[s])
    BY DEF MarkOrdered, ReadToOrder, CommitOrder, Ordering, At, PurchasingIndInv, TypeOK
  <1>2. CASE CommitOrder(s)
    <2>1. InsertOrder(s) /\ End(s) /\ received' = received BY <1>2 DEF CommitOrder
    <2>2. \A p \in Orders : SaysLines(p)' BY <1>1, <2>1, StatusInsertOrder
    <2>3. QED BY <2>1, <2>2, StatusEnds
  <1>3. CASE MarkOrdered(s)
    <2> DEFINE rest == session[s].todo \ {First(session[s].todo)}
               v    == [session[s] EXCEPT !.at = IF rest = {} THEN "commitOrder" ELSE "ordering",
                                          !.todo = rest]
    <2>1. InsertOrder(s) /\ Goto(s, v) /\ received' = received BY <1>3 DEF MarkOrdered
    <2>2. \A p \in Orders : SaysLines(p)' BY <1>1, <2>1, StatusInsertOrder
    <2> HIDE DEF rest
    <2>3. v.at = IF rest = {} THEN "commitOrder" ELSE "ordering" BY <1>1 DEF Session
    <2>4. v.at \in {"commitOrder", "ordering"} BY <2>3
    <2> HIDE DEF v
    <2>5. Decided(v, order', lines') BY <2>4 DEF Decided
    <2>6. QED BY <2>1, <2>2, <2>5, StatusAlone
  <1>4. CASE ReadToOrder(s)
    <2>1. UNCHANGED <<order, lines, received>> BY <1>4 DEF ReadToOrder
    <2>2. \A p \in Orders : ~Completes(session[s], p) BY <1>1 DEF Completes, Delivering, Ordering
    <2>3. CASE End(s) BY <2>1, <2>2, <2>3, StatusStops
    <2>4. CASE Goto(s, [session[s] EXCEPT !.at = "markOrdered"])
      <3> DEFINE v == [session[s] EXCEPT !.at = "markOrdered"]
      <3>1. Goto(s, v) /\ v.at = "markOrdered" BY <1>1, <2>4 DEF Session
      <3> HIDE DEF v
      <3>2. Decided(v, order, lines) BY <3>1 DEF Decided
      <3>3. QED BY <2>1, <2>2, <3>1, <3>2, StatusReads
    <2>5. QED BY <1>4, <2>3, <2>4 DEF ReadToOrder
  <1>5. QED BY <1>2, <1>3, <1>4

(* A receipt that has committed something is not refused any more. *)
LEMMA StatusReceiveLine ==
    ASSUME PurchasingIndInv, StatusOK, NEW s \in Sessions, OthersQuiet(s), ReceiveLine(s),
           ~StopsHalfWay(s)
    PROVE  StatusOK'
  <1> DEFINE item == Head(session[s].items)
             i    == item.line
             part == i \in PartLines(lines[session[s].order])
             v    == [session[s] EXCEPT
                        !.at = IF part THEN "post" ELSE "line",
                        !.items = IF part THEN session[s].items ELSE Tail(session[s].items),
                        !.view = [session[s].view EXCEPT ![i] = Seen(s, i) + item.quantity],
                        !.loaded = session[s].loaded \cup {i},
                        !.dirty = session[s].dirty \cup {i}]
  <1>1. At(s, "line") /\ UNCHANGED <<order, lines, received>> BY DEF ReceiveLine
  <1>2. session \in [Sessions -> Session] BY DEF PurchasingIndInv, TypeOK
  <1>3. CASE End(s)
    <2>1. session'[s].at = "done" BY <1>2, <1>3, IdleTyped DEF End, Goto, Session
    <2>2. session[s].from # "EXPIRED" BY <1>1, <2>1 DEF StopsHalfWay
    <2>3. \A p \in Orders : ~Completes(session[s], p) BY <1>1, <2>2 DEF Completes, At
    <2>4. QED BY <1>1, <1>3, <2>3, StatusStops
  <1>4. CASE Goto(s, v)
    <2> HIDE DEF item, i, part
    <2>1. /\ v.at = IF part THEN "post" ELSE "line"
          /\ v.from = session[s].from /\ v.order = session[s].order
      BY <1>2 DEF Session
    <2>2. v.at \in {"post", "line"} BY <2>1
    <2> HIDE DEF v
    <2>3. Decided(v, order, lines) BY <2>2 DEF Decided
    <2>4. \A p \in Orders : Completes(session[s], p) => Completes(v, p)
      BY <1>1, <2>1, <2>2 DEF Completes, Delivering, At
    <2>5. QED BY <1>1, <1>4, <2>3, <2>4, StatusReads
  <1>5. QED BY <1>3, <1>4 DEF ReceiveLine

LEMMA StatusDecide ==
    ASSUME PurchasingIndInv, StatusOK, NEW s \in Sessions, OthersQuiet(s), DecideStatus(s)
    PROVE  StatusOK'
  <1> DEFINE p    == session[s].order
             seen == [i \in LineNumbers |-> Seen(s, i)]
             from == IF session[s].from = "EXPIRED" THEN order[p] ELSE session[s].from
             to   == ReceivedStatus(lines[p], seen, from)
             todo == IF to = "RECEIVED" THEN LinkedLines(lines[p]) ELSE {}
             v    == [session[s] EXCEPT
                        !.at = "marking", !.from = from, !.to = to, !.view = seen,
                        !.loaded = LineNumbers, !.todo = todo]
  <1>1. At(s, "line") /\ Goto(s, v) /\ UNCHANGED <<order, lines, received>>
    BY DEF DecideStatus
  <1>2. session[s] \in Session BY DEF PurchasingIndInv, TypeOK
  <1>3. to = ReceivedStatus(lines[p], seen, from) OBVIOUS
  <1> HIDE DEF p, seen, from, to, todo
  <1>4. /\ v.at = "marking" /\ v.view = seen /\ v.loaded = LineNumbers /\ v.order = p
        /\ v.from = from /\ v.to = to
    BY <1>2 DEF Session, p
  <1> HIDE DEF v
  <1>5. Decided(v, order, lines) BY <1>3, <1>4 DEF Decided
  <1>6. \A q \in Orders : Completes(session[s], q) => Completes(v, q)
    BY <1>4 DEF Completes, Delivering, p
  <1>7. QED BY <1>1, <1>5, <1>6, StatusReads

LEMMA StatusReadToMark ==
    ASSUME PurchasingIndInv, StatusOK, NEW s \in Sessions, OthersQuiet(s), ReadToMark(s)
    PROVE  StatusOK'
  <1>1. At(s, "marking") /\ UNCHANGED <<order, lines, received>> BY DEF ReadToMark
  <1>2. session[s] \in Session /\ Decided(session[s], order, lines)
    BY DEF PurchasingIndInv, TypeOK, StatusOK, AllDecided
  <1>3. ASSUME NEW v, Goto(s, v), v.at \in {"marking", "markReceived"}, v.order = session[s].order,
               v.view = session[s].view, v.loaded = session[s].loaded,
               v.to = session[s].to, v.from = session[s].from
        PROVE  StatusOK'
    <2>1. Decided(v, order, lines) BY <1>1, <1>2, <1>3 DEF Decided, At
    <2>2. \A p \in Orders : Completes(session[s], p) => Completes(v, p)
      BY <1>3 DEF Completes, Delivering
    <2>3. QED BY <1>1, <1>3, <2>1, <2>2, StatusReads
  <1>4. CASE Goto(s, [session[s] EXCEPT !.at = "markReceived"])
    <2> DEFINE v == [session[s] EXCEPT !.at = "markReceived"]
    <2>1. /\ Goto(s, v) /\ v.at \in {"marking", "markReceived"} /\ v.order = session[s].order
          /\ v.view = session[s].view /\ v.loaded = session[s].loaded
          /\ v.to = session[s].to /\ v.from = session[s].from
      BY <1>2, <1>4 DEF Session
    <2> HIDE DEF v
    <2>2. QED BY <1>3, <2>1
  <1>5. CASE Goto(s, [session[s] EXCEPT !.todo = @ \ {First(@)}])
    <2> DEFINE v == [session[s] EXCEPT !.todo = @ \ {First(@)}]
    <2>1. /\ Goto(s, v) /\ v.at \in {"marking", "markReceived"} /\ v.order = session[s].order
          /\ v.view = session[s].view /\ v.loaded = session[s].loaded
          /\ v.to = session[s].to /\ v.from = session[s].from
      BY <1>1, <1>2, <1>5 DEF Session, At
    <2> HIDE DEF v
    <2>2. QED BY <1>3, <2>1
  <1>6. QED BY <1>4, <1>5 DEF ReadToMark

LEMMA StatusPostReceipt ==
    ASSUME PurchasingIndInv, StatusOK, NEW s \in Sessions, OthersQuiet(s), PostReceipt(s)
    PROVE  StatusOK'
  <1> DEFINE p == session[s].order
             v == [session[s] EXCEPT !.at = "line", !.items = Tail(session[s].items),
                                     !.from = "EXPIRED", !.loaded = {}, !.dirty = {}]
  <1>1. At(s, "post") /\ WriteLines(s) /\ Goto(s, v) /\ UNCHANGED <<order, lines>>
    BY DEF PostReceipt
  <1>2. session[s] \in Session BY DEF PurchasingIndInv, TypeOK
  <1>3. v.at = "line" /\ v.order = p /\ v.from = "EXPIRED" BY <1>2 DEF Session
  <1> HIDE DEF v
  <1>4. Decided(v, order', lines') BY <1>3 DEF Decided
  <1>5. Delivering(session[s]) BY <1>1 DEF Delivering, At
  <1>6. ASSUME NEW q \in Orders PROVE SaysLines(q)' \/ Completes(v, q)
    <2>1. CASE q = p BY <1>3, <2>1 DEF Completes, Delivering
    <2>2. CASE q # p
      <3>1. SaysLines(q) BY <2>2, CompletedBy DEF Completes
      <3>2. received'[q] = received[q] BY <1>1, <1>5, <2>2, WriteLinesByLine
      <3>3. QED BY <1>1, <3>1, <3>2 DEF SaysLines
    <2>3. QED BY <2>1, <2>2
  <1>7. QED BY <1>1, <1>4, <1>6, StatusAlone

(* The commit that follows the decision writes what the session has seen. *)
LEMMA ReceiptWritten ==
    ASSUME PurchasingIndInv, SerialOK, NEW s \in Sessions,
           At(s, "marking") \/ At(s, "markReceived"), WriteReceipt(s)
    PROVE  /\ session[s].order \in Orders /\ order'[session[s].order] = session[s].to
           /\ \A i \in session[s].loaded : received'[session[s].order][i] = session[s].view[i]
           /\ \A q \in Orders : q # session[s].order =>
                 received'[q] = received[q] /\ order'[q] = order[q]
  <1>1. session[s] \in Session /\ order \in [Orders -> OrderStatuses]
    BY DEF PurchasingIndInv, TypeOK
  <1>2. Delivering(session[s]) /\ WriteLines(s) BY DEF Delivering, At, WriteReceipt
  <1>3. /\ session[s].order \in Orders /\ session[s].to \in OrderStatuses
    BY <1>2 DEF PurchasingIndInv, SessionsHold, Holds, At
  <1>4. /\ \A i \in session[s].loaded \ session[s].dirty :
               session[s].view[i] = received[session[s].order][i]
        /\ session[s].from # "EXPIRED" => session[s].from = order[session[s].order]
    BY <1>2 DEF SerialOK, AllAgree, Agrees
  <1>5. session[s].loaded \subseteq LineNumbers BY <1>1 DEF Session
  <1>6. \A i \in session[s].loaded : received'[session[s].order][i] = session[s].view[i]
    BY <1>2, <1>4, <1>5, WriteLinesByLine
  <1>7. \A q \in Orders : q # session[s].order => received'[q] = received[q]
    BY <1>2, WriteLinesByLine
  <1>8. order' = IF session[s].to = session[s].from THEN order
                 ELSE [order EXCEPT ![session[s].order] = session[s].to]
    BY DEF WriteReceipt
  <1>9. \A q \in Orders : q # session[s].order => order'[q] = order[q]
    BY <1>1, <1>8
  <1>10. order'[session[s].order] = session[s].to
    <2>1. CASE session[s].to = session[s].from
      <3>1. session[s].from # "EXPIRED" BY <1>3, <2>1 DEF OrderStatuses
      <3>2. QED BY <1>4, <1>8, <2>1, <3>1
    <2>2. CASE session[s].to # session[s].from BY <1>1, <1>3, <1>8, <2>2
    <2>3. QED BY <2>1, <2>2
  <1>11. QED BY <1>3, <1>6, <1>7, <1>9, <1>10

LEMMA DecidedOnce ==
    ASSUME NEW ls, NEW seen, NEW from, NEW to, to = ReceivedStatus(ls, seen, from)
    PROVE  to = ReceivedStatus(ls, seen, to)
  BY DEF ReceivedStatus

LEMMA StatusMarkReceived ==
    ASSUME PurchasingIndInv, SerialOK, StatusOK, NEW s \in Sessions, OthersQuiet(s), MarkReceived(s)
    PROVE  StatusOK'
  <1> DEFINE v == [session[s] EXCEPT !.at = "marking", !.todo = @ \ {First(@)},
                                     !.from = session[s].to, !.dirty = {}]
  <1>1. At(s, "markReceived") /\ WriteReceipt(s) /\ Goto(s, v) /\ lines' = lines
    BY DEF MarkReceived
  <1>2. session[s] \in Session /\ Decided(session[s], order, lines)
    BY DEF PurchasingIndInv, TypeOK, StatusOK, AllDecided
  <1>3. /\ v.at = "marking" /\ v.order = session[s].order /\ v.view = session[s].view
        /\ v.loaded = session[s].loaded /\ v.to = session[s].to /\ v.from = session[s].to
    BY <1>2 DEF Session
  <1> HIDE DEF v
  <1>4. session[s].loaded = LineNumbers
        /\ session[s].to = ReceivedStatus(lines[session[s].order], session[s].view, session[s].from)
    BY <1>1, <1>2 DEF Decided, At
  <1>5. session[s].to = ReceivedStatus(lines[session[s].order], session[s].view, session[s].to)
    BY <1>4, DecidedOnce
  <1>6. Decided(v, order', lines') BY <1>1, <1>3, <1>4, <1>5 DEF Decided
  <1>7. ASSUME NEW q \in Orders PROVE SaysLines(q)' \/ Completes(v, q)
    <2>1. CASE q = session[s].order BY <1>3, <2>1 DEF Completes, Delivering
    <2>2. CASE q # session[s].order
      <3>1. SaysLines(q) BY <2>2, CompletedBy DEF Completes
      <3>2. received'[q] = received[q] /\ order'[q] = order[q] BY <1>1, <2>2, ReceiptWritten
      <3>3. QED BY <1>1, <3>1, <3>2 DEF SaysLines
    <2>3. QED BY <2>1, <2>2
  <1>8. QED BY <1>1, <1>6, <1>7, StatusAlone

LEMMA StatusCommitReceipt ==
    ASSUME PurchasingIndInv, SerialOK, StatusOK, NEW s \in Sessions, OthersQuiet(s), CommitReceipt(s)
    PROVE  StatusOK'
  <1> DEFINE p == session[s].order
  <1>1. At(s, "marking") /\ WriteReceipt(s) /\ End(s) /\ lines' = lines
    BY DEF CommitReceipt
  <1>2. /\ session[s].loaded = LineNumbers
        /\ session[s].to = ReceivedStatus(lines[p], session[s].view, session[s].from)
    BY <1>1 DEF StatusOK, AllDecided, Decided, At
  <1>3. p \in Orders /\ order'[p] = session[s].to
        /\ \A i \in LineNumbers : received'[p][i] = session[s].view[i]
    BY <1>1, <1>2, ReceiptWritten
  <1>4. ASSUME NEW q \in Orders PROVE SaysLines(q)'
    <2>1. CASE q = p BY <1>1, <1>2, <1>3, <2>1 DEF SaysLines, ReceivedStatus
    <2>2. CASE q # p
      <3>1. SaysLines(q) BY <2>2, CompletedBy DEF Completes
      <3>2. received'[q] = received[q] /\ order'[q] = order[q] BY <1>1, <2>2, ReceiptWritten
      <3>3. QED BY <1>1, <3>1, <3>2 DEF SaysLines
    <2>3. QED BY <2>1, <2>2
  <1>5. QED BY <1>1, <1>4, StatusEnds

LEMMA StatusContinue ==
    ASSUME PurchasingIndInv, SerialOK, StatusOK, NEW s \in Sessions, OthersQuiet(s),
           Continue(s), ~StopsHalfWay(s)
    PROVE  StatusOK'
  <1>1. CASE WriteRequest(s)
    <2>1. End(s) /\ UNCHANGED <<order, lines, received>> /\ session[s].at = "writeRequest"
      BY <1>1 DEF WriteRequest, At
    <2>2. \A p \in Orders : ~Completes(session[s], p) BY <2>1 DEF Completes, Delivering
    <2>3. QED BY <2>1, <2>2, StatusStops
  <1>2. CASE RefusePosting(s)
    <2>1. session'[s].at = "done" /\ At(s, "post")
      BY <1>2, IdleTyped DEF RefusePosting, End, Goto, Session, PurchasingIndInv, TypeOK
    <2>2. QED BY <2>1 DEF StopsHalfWay
  <1>3. QED
    BY <1>1, <1>2, StatusWriteOrder, StatusCreates, StatusReceiveLine, StatusPostReceipt,
       StatusDecide, StatusReadToMark, StatusMarkReceived, StatusCommitReceipt DEF Continue

LEMMA StatusRound ==
    ASSUME PurchasingIndInv, StatusOK, NextRound PROVE StatusOK'
  <1>1. /\ \A s \in Sessions : Quiet(session'[s]) /\ Quiet(session[s])
        /\ UNCHANGED <<order, lines, received>>
    BY RoundStarts DEF NextRound, Quiet, At
  <1>2. AllDecided' BY <1>1 DEF AllDecided, Decided, Quiet
  <1>3. \A p \in Orders : SaysLines(p)
    BY <1>1 DEF StatusOK, StatusKept, Completes, Delivering, Quiet
  <1>4. StatusKept' BY <1>1, <1>3 DEF StatusKept, SaysLines
  <1>5. QED BY <1>2, <1>4 DEF StatusOK

LEMMA StatusInitially == MCInit => StatusInv
  <1> SUFFICES ASSUME MCInit PROVE StatusOK
    BY DEF StatusInv
  <1>1. /\ session = [s \in Sessions |-> Idle] /\ received = [p \in Orders |-> Idle.view]
    BY DEF MCInit, Init
  <1>2. Idle.view = [i \in LineNumbers |-> 0] /\ Idle.at = "idle" BY DEF Idle
  <1>3. AllDecided BY <1>1, <1>2 DEF AllDecided, Decided
  <1>4. \A p \in Orders : \A i \in LineNumbers : received[p][i] = 0 BY <1>1, <1>2
  <1>5. StatusKept BY <1>4 DEF StatusKept, SaysLines
  <1>6. QED BY <1>3, <1>5 DEF StatusOK
-----------------------------------------------------------------------------
BuyingIndInv == MCIndInv /\ BuyingInv

LEMMA BuyingStep == BuyingIndInv /\ [MCNext]_mcvars => BuyingIndInv'
  <1> SUFFICES ASSUME BuyingIndInv, [MCNext]_mcvars, scenario' # "concurrent" PROVE BuyingOK'
    BY MCStep DEF BuyingIndInv, BuyingInv
  <1>1. scenario # "concurrent" BY DEF MCNext, mcvars
  <1>2. PurchasingIndInv /\ SerialOK /\ BuyingOK
    BY <1>1 DEF BuyingIndInv, MCIndInv, SerialInv, BuyingInv
  <1>3. CASE UNCHANGED mcvars
    <2>1. UNCHANGED <<request, order, lines, session, confirmed>> BY <1>3 DEF mcvars, vars
    <2>2. QED BY <1>2, <2>1 DEF BuyingOK, AllBuy, ConfirmedBought, ConfirmedOnce
  <1>4. CASE MCNext /\ NextRound BY <1>1, <1>2, <1>4, BuyingRound DEF MCNext
  <1>5. CASE MCNext /\ \E s \in Sessions : InTurn(s)
    <2>1. PICK s \in Sessions : InTurn(s) BY <1>5
    <2>2. OthersQuiet(s) BY <1>2, <2>1, InTurnAlone DEF SerialOK
    <2>3. QED BY <1>1, <1>2, <1>5, <2>1, <2>2, BuyingInTurn DEF MCNext
  <1>6. QED BY <1>1, <1>3, <1>4, <1>5 DEF MCNext

(* As long as creations do not overlap (purchase_order_service.
   create_purchase_order, procurement_service.mark_ordered), each of which may
   be refused, name a request twice or die between two of its commits, a
   request is on one line at most of the orders whose creation was carried to
   its end.                                                                 *)
THEOREM SerialRequestBoughtOnce == MCSpec => []RequestBoughtOnce
  <1>1. ASSUME BuyingIndInv, scenario # "concurrent", NEW r \in Requests
        PROVE  Cardinality({ l \in confirmed \X LineNumbers : lines[l[1]][l[2]].request = r }) <= 1
    <2> DEFINE S == { l \in confirmed \X LineNumbers : lines[l[1]][l[2]].request = r }
    <2>1. ConfirmedOnce BY <1>1 DEF BuyingIndInv, BuyingInv, BuyingOK
    <2>2. \A l \in S : l[1] \in confirmed /\ l[2] \in LinkedLines(lines[l[1]])
      BY PurchasingAssumption DEF LinkedLines
    <2>3. \A l, k \in S : l = k
      <3> TAKE l, k \in S
      <3>1. l[1] = k[1] /\ l[2] = k[2] BY <2>1, <2>2 DEF ConfirmedOnce
      <3>2. QED BY <3>1
    <2> HIDE DEF S
    <2>4. ASSUME S # {} PROVE \E l : S = {l}
      <3>1. PICK l : l \in S BY <2>4
      <3>2. S = {l} BY <2>3, <3>1
      <3>3. QED BY <3>2
    <2>5. Cardinality(S) = 0 \/ Cardinality(S) = 1
      BY <2>4, FS_EmptySet, FS_Singleton
    <2>6. QED BY <2>5 DEF S
  <1>2. BuyingIndInv => RequestBoughtOnce BY <1>1 DEF RequestBoughtOnce
  <1>3. MCInit => BuyingIndInv BY MCInitially, BuyingInitially DEF BuyingIndInv
  <1>4. QED BY <1>2, <1>3, BuyingStep, PTL DEF MCSpec
-----------------------------------------------------------------------------
SmoothIndInv == MCIndInv /\ StatusInv

LEMMA SmoothStep == SmoothIndInv /\ [MCNext]_mcvars => SmoothIndInv'
  <1> SUFFICES ASSUME SmoothIndInv, [MCNext]_mcvars, scenario' = "smooth" PROVE StatusOK'
    BY MCStep DEF SmoothIndInv, StatusInv
  <1>1. scenario = "smooth" BY DEF MCNext, mcvars
  <1>2. PurchasingIndInv /\ SerialOK /\ StatusOK
    BY <1>1 DEF SmoothIndInv, MCIndInv, SerialInv, StatusInv
  <1>3. CASE UNCHANGED mcvars
    <2>1. UNCHANGED <<order, lines, received, session>> BY <1>3 DEF mcvars, vars
    <2>2. QED BY <1>2, <2>1 DEF StatusOK, AllDecided, StatusKept, SaysLines
  <1>4. CASE NextRound BY <1>2, <1>4, StatusRound
  <1>5. CASE \E s \in Sessions : InTurn(s)
    <2>1. PICK s \in Sessions : InTurn(s) BY <1>5
    <2>2. OthersQuiet(s) BY <1>2, <2>1, InTurnAlone DEF SerialOK
    <2>3. Arrive(s) \/ (Continue(s) /\ ~StopsHalfWay(s)) BY <1>1, <2>1 DEF InTurn
    <2>4. QED BY <1>2, <2>2, <2>3, StatusArrive, StatusContinue
  <1>6. QED BY <1>1, <1>3, <1>4, <1>5 DEF MCNext

LEMMA SmoothInvariant == MCSpec => []SmoothIndInv
  <1>1. MCInit => SmoothIndInv BY MCInitially, StatusInitially DEF SmoothIndInv
  <1>2. QED BY <1>1, SmoothStep, PTL DEF MCSpec

(* Between operations that do not overlap and are not cut off half-way, the
   status of a delivered order says what its lines say (receiving_service:
   RECEIVED if all are complete, else PARTIALLY_RECEIVED), and an order with
   deliveries is in no other status, CANCELLED included.                    *)
THEOREM SmoothStatusMatchesLines == MCSpec => []StatusMatchesLines
  <1>1. ASSUME SmoothIndInv, scenario = "smooth", AllDone, NEW p \in Orders PROVE SaysLines(p)
    <2>1. StatusKept BY <1>1 DEF SmoothIndInv, StatusInv, StatusOK
    <2>2. \A s \in Sessions : ~Completes(session[s], p)
      BY <1>1 DEF AllDone, Completes, Delivering
    <2>3. QED BY <2>1, <2>2 DEF StatusKept
  <1>2. SmoothIndInv => StatusMatchesLines BY <1>1 DEF StatusMatchesLines, SaysLines
  <1>3. QED BY <1>2, SmoothInvariant, PTL
=============================================================================
