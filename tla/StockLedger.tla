---------------------------- MODULE StockLedger ----------------------------
(***************************************************************************)
(* What the inventory of one part promises: stock moves in atomic steps,   *)
(* each written in the ledger by its deltas and refused when it would not  *)
(* leave the stock covered; the only other way a quantity changes is a     *)
(* correction (a PATCH of the part), which the ledger does not see.        *)
(***************************************************************************)
EXTENDS Integers

CONSTANTS Deltas, Openings

VARIABLES stock, book

Quantities == {"onHand", "reserved", "quarantined"}

Plus(s, d) == [f \in Quantities |-> s[f] + d[f]]

Covers(s) == /\ \A f \in Quantities : s[f] >= 0
             /\ s["reserved"] + s["quarantined"] <= s["onHand"]

Init == stock \in Openings /\ book = [f \in Quantities |-> 0]

Move(d) == /\ Covers(Plus(stock, d))
           /\ stock' = Plus(stock, d)
           /\ book' = Plus(book, d)

Correct == /\ stock' \in [Quantities -> Nat]
           /\ stock'["quarantined"] = stock["quarantined"]
           /\ UNCHANGED book

Next == Correct \/ \E d \in Deltas : Move(d)

Spec == Init /\ [][Next]_<<stock, book>>
=============================================================================
