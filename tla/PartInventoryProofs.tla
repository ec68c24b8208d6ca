------------------------ MODULE PartInventoryProofs ------------------------
(***************************************************************************)
(* Theorems of PartInventory for every set of requests, movements, patches *)
(* and opening rows, checked by TLAPS; the last ones are about the serial  *)
(* histories of MCPartInventory.                                           *)
(***************************************************************************)
EXTENDS MCPartInventory, WellFoundedInduction, TLAPS

(* The unit of work puts values of the right types into a row. *)
LEMMA WriteChangedPart ==
    ASSUME NEW row \in Part, NEW loaded \in Part, NEW new \in Part
    PROVE  WriteChanged(row, loaded, new) \in Part
  BY DEF WriteChanged, Part

LEMMA WriteChangedNeed ==
    ASSUME NEW row \in Need, NEW loaded \in Need, NEW new \in Need
    PROVE  WriteChanged(row, loaded, new) \in Need
  BY DEF WriteChanged, Need

(* Writing onto the very row that was loaded writes the new row. *)
LEMMA WriteChangedLoaded ==
    ASSUME NEW row \in Part, NEW new \in Part
    PROVE  WriteChanged(row, row, new) = new
  BY DEF WriteChanged, Part

(* A movement that passes _apply_transaction's checks computes a row of
   natural quantities.                                                     *)
LEMMA MovedPart ==
    ASSUME NEW p \in Part, NEW d \in Delta, Covered(Moved(p, d))
    PROVE  /\ Moved(p, d) \in Part
           /\ \A f \in Quantities : Moved(p, d)[f] = p[f] + d[f]
           /\ Moved(p, d).serviceability = p.serviceability
  BY DEF Moved, Covered, Part, Delta, Quantities

LEMMA DerivedStatus ==
    ASSUME NEW n \in Need, NEW a \in Int
    PROVE  DeriveStatus(n, a) \in Statuses
  BY DEF DeriveStatus, Need, Statuses, Sticky

LEMMA SessionTyped ==
    ASSUME NEW phase \in Phases
    PROVE  Session(phase) \in SessionType /\ Session(phase).at = phase
  BY InventoryAssumption DEF Session, SessionType, NoMovement, NoPart, NoNeeds, NoBody, Part, Need, Bodies,
         Dispositions, Statuses, Sticky, Slots, InventoryAssumption

LEMMA MovementTyped ==
    ASSUME NEW m \in Movements \cup {NoMovement}
    PROVE  m \in Movement
  BY InventoryAssumption DEF InventoryAssumption, NoMovement, Movement, Delta

LEMMA RederivedTyped ==
    ASSUME NEW session \in SessionType
    PROVE  Rederived(session) \in [Slots -> Need]
  <1> SUFFICES ASSUME NEW s \in Slots, session.needs[s].status # "ABSENT"
               PROVE  [session.needs[s] EXCEPT !.status =
                         DeriveStatus(session.needs[s], Available(session.part))] \in Need
    BY DEF Rederived, SessionType
  <1>1. Available(session.part) \in Int
    BY DEF SessionType, Available, Part
  <1>2. session.needs[s] \in Need
    BY DEF SessionType
  <1> QED
    BY <1>1, <1>2, DerivedStatus DEF Need

LEMMA FulfilTyped ==
    ASSUME NEW n \in Need, NEW delta \in Nat, NEW a \in Int
    PROVE  Fulfil(n, delta, a) \in Need
  <1> DEFINE more == [n EXCEPT !.fulfilled = Least(n.required, n.fulfilled + delta)]
  <1>1. more \in Need
    BY DEF Need, Least
  <1>2. DeriveStatus(more, a) \in Statuses
    BY <1>1, DerivedStatus
  <1> QED
    BY <1>1, <1>2 DEF Fulfil, Need

(* PATCH bodies keep the columns' types. *)
LEMMA UpdatedPart ==
    ASSUME NEW p \in Part, NEW u \in PartPatches
    PROVE  /\ Updated(p, u) \in Part
           /\ Updated(p, u).quarantined = p.quarantined
           /\ Updated(p, u).serviceability = p.serviceability
  BY InventoryAssumption DEF InventoryAssumption, Updated, Part

LEMMA UpdatedNeed ==
    ASSUME NEW n \in Need, NEW u \in NeedPatches
    PROVE  /\ Updated(n, u) \in Need
           /\ n.status # "ABSENT" => Updated(n, u).status # "ABSENT"
  BY InventoryAssumption DEF InventoryAssumption, Updated, Need, Statuses, Sticky

LEMMA GotoTyped ==
    ASSUME req \in [Requests -> SessionType], PayloadOK, NEW r \in Requests,
           NEW session \in SessionType, Payload(session), Goto(r, session)
    PROVE  req' \in [Requests -> SessionType] /\ PayloadOK'
  BY DEF Goto, PayloadOK, Payload

LEMMA EndTyped ==
    ASSUME req \in [Requests -> SessionType], PayloadOK, NEW r \in Requests, End(r)
    PROVE  req' \in [Requests -> SessionType] /\ PayloadOK'
  <1>1. Session("done") \in SessionType /\ Session("done").at = "done"
    BY SessionTyped DEF Phases
  <1>2. Payload(Session("done"))
    BY <1>1 DEF Payload
  <1> QED
    BY <1>1, <1>2, GotoTyped DEF End

(* A request that arrives loads a well-typed session and commits nothing. *)
LEMMA ArriveTyped ==
    ASSUME TypeOK, PayloadOK, NEW r \in Requests, Arrive(r)
    PROVE  TypeOK' /\ PayloadOK'
  <1>1. /\ UNCHANGED <<part, ledger, need, history>>
        /\ rowLock' \in {r, rowLock}
    BY DEF Arrive, LockPart, ReadPartToPatch, ReadPartForNeed, ReadNeedToPatch
  <1> SUFFICES \E session \in SessionType : Payload(session) /\ Goto(r, session)
    BY <1>1, GotoTyped DEF TypeOK, history
  <1>2. CASE \E m \in Movements : LockPart(r, m)
    <2> PICK m \in Movements : LockPart(r, m)
      BY <1>2
    <2> DEFINE session == [Session("locked") EXCEPT !.move = m, !.part = part]
    <2>1. Session("locked") \in SessionType /\ Session("locked").at = "locked"
      BY SessionTyped DEF Phases
    <2>2. /\ [Session("locked") EXCEPT !.move = m] \in SessionType
          /\ [Session("locked") EXCEPT !.move = m].at = "locked"
          /\ [Session("locked") EXCEPT !.move = m].move = m
      BY <2>1 DEF SessionType
    <2>3. session \in SessionType /\ session.at = "locked" /\ session.move = m
      BY <2>2 DEF SessionType, TypeOK
    <2>4. Payload(session)
      BY <2>3 DEF Payload
    <2> QED
      BY <2>3, <2>4 DEF LockPart
  <1>3. CASE \E u \in PartPatches : ReadPartToPatch(r, u)
    <2> PICK u \in PartPatches : ReadPartToPatch(r, u)
      BY <1>3
    <2> DEFINE session == [Session("patchPart") EXCEPT !.part = part, !.updates = u]
    <2> DEFINE loaded == [Session("patchPart") EXCEPT !.part = part]
    <2>1. Session("patchPart") \in SessionType /\ Session("patchPart").at = "patchPart"
      BY SessionTyped DEF Phases
    <2>2. loaded \in SessionType /\ loaded.at = "patchPart"
      BY <2>1 DEF SessionType, TypeOK
    <2>3. session \in SessionType /\ session.at = "patchPart" /\ session.updates = u
      BY <2>2 DEF SessionType, Bodies
    <2>4. Payload(session)
      BY <2>3 DEF Payload
    <2> QED
      BY <2>3, <2>4 DEF ReadPartToPatch
  <1>4. CASE \E s \in Slots, q \in Required : ReadPartForNeed(r, s, q)
    <2> PICK s \in Slots, q \in Required : ReadPartForNeed(r, s, q)
      BY <1>4
    <2> DEFINE session == [Session("createNeed") EXCEPT !.part = part, !.slot = s,
                                                        !.updates = [required |-> q]]
    <2>1. s \in 0..NumSlots /\ q \in Nat
      BY InventoryAssumption DEF InventoryAssumption, Slots
    <2> DEFINE loaded  == [Session("createNeed") EXCEPT !.part = part]
               located == [loaded EXCEPT !.slot = s]
    <2> Session("createNeed") \in SessionType /\ Session("createNeed").at = "createNeed"
      BY SessionTyped DEF Phases
    <2>2. loaded \in SessionType /\ loaded.at = "createNeed"
      BY DEF SessionType, TypeOK
    <2>3. located \in SessionType /\ located.at = "createNeed" /\ located.slot = s
      BY <2>1, <2>2 DEF SessionType
    <2>4. /\ session \in SessionType /\ session.at = "createNeed" /\ session.slot = s
          /\ session.updates = [required |-> q]
      BY <2>3 DEF SessionType, Bodies
    <2>5. Payload(session)
      BY <2>1, <2>4 DEF Payload
    <2> QED
      BY <2>4, <2>5 DEF ReadPartForNeed
  <1>5. CASE \E s \in Slots, u \in NeedPatches : ReadNeedToPatch(r, s, u)
    <2> PICK s \in Slots, u \in NeedPatches : ReadNeedToPatch(r, s, u)
      BY <1>5
    <2> DEFINE phase == IF "status" \in DOMAIN u THEN "patchNeed" ELSE "patchNeedStatus"
               session == [Session(phase) EXCEPT !.needs = need, !.slot = s, !.updates = u]
    <2>1. s \in 0..NumSlots /\ phase \in Phases
      BY InventoryAssumption DEF InventoryAssumption, Slots, Phases
    <2> DEFINE loaded  == [Session(phase) EXCEPT !.needs = need]
               located == [loaded EXCEPT !.slot = s]
    <2> Session(phase) \in SessionType /\ Session(phase).at = phase
      BY <2>1, SessionTyped
    <2>2. loaded \in SessionType /\ loaded.at = phase
      BY DEF SessionType, TypeOK
    <2>3. located \in SessionType /\ located.at = phase /\ located.slot = s
      BY <2>1, <2>2 DEF SessionType
    <2>4. /\ session \in SessionType /\ session.at = phase /\ session.slot = s
          /\ session.updates = u
      BY <2>3 DEF SessionType, Bodies
    <2>5. Payload(session)
      BY <2>4 DEF Payload
    <2> QED
      BY <2>4, <2>5 DEF ReadNeedToPatch
  <1> QED
    BY <1>2, <1>3, <1>4, <1>5 DEF Arrive

LEMMA ContinueMovementTyped ==
    ASSUME TypeOK, PayloadOK, NEW r \in Requests,
           \/ ApplyMovement(r) \/ RejectMovement(r) \/ RefreshPart(r) \/ ReadNeeds(r)
           \/ RecomputeStatus(r) \/ SetServiceability(r)
    PROVE  TypeOK' /\ PayloadOK'
  <1>0. req[r] \in SessionType /\ req[r].move \in Movement
    BY MovementTyped DEF TypeOK, SessionType
  <1>1. CASE ApplyMovement(r)
    <2> DEFINE d       == req[r].move.delta
               session == [req[r] EXCEPT !.at = "committed"]
    <2>1. d \in Delta /\ req[r].part \in Part
      BY <1>0 DEF Movement, SessionType
    <2>2. part' \in Part
      BY <1>1, <2>1, MovedPart, WriteChangedPart DEF ApplyMovement, TypeOK
    <2>3. ledger' \in Delta
      BY <1>1, <2>1 DEF ApplyMovement, TypeOK, Moved, Delta, Quantities
    <2>4. session \in SessionType /\ Payload(session)
      BY <1>0 DEF SessionType, Phases, Payload
    <2> QED
      BY <1>1, <2>2, <2>3, <2>4, GotoTyped DEF ApplyMovement, TypeOK, history
  <1>2. CASE RejectMovement(r)
    BY <1>2, EndTyped DEF RejectMovement, TypeOK, history
  <1>3. CASE RefreshPart(r)
    <2> DEFINE refreshed == [req[r] EXCEPT !.at = "refreshed"]
               session   == [refreshed EXCEPT !.part = part]
    <2>1. refreshed \in SessionType /\ refreshed.at = "refreshed"
      BY <1>0 DEF SessionType, Phases
    <2>2. session \in SessionType /\ session.at = "refreshed"
      BY <2>1 DEF SessionType, TypeOK
    <2>3. Payload(session)
      BY <2>2 DEF Payload
    <2> QED
      BY <1>3, <2>2, <2>3, GotoTyped DEF RefreshPart, TypeOK, history
  <1>4. CASE ReadNeeds(r)
    <2> DEFINE moved   == [req[r] EXCEPT !.at = "rederive"]
               session == [moved EXCEPT !.needs = need]
    <2>1. moved \in SessionType /\ moved.at = "rederive"
      BY <1>0 DEF SessionType, Phases
    <2>2. session \in SessionType /\ session.at = "rederive"
      BY <2>1 DEF SessionType, TypeOK
    <2>3. Payload(session)
      BY <2>2 DEF Payload
    <2> QED
      BY <1>4, <2>2, <2>3, GotoTyped DEF ReadNeeds, TypeOK, history
  <1>5. CASE RecomputeStatus(r)
    <2> DEFINE new     == Rederived(req[r])
               next    == AfterRederive(req[r].move)
               moved   == [req[r] EXCEPT !.at = next]
               cleared == [moved EXCEPT !.needs = NoNeeds]
               session == [cleared EXCEPT !.expired = new # req[r].needs]
    <2>1. need' \in [Slots -> Need]
      BY <1>0, <1>5, RederivedTyped, WriteChangedNeed DEF RecomputeStatus, TypeOK, SessionType
    <2>2. CASE next = "done"
      BY <1>5, <2>1, <2>2, EndTyped DEF RecomputeStatus, TypeOK, history
    <2>3. CASE next # "done"
      <3>1. /\ moved \in SessionType /\ moved.at = next /\ moved.move = req[r].move
            /\ next \in {"allocate", "dispose"}
        BY <1>0, <2>3 DEF SessionType, Phases, AfterRederive
      <3>2. NoNeeds \in [Slots -> Need]
        BY DEF NoNeeds, Need
      <3>3. cleared \in SessionType /\ cleared.at = next /\ cleared.move = req[r].move
        BY <3>1, <3>2 DEF SessionType
      <3>4. session \in SessionType /\ session.at = next /\ session.move = req[r].move
        BY <3>3 DEF SessionType
      <3>5. Payload(session)
        BY <3>1, <3>4 DEF Payload, AfterRederive
      <3> QED
        BY <1>5, <2>1, <2>3, <3>4, <3>5, GotoTyped DEF RecomputeStatus, TypeOK, history
    <2> QED
      BY <2>2, <2>3
  <1>6. CASE SetServiceability(r)
    <2>1. req[r].move.disposition \in Dispositions
      BY <1>0, <1>6 DEF SetServiceability, PayloadOK, Payload, At, Movement
    <2>2. part' \in Part
      BY <1>6, <2>1 DEF SetServiceability, TypeOK, Part
    <2> QED
      BY <1>6, <2>2, EndTyped DEF SetServiceability, TypeOK, history
  <1> QED
    BY <1>1, <1>2, <1>3, <1>4, <1>5, <1>6

LEMMA ContinueNeedTyped ==
    ASSUME TypeOK, PayloadOK, NEW r \in Requests,
           \/ ReadNeedsToFulfil(r) \/ FulfilFromReceipt(r) \/ PatchPart(r)
           \/ CreateNeed(r) \/ DerivePatchStatus(r) \/ PatchNeed(r)
    PROVE  TypeOK' /\ PayloadOK'
  <1>0. /\ req[r] \in SessionType /\ req[r].move \in Movement
        /\ Available(part) \in Int /\ Available(req[r].part) \in Int
    BY MovementTyped DEF TypeOK, SessionType, Available, Part
  <1>1. CASE ReadNeedsToFulfil(r)
    <2> DEFINE moved   == [req[r] EXCEPT !.at = "allocating"]
               session == [moved EXCEPT !.needs = need]
    <2>1. moved \in SessionType /\ moved.at = "allocating"
      BY <1>0 DEF SessionType, Phases
    <2>2. session \in SessionType /\ session.at = "allocating"
      BY <2>1 DEF SessionType, TypeOK
    <2>3. Payload(session)
      BY <2>2 DEF Payload
    <2> QED
      BY <1>1, <2>2, <2>3, GotoTyped DEF ReadNeedsToFulfil, TypeOK, history
  <1>2. CASE FulfilFromReceipt(r)
    <2> DEFINE q == req[r].move.receipt
    <2>1. q \in Nat
      BY <1>0 DEF Movement
    <2>2. PICK left \in [0..NumSlots -> 0..q] :
             /\ Greedy(left, req[r].needs, q)
             /\ need' = [s \in Slots |->
                          IF left[s] = left[s-1] THEN need[s]
                          ELSE Fulfil(need[s], left[s-1] - left[s], Available(part))]
      BY <1>2 DEF FulfilFromReceipt
    <2>3. ASSUME NEW s \in Slots PROVE left[s-1] - left[s] \in Nat
      <3>1. left[s] \in Nat /\ left[s-1] \in Nat
        BY <2>1, InventoryAssumption DEF InventoryAssumption, Slots
      <3>2. left[s] = left[s-1] - Least(Outstanding(req[r].needs[s]), left[s-1])
        BY <2>2 DEF Greedy
      <3>3. Outstanding(req[r].needs[s]) \in Nat
        BY <1>0 DEF Outstanding, SessionType, Need
      <3> QED
        BY <3>1, <3>2, <3>3 DEF Least
    <2>4. need' \in [Slots -> Need]
      BY <1>0, <2>2, <2>3, FulfilTyped DEF TypeOK
    <2> QED
      BY <1>2, <2>1, <2>4, EndTyped DEF FulfilFromReceipt, TypeOK
  <1>3. CASE PatchPart(r)
    <2>1. req[r].part \in Part /\ req[r].updates \in PartPatches
      BY <1>0, <1>3 DEF PatchPart, PayloadOK, Payload, At, SessionType
    <2>2. part' \in Part
      BY <1>3, <2>1, UpdatedPart, WriteChangedPart DEF PatchPart, TypeOK
    <2>3. patched' \in BOOLEAN
      BY <1>3 DEF PatchPart, TypeOK
    <2> QED
      BY <1>3, <2>2, <2>3, EndTyped DEF PatchPart, TypeOK
  <1>4. CASE CreateNeed(r)
    <2> DEFINE new == [required |-> req[r].updates["required"], fulfilled |-> 0,
                       status |-> "REQUIRED"]
    <2>1. new \in Need
      BY <1>4 DEF CreateNeed, PayloadOK, Payload, At, Need, Statuses
    <2>2. DeriveStatus(new, Available(req[r].part)) \in Statuses
      BY <1>0, <2>1, DerivedStatus
    <2>3. [new EXCEPT !.status = DeriveStatus(new, Available(req[r].part))] \in Need
      BY <2>1, <2>2 DEF Need
    <2>4. need' \in [Slots -> Need]
      BY <1>4, <2>3 DEF CreateNeed, TypeOK
    <2> QED
      BY <1>4, <2>4, EndTyped DEF CreateNeed, TypeOK, history
  <1>5. ASSUME req[r].at \in {"patchNeed", "patchNeedStatus"}
        PROVE  /\ req[r].slot \in Slots /\ req[r].needs[req[r].slot] \in Need
               /\ Body(r) \in Need
    BY <1>0, <1>5, UpdatedNeed DEF PayloadOK, Payload, SessionType, Body
  <1>6. CASE DerivePatchStatus(r)
    <2> DEFINE derived == DeriveStatus(Body(r), Available(part))
               moved   == [req[r] EXCEPT !.at = "patchNeed"]
               session == [moved EXCEPT !.status = derived]
    <2>1. derived \in Statuses
      BY <1>0, <1>5, <1>6, DerivedStatus DEF DerivePatchStatus, At
    <2>2. /\ moved \in SessionType /\ moved.at = "patchNeed"
          /\ moved.slot = req[r].slot /\ moved.updates = req[r].updates
      BY <1>0 DEF SessionType, Phases
    <2>3. /\ session \in SessionType /\ session.at = "patchNeed"
          /\ session.slot = req[r].slot /\ session.updates = req[r].updates
      BY <2>1, <2>2 DEF SessionType
    <2>4. Payload(session)
      BY <1>6, <2>3 DEF DerivePatchStatus, PayloadOK, Payload, At
    <2> QED
      BY <1>6, <2>3, <2>4, GotoTyped DEF DerivePatchStatus, TypeOK, history
  <1>7. CASE PatchNeed(r)
    <2> DEFINE s   == req[r].slot
               new == IF "status" \in DOMAIN req[r].updates THEN Body(r)
                      ELSE [Body(r) EXCEPT !.status = req[r].status]
    <2>1. /\ s \in Slots /\ req[r].needs[s] \in Need /\ Body(r) \in Need
          /\ req[r].status \in Statuses \cup {"ABSENT"}
      BY <1>0, <1>5, <1>7 DEF PatchNeed, At, SessionType
    <2>2. new \in Need
      BY <2>1 DEF Need
    <2>3. WriteChanged(need[s], req[r].needs[s], new) \in Need
      BY <2>1, <2>2, WriteChangedNeed DEF TypeOK
    <2>4. need' \in [Slots -> Need]
      BY <1>7, <2>3 DEF PatchNeed, TypeOK
    <2> QED
      BY <1>7, <2>4, EndTyped DEF PatchNeed, TypeOK, history
  <1> QED
    BY <1>1, <1>2, <1>3, <1>4, <1>6, <1>7

(* The phases a session may go to without touching the row lock. *)
LEMMA GotoUnlocked ==
    ASSUME req \in [Requests -> SessionType], LockOK, NEW r \in Requests,
           NEW session, session.at # "locked", Goto(r, session),
           \/ ~At(r, "locked") /\ UNCHANGED rowLock /\ (rowLock = NoRequest \/ UNCHANGED part)
           \/ At(r, "locked") /\ rowLock' = NoRequest
    PROVE  LockOK'
  BY InventoryAssumption DEF InventoryAssumption, Goto, LockOK, At

LEMMA EndUnlocked ==
    ASSUME req \in [Requests -> SessionType], LockOK, NEW r \in Requests, End(r),
           \/ ~At(r, "locked") /\ UNCHANGED rowLock /\ (rowLock = NoRequest \/ UNCHANGED part)
           \/ At(r, "locked") /\ rowLock' = NoRequest
    PROVE  LockOK'
  <1> Session("done").at # "locked"
    BY SessionTyped DEF Phases
  <1> QED
    BY GotoUnlocked DEF End

LEMMA LockStep ==
    ASSUME TypeOK, LockOK, NEW r \in Requests, Arrive(r) \/ Continue(r) \/ Crash(r)
    PROVE  LockOK'
  <1> USE DEF TypeOK, At
  <1>0. /\ req[r] \in SessionType
        /\ \A f \in Phases : Session(f) \in SessionType /\ Session(f).at = f
    BY SessionTyped
  <1>1. CASE \E m \in Movements : LockPart(r, m)
    <2> PICK m \in Movements : LockPart(r, m)
      BY <1>1
    <2> DEFINE moved   == [Session("locked") EXCEPT !.move = m]
               session == [moved EXCEPT !.part = part]
    <2>1. moved \in SessionType /\ moved.at = "locked"
      BY <1>0, ZenonT(30) DEF SessionType, Phases
    <2>2. session.at = "locked" /\ session.part = part
      BY <2>1 DEF SessionType
    <2> QED
      BY <2>2, InventoryAssumption DEF InventoryAssumption, LockPart, Goto, LockOK
  <1>2. CASE \E u \in PartPatches : ReadPartToPatch(r, u)
    <2> PICK u \in PartPatches : ReadPartToPatch(r, u)
      BY <1>2
    <2> DEFINE loaded  == [Session("patchPart") EXCEPT !.part = part]
               session == [loaded EXCEPT !.updates = u]
    <2>1. loaded \in SessionType /\ loaded.at = "patchPart"
      BY <1>0, ZenonT(30) DEF SessionType, Phases
    <2>2. session.at = "patchPart"
      BY <2>1 DEF SessionType
    <2> QED
      BY <2>2, GotoUnlocked DEF ReadPartToPatch
  <1>3. CASE \E s \in Slots, q \in Required : ReadPartForNeed(r, s, q)
    <2> PICK s \in Slots, q \in Required : ReadPartForNeed(r, s, q)
      BY <1>3
    <2> DEFINE loaded  == [Session("createNeed") EXCEPT !.part = part]
               located == [loaded EXCEPT !.slot = s]
               session == [located EXCEPT !.updates = [required |-> q]]
    <2>1. loaded \in SessionType /\ loaded.at = "createNeed"
      BY <1>0, ZenonT(30) DEF SessionType, Phases
    <2>2. s \in 0..NumSlots
      BY InventoryAssumption DEF InventoryAssumption, Slots
    <2>3. located \in SessionType /\ located.at = "createNeed"
      BY <2>1, <2>2 DEF SessionType
    <2>4. session.at = "createNeed"
      BY <2>3 DEF SessionType
    <2> QED
      BY <2>4, GotoUnlocked DEF ReadPartForNeed
  <1>4. CASE \E s \in Slots, u \in NeedPatches : ReadNeedToPatch(r, s, u)
    <2> PICK s \in Slots, u \in NeedPatches : ReadNeedToPatch(r, s, u)
      BY <1>4
    <2> DEFINE phase == IF "status" \in DOMAIN u THEN "patchNeed" ELSE "patchNeedStatus"
               loaded  == [Session(phase) EXCEPT !.needs = need]
               located == [loaded EXCEPT !.slot = s]
               session == [located EXCEPT !.updates = u]
    <2>1. phase \in Phases /\ phase # "locked" /\ s \in 0..NumSlots
      BY InventoryAssumption DEF InventoryAssumption, Slots, Phases
    <2> HIDE DEF phase
    <2>2. loaded \in SessionType /\ loaded.at = phase
      BY <1>0, <2>1 DEF SessionType
    <2>3. located \in SessionType /\ located.at = phase
      BY <2>1, <2>2 DEF SessionType
    <2>4. session.at = phase
      BY <2>3 DEF SessionType
    <2>5. Goto(r, session) /\ ~At(r, "locked") /\ UNCHANGED <<rowLock, part>>
      BY DEF ReadNeedToPatch, phase
    <2> QED
      BY <2>1, <2>4, <2>5, GotoUnlocked
  <1>5. CASE ApplyMovement(r)
    <2> [req[r] EXCEPT !.at = "committed"].at = "committed"
      BY <1>0 DEF SessionType
    <2> QED
      BY <1>5, GotoUnlocked DEF ApplyMovement
  <1>6. CASE \/ RejectMovement(r) \/ SetServiceability(r) \/ PatchPart(r)
             \/ FulfilFromReceipt(r) \/ CreateNeed(r) \/ PatchNeed(r)
    BY <1>6, EndUnlocked
       DEF RejectMovement, SetServiceability, PatchPart, FulfilFromReceipt, CreateNeed, PatchNeed
  <1>7. CASE Crash(r)
    BY <1>7, EndUnlocked DEF Crash, LockOK
  <1>8. CASE \/ RefreshPart(r) \/ ReadNeeds(r) \/ ReadNeedsToFulfil(r) \/ DerivePatchStatus(r)
    <2> DEFINE to(phase) == [req[r] EXCEPT !.at = phase]
    <2>1. \A phase \in Phases : to(phase) \in SessionType /\ to(phase).at = phase
      BY <1>0 DEF SessionType
    <2>2. \A phase \in Phases \ {"locked"} :
             /\ [to(phase) EXCEPT !.part = part].at # "locked"
             /\ [to(phase) EXCEPT !.needs = need].at # "locked"
             /\ [to(phase) EXCEPT !.status = DeriveStatus(Body(r), Available(part))].at # "locked"
      BY <2>1 DEF SessionType
    <2>3. {"refreshed", "rederive", "allocating", "patchNeed"} \subseteq Phases \ {"locked"}
      BY DEF Phases
    <2> QED
      BY <1>8, <2>2, <2>3, GotoUnlocked
         DEF RefreshPart, ReadNeeds, ReadNeedsToFulfil, DerivePatchStatus
  <1>9. CASE RecomputeStatus(r)
    <2> DEFINE next    == AfterRederive(req[r].move)
               moved   == [req[r] EXCEPT !.at = next]
               cleared == [moved EXCEPT !.needs = NoNeeds]
               session == [cleared EXCEPT !.expired = Rederived(req[r]) # req[r].needs]
    <2>1. CASE next = "done"
      BY <1>9, <2>1, EndUnlocked DEF RecomputeStatus
    <2>2. CASE next # "done"
      <3>0. next \in Phases /\ next # "locked"
        BY <2>2 DEF Phases, AfterRederive
      <3> HIDE DEF next
      <3>1. moved \in SessionType /\ moved.at = next
        BY <1>0, <3>0 DEF SessionType
      <3>2. cleared \in SessionType /\ cleared.at = next
        BY <3>1 DEF SessionType, NoNeeds, Need
      <3>3. session.at = next
        BY <3>2 DEF SessionType
      <3>4. Goto(r, session) /\ ~At(r, "locked") /\ UNCHANGED <<rowLock, part>>
        BY <1>9, <2>2 DEF RecomputeStatus, next
      <3> QED
        BY <3>0, <3>3, <3>4, GotoUnlocked
    <2> QED
      BY <2>1, <2>2
  <1> QED
    BY <1>1, <1>2, <1>3, <1>4, <1>5, <1>6, <1>7, <1>8, <1>9 DEF Arrive, Continue

(* What a step does to the quantities: nothing, one covered movement recorded
   in the ledger by its deltas, or an unrecorded PATCH.                    *)
LEMMA QuantityStep ==
    ASSUME TypeOK, PayloadOK, LockOK, NEW r \in Requests,
           Arrive(r) \/ Continue(r) \/ Crash(r)
    PROVE  \/ /\ UNCHANGED <<ledger, opening, patched>>
              /\ \A f \in Quantities : part'[f] = part[f]
           \/ \E m \in Movements :
                 /\ \A f \in Quantities : part'[f] = part[f] + m.delta[f]
                 /\ ledger' = Moved(ledger, m.delta)
                 /\ Covered(part')
                 /\ UNCHANGED <<opening, patched>>
           \/ /\ UNCHANGED <<ledger, opening>>
              /\ part'["quarantined"] = part["quarantined"]
              /\ patched' = (patched \/ part' # part)
  <1>0. req[r] \in SessionType /\ req[r].move \in Movement
    BY MovementTyped DEF TypeOK, SessionType
  <1>1. CASE ApplyMovement(r)
    <2> DEFINE m == req[r].move
    <2>1. m \in Movements /\ m.delta \in Delta /\ req[r].part = part
      BY <1>0, <1>1 DEF ApplyMovement, PayloadOK, Payload, LockOK, At, Movement
    <2>2. Covered(Moved(part, m.delta))
      BY <1>1, <2>1 DEF ApplyMovement
    <2>3. /\ Moved(part, m.delta) \in Part
          /\ \A f \in Quantities : Moved(part, m.delta)[f] = part[f] + m.delta[f]
      BY <2>1, <2>2, MovedPart DEF TypeOK
    <2>4. part' = Moved(part, m.delta)
      BY <1>1, <2>1, <2>3, WriteChangedLoaded DEF ApplyMovement, TypeOK
    <2>5. /\ ledger' = Moved(ledger, m.delta)
          /\ UNCHANGED <<opening, patched>>
      BY <1>1 DEF ApplyMovement, history
    <2> QED
      BY <2>1, <2>2, <2>3, <2>4, <2>5
  <1>2. CASE SetServiceability(r)
    <2>1. /\ UNCHANGED <<ledger, opening, patched>>
          /\ part' = part \/ part' = [part EXCEPT !.serviceability = req[r].move.disposition]
      BY <1>2 DEF SetServiceability, history
    <2>2. \A f \in Quantities : part'[f] = part[f]
      BY <2>1 DEF TypeOK, Part, Quantities
    <2> QED
      BY <2>1, <2>2
  <1>3. CASE PatchPart(r)
    <2>1. req[r].part \in Part /\ req[r].updates \in PartPatches
      BY <1>0, <1>3 DEF PatchPart, PayloadOK, Payload, At, SessionType
    <2> DEFINE new == Updated(req[r].part, req[r].updates)
    <2>2. new \in Part /\ new.quarantined = req[r].part.quarantined
      BY <2>1, UpdatedPart
    <2>3. part'["quarantined"] = part["quarantined"]
      BY <1>3, <2>1, <2>2 DEF PatchPart, WriteChanged, TypeOK, Part
    <2> QED
      BY <1>3, <2>3 DEF PatchPart
  <1>4. CASE \/ Arrive(r) \/ Crash(r) \/ RejectMovement(r) \/ RefreshPart(r) \/ ReadNeeds(r)
             \/ RecomputeStatus(r) \/ ReadNeedsToFulfil(r) \/ FulfilFromReceipt(r)
             \/ CreateNeed(r) \/ DerivePatchStatus(r) \/ PatchNeed(r)
    <2>1. UNCHANGED <<part, ledger, opening, patched>>
      BY <1>4 DEF Arrive, LockPart, ReadPartToPatch, ReadPartForNeed, ReadNeedToPatch,
                  Crash, RejectMovement, RefreshPart, ReadNeeds, RecomputeStatus,
                  ReadNeedsToFulfil, FulfilFromReceipt, CreateNeed, DerivePatchStatus,
                  PatchNeed, history
    <2> QED
      BY <2>1
  <1> QED
    BY <1>1, <1>2, <1>3, <1>4 DEF Continue

LEMMA AccountsStep ==
    ASSUME InventoryInv, NEW r \in Requests, Arrive(r) \/ Continue(r) \/ Crash(r)
    PROVE  LedgerAccountsForPart' /\ StaysCovered'
  <1> USE DEF InventoryInv, LedgerAccountsForPart, StaysCovered
  <1>0. /\ \A f \in Quantities : part[f] \in Int /\ ledger[f] \in Int /\ opening[f] \in Int
        /\ patched \in BOOLEAN
    BY DEF TypeOK, Part, Delta, Quantities
  <1>1. CASE /\ UNCHANGED <<ledger, opening, patched>>
             /\ \A f \in Quantities : part'[f] = part[f]
    BY <1>1 DEF Covered, Quantities
  <1>2. CASE \E m \in Movements :
                 /\ \A f \in Quantities : part'[f] = part[f] + m.delta[f]
                 /\ ledger' = Moved(ledger, m.delta)
                 /\ Covered(part')
                 /\ UNCHANGED <<opening, patched>>
    <2> PICK m \in Movements :
                 /\ \A f \in Quantities : part'[f] = part[f] + m.delta[f]
                 /\ ledger' = Moved(ledger, m.delta)
                 /\ Covered(part')
                 /\ UNCHANGED <<opening, patched>>
      BY <1>2
    <2>1. \A f \in Quantities : m.delta[f] \in Int
      BY MovementTyped DEF Movement, Delta, Quantities
    <2>2. \A f \in Quantities : ledger'[f] = ledger[f] + m.delta[f]
      BY DEF Moved, TypeOK, Delta, Quantities
    <2> QED
      BY <1>0, <2>1, <2>2
  <1>3. CASE /\ UNCHANGED <<ledger, opening>>
             /\ part'["quarantined"] = part["quarantined"]
             /\ patched' = (patched \/ part' # part)
    BY <1>3
  <1> QED
    BY <1>1, <1>2, <1>3, QuantityStep

LEMMA InitInv == Init => InventoryInv
  <1> SUFFICES ASSUME Init PROVE InventoryInv
    OBVIOUS
  <1> USE InventoryAssumption DEF InventoryAssumption, Init
  <1>0. \A r \in Requests : req[r] \in SessionType /\ req[r].at = "idle"
    BY SessionTyped DEF Phases
  <1>1. NoMovement.delta \in Delta
    BY DEF NoMovement, Delta
  <1>2. TypeOK
    BY <1>0, <1>1 DEF TypeOK
  <1>3. PayloadOK
    BY <1>0 DEF PayloadOK, Payload
  <1>4. LockOK
    BY <1>0 DEF LockOK, At
  <1>5. LedgerAccountsForPart /\ StaysCovered
    BY DEF LedgerAccountsForPart, StaysCovered, NoMovement, Quantities, Part
  <1> QED
    BY <1>2, <1>3, <1>4, <1>5 DEF InventoryInv

LEMMA StepInv == InventoryInv /\ [Next]_vars => InventoryInv'
  <1> SUFFICES ASSUME InventoryInv, [Next]_vars PROVE InventoryInv'
    OBVIOUS
  <1>1. CASE UNCHANGED vars
    BY <1>1 DEF vars, InventoryInv, TypeOK, PayloadOK, LockOK, LedgerAccountsForPart,
                StaysCovered, At
  <1>2. CASE Next
    <2> PICK r \in Requests : Arrive(r) \/ Continue(r) \/ Crash(r)
      BY <1>2 DEF Next
    <2>1. TypeOK' /\ PayloadOK'
      <3>1. CASE Arrive(r)
        BY <3>1, ArriveTyped DEF InventoryInv
      <3>2. CASE Continue(r)
        BY <3>2, ContinueMovementTyped, ContinueNeedTyped DEF InventoryInv, Continue
      <3>3. CASE Crash(r)
        BY <3>3, EndTyped DEF InventoryInv, Crash, TypeOK, history
      <3> QED
        BY <3>1, <3>2, <3>3
    <2>2. LockOK'
      BY LockStep DEF InventoryInv
    <2>3. LedgerAccountsForPart' /\ StaysCovered'
      BY AccountsStep
    <2> QED
      BY <2>1, <2>2, <2>3 DEF InventoryInv
  <1> QED
    BY <1>1, <1>2

(* For every set of requests, movements, PATCH bodies and opening rows: types
   are kept, the lock holder's copy of the row is the row, the ledger
   accounts for the quantities and covered rows stay covered.              *)
THEOREM InventoryInvariant == Spec => []InventoryInv
  BY InitInv, StepInv, PTL DEF Spec

(* The ledger accounts for the row's quantities until somebody PATCHes one. *)
THEOREM LedgerAccounts == Spec => []LedgerAccountsForPart
  <1>1. InventoryInv => LedgerAccountsForPart
    BY DEF InventoryInv
  <1> QED
    BY <1>1, InventoryInvariant, PTL

(* Reserved plus quarantined stays within on hand until a PATCH. *)
THEOREM CoveredRows == Spec => []StaysCovered
  <1>1. InventoryInv => StaysCovered
    BY DEF InventoryInv
  <1> QED
    BY <1>1, InventoryInvariant, PTL

(* The stock of a movement's row is the abstract stock plus its deltas. *)
THEOREM RowLockImplementsStockLedger == Spec => ImplementsStockLedger
  <1>1. Init => Stock!Init
    <2> SUFFICES ASSUME Init PROVE Stock!Init
      OBVIOUS
    <2>1. StockOf(part) \in { StockOf(p) : p \in OpeningParts }
      BY DEF Init
    <2>2. StockOf(ledger) = [f \in Stock!Quantities |-> 0]
      BY DEF Init, StockOf, NoMovement, Quantities, Stock!Quantities
    <2> QED
      BY <2>1, <2>2 DEF Stock!Init
  <1>2. InventoryInv /\ InventoryInv' /\ [Next]_vars
          => [Stock!Next]_<<StockOf(part), StockOf(ledger)>>
    <2> SUFFICES ASSUME InventoryInv, InventoryInv', Next, NEW r \in Requests,
                        Arrive(r) \/ Continue(r) \/ Crash(r)
                 PROVE  \/ Stock!Next
                        \/ UNCHANGED <<StockOf(part), StockOf(ledger)>>
      BY DEF Next, vars, StockOf
    <2>1. CASE /\ UNCHANGED <<ledger, opening, patched>>
               /\ \A f \in Quantities : part'[f] = part[f]
      BY <2>1 DEF StockOf
    <2>2. CASE \E m \in Movements :
                 /\ \A f \in Quantities : part'[f] = part[f] + m.delta[f]
                 /\ ledger' = Moved(ledger, m.delta)
                 /\ Covered(part')
                 /\ UNCHANGED <<opening, patched>>
      <3> PICK m \in Movements :
                 /\ \A f \in Quantities : part'[f] = part[f] + m.delta[f]
                 /\ ledger' = Moved(ledger, m.delta)
                 /\ Covered(part')
                 /\ UNCHANGED <<opening, patched>>
        BY <2>2
      <3> DEFINE d == StockOf(m.delta)
      <3>1. StockOf(part') = Stock!Plus(StockOf(part), d)
        BY DEF StockOf, Stock!Plus, Stock!Quantities, Quantities
      <3>2. StockOf(ledger') = Stock!Plus(StockOf(ledger), d)
        BY DEF StockOf, Stock!Plus, Stock!Quantities, Quantities, Moved, InventoryInv,
               TypeOK, Delta
      <3>3. Stock!Covers(StockOf(part'))
        BY DEF Stock!Covers, Stock!Quantities, StockOf, Quantities, Covered
      <3>4. Stock!Move(d)
        BY <3>1, <3>2, <3>3 DEF Stock!Move, StockOf
      <3> QED
        BY <3>4 DEF Stock!Next
    <2>3. CASE /\ UNCHANGED <<ledger, opening>>
               /\ part'["quarantined"] = part["quarantined"]
               /\ patched' = (patched \/ part' # part)
      <3>1. StockOf(part') \in [Stock!Quantities -> Nat]
        BY DEF StockOf, Stock!Quantities, Quantities, InventoryInv, TypeOK, Part
      <3>2. StockOf(part')["quarantined"] = StockOf(part)["quarantined"]
        BY <2>3 DEF StockOf, Quantities
      <3>3. Stock!Correct
        BY <2>3, <3>1, <3>2 DEF Stock!Correct, StockOf
      <3> QED
        BY <3>3 DEF Stock!Next
    <2> QED
      BY <2>1, <2>2, <2>3, QuantityStep DEF InventoryInv
  <1> QED
    BY <1>1, <1>2, InventoryInvariant, PTL DEF Spec, ImplementsStockLedger, Stock!Spec
-----------------------------------------------------------------------------
(* Serial histories: one request at a time.  Statuses may be stale only when a
   re-derivation is owed, or between the commit of a movement and the
   re-derivation that the same request runs, and what the request has loaded
   is current.                                                             *)
Ended == {"idle", "done"}

Fresh(p, n) ==
    \A s \in Slots : n[s].status # "ABSENT" =>
        n[s].status = DeriveStatus(n[s], Available(p))

(* What a session q that runs alone knows of the part p and the needs n, when
   a re-derivation is owed (o) or not.                                     *)
Knows(q, p, n, o) ==
    /\ ~o /\ q.at \notin Ended \cup {"committed", "refreshed", "rederive"} => Fresh(p, n)
    /\ q.at \in {"refreshed", "rederive", "createNeed"} => q.part = p
    /\ q.at \in {"rederive", "allocating", "patchNeed", "patchNeedStatus"} => q.needs = n
    /\ q.at = "createNeed" => n[q.slot].status = "ABSENT"
    /\ q.at = "patchNeedStatus" => "status" \notin DOMAIN q.updates
    /\ q.at = "patchNeed" /\ "status" \notin DOMAIN q.updates =>
          q.status = DeriveStatus(Updated(q.needs[q.slot], q.updates), Available(p))

SerialInv ==
    scenario # "concurrent" =>
       /\ \A r, q \in Requests : req[r].at \notin Ended /\ req[q].at \notin Ended => r = q
       /\ AllDone /\ ~owed => Fresh(part, need)
       /\ \A r \in Requests : Knows(req[r], part, need, owed)

(* A step that derives nothing: after it a re-derivation is owed when one was,
   and when the step owes it.                                              *)
NothingOwed == ~owed' => ~owed /\ \A r \in Requests : ~Owes(r)

(* A status that was derived is derived again as it is. *)
LEMMA DerivedStays ==
    ASSUME NEW n \in Need, NEW a \in Int, NEW d, d = DeriveStatus(n, a)
    PROVE  DeriveStatus([n EXCEPT !.status = d], a) = d
  BY DEF DeriveStatus, Need, Sticky

LEMMA WriteChangedNeedLoaded ==
    ASSUME NEW row \in Need, NEW new \in Need
    PROVE  WriteChanged(row, row, new) = new
  BY DEF WriteChanged, Need

(* The only request that runs goes on, ends or arrives. *)
LEMMA OneRuns ==
    ASSUME SerialInv, scenario # "concurrent", scenario' = scenario,
           req \in [Requests -> SessionType], NEW r \in Requests, NEW session,
           req[r].at \notin Ended \/ AllDone,
           Goto(r, session), Knows(session, part', need', owed'),
           session.at \in Ended /\ ~owed' => Fresh(part', need')
    PROVE  SerialInv'
  <1>1. ASSUME NEW q \in Requests, q # r PROVE req'[q] = req[q] /\ req[q].at \in Ended
    BY <1>1 DEF Goto, SerialInv, AllDone, Ended
  <1>2. req'[r] = session
    BY DEF Goto
  <1>3. \A q \in Requests : Knows(req'[q], part', need', owed')
    BY <1>1, <1>2 DEF Knows, Ended
  <1>4. AllDone' /\ ~owed' => Fresh(part', need')
    BY <1>2 DEF AllDone, Ended
  <1> QED
    BY <1>1, <1>3, <1>4 DEF SerialInv

LEMMA OneEnds ==
    ASSUME SerialInv, scenario # "concurrent", scenario' = scenario,
           req \in [Requests -> SessionType], NEW r \in Requests,
           req[r].at \notin Ended, End(r), ~owed' => Fresh(part', need')
    PROVE  SerialInv'
  <1>1. Session("done").at = "done"
    BY DEF Session
  <1>2. Knows(Session("done"), part', need', owed')
    BY <1>1 DEF Knows, Ended
  <1> QED
    BY <1>2, OneRuns DEF End

(* A request arrives when the others have ended, and loads current rows. *)
LEMMA ArrivesAlone ==
    ASSUME InventoryInv, SerialInv, scenario # "concurrent", scenario' = scenario,
           NothingOwed, NEW r \in Requests, AllDone, Arrive(r)
    PROVE  SerialInv'
  <1>0. /\ req \in [Requests -> SessionType] /\ (~owed' => Fresh(part, need))
        /\ part \in Part /\ need \in [Slots -> Need]
    BY DEF InventoryInv, TypeOK, SerialInv, NothingOwed
  <1> SUFFICES \E session : /\ Goto(r, session) /\ Knows(session, part', need', owed')
                            /\ session.at \notin Ended
    BY <1>0, OneRuns
  <1>1. CASE \E m \in Movements : LockPart(r, m)
    <2> PICK m \in Movements : LockPart(r, m)
      BY <1>1
    <2> DEFINE session == [Session("locked") EXCEPT !.move = m, !.part = part]
    <2>1. session.at = "locked"
      BY DEF Session
    <2>2. Goto(r, session) /\ part' = part /\ need' = need
      BY DEF LockPart
    <2> HIDE DEF session
    <2> QED
      BY <1>0, <2>1, <2>2 DEF Knows, Ended
  <1>2. CASE \E u \in PartPatches : ReadPartToPatch(r, u)
    <2> PICK u \in PartPatches : ReadPartToPatch(r, u)
      BY <1>2
    <2> DEFINE session == [Session("patchPart") EXCEPT !.part = part, !.updates = u]
    <2>1. session.at = "patchPart"
      BY DEF Session
    <2>2. Goto(r, session) /\ part' = part /\ need' = need
      BY DEF ReadPartToPatch
    <2> HIDE DEF session
    <2> QED
      BY <1>0, <2>1, <2>2 DEF Knows, Ended
  <1>3. CASE \E s \in Slots, q \in Required : ReadPartForNeed(r, s, q)
    <2> PICK s \in Slots, q \in Required : ReadPartForNeed(r, s, q)
      BY <1>3
    <2> DEFINE session == [Session("createNeed") EXCEPT !.part = part, !.slot = s,
                                                        !.updates = [required |-> q]]
    <2>1. session.at = "createNeed" /\ session.part = part /\ session.slot = s
      BY DEF Session
    <2>2. Goto(r, session) /\ part' = part /\ need' = need /\ ~Taken(s)
      BY InventoryAssumption DEF ReadPartForNeed, InventoryAssumption, Slots
    <2>3. need[s].status = "ABSENT"
      BY <2>2 DEF Taken
    <2> HIDE DEF session
    <2> QED
      BY <1>0, <2>1, <2>2, <2>3 DEF Knows, Ended
  <1>4. CASE \E s \in Slots, u \in NeedPatches : ReadNeedToPatch(r, s, u)
    <2> PICK s \in Slots, u \in NeedPatches : ReadNeedToPatch(r, s, u)
      BY <1>4
    <2> DEFINE phase == IF "status" \in DOMAIN u THEN "patchNeed" ELSE "patchNeedStatus"
               session == [Session(phase) EXCEPT !.needs = need, !.slot = s, !.updates = u]
    <2>1. session.at = phase /\ session.needs = need /\ session.updates = u
      BY DEF Session
    <2>2. Goto(r, session) /\ part' = part /\ need' = need
      BY DEF ReadNeedToPatch
    <2> HIDE DEF session
    <2>3. CASE "status" \in DOMAIN u
      BY <1>0, <2>1, <2>2, <2>3 DEF Knows, Ended
    <2>4. CASE "status" \notin DOMAIN u
      BY <1>0, <2>1, <2>2, <2>4 DEF Knows, Ended
    <2> QED
      BY <2>3, <2>4
  <1> QED
    BY <1>1, <1>2, <1>3, <1>4 DEF Arrive

(* A re-derivation makes every status current, whatever was owed. *)
LEMMA RederivesAlone ==
    ASSUME InventoryInv, SerialInv, scenario # "concurrent", scenario' = scenario,
           NEW r \in Requests, RecomputeStatus(r)
    PROVE  SerialInv'
  <1>0. /\ req \in [Requests -> SessionType] /\ req[r] \in SessionType
        /\ part \in Part /\ need \in [Slots -> Need] /\ Knows(req[r], part, need, owed)
    BY DEF InventoryInv, TypeOK, SerialInv
  <1> DEFINE new  == Rederived(req[r])
             next == AfterRederive(req[r].move)
             session == [req[r] EXCEPT !.at = next, !.needs = NoNeeds,
                                       !.expired = new # req[r].needs]
  <1>1. req[r].at = "rederive" /\ part' = part
    BY DEF RecomputeStatus, At
  <1>2. req[r].part = part /\ req[r].needs = need
    BY <1>0, <1>1 DEF Knows
  <1>3. Available(part) \in Int
    BY <1>0 DEF Available, Part
  <1>4. new \in [Slots -> Need]
    BY <1>0, RederivedTyped
  <1>5. need' = new
    BY <1>0, <1>2, <1>4, WriteChangedNeedLoaded DEF RecomputeStatus
  <1>6. ASSUME NEW s \in Slots, new[s].status # "ABSENT"
        PROVE  new[s].status = DeriveStatus(new[s], Available(part))
    <2>1. need[s] \in Need
      BY <1>0
    <2>2. CASE need[s].status = "ABSENT"
      BY <1>2, <1>6, <2>2 DEF Rederived
    <2>3. CASE need[s].status # "ABSENT"
      <3> DEFINE d == DeriveStatus(need[s], Available(part))
      <3>1. new[s] = [need[s] EXCEPT !.status = d]
        BY <1>2, <2>3 DEF Rederived
      <3> HIDE DEF d
      <3>2. new[s].status = d
        BY <2>1, <3>1 DEF Need
      <3> QED
        BY <1>3, <2>1, <3>1, <3>2, DerivedStays DEF d
    <2> QED
      BY <2>2, <2>3
  <1>7. Fresh(part', need')
    BY <1>1, <1>5, <1>6 DEF Fresh
  <1>8. CASE next = "done"
    BY <1>0, <1>1, <1>7, <1>8, OneEnds DEF RecomputeStatus, Ended
  <1>9. CASE next # "done"
    <2>1. session.at = next /\ next \in {"allocate", "dispose"}
      BY <1>0, <1>9 DEF SessionType, AfterRederive
    <2>2. Goto(r, session)
      BY <1>9 DEF RecomputeStatus
    <2> HIDE DEF session, next
    <2>3. Knows(session, part', need', owed') /\ session.at \notin Ended
      BY <1>7, <2>1 DEF Knows, Ended
    <2> QED
      BY <1>0, <1>1, <2>2, <2>3, OneRuns DEF Ended
  <1> QED
    BY <1>8, <1>9

(* The other steps of a movement: what they make stale is derived again. *)
LEMMA MovesAlone ==
    ASSUME InventoryInv, SerialInv, scenario # "concurrent", scenario' = scenario,
           NothingOwed, NEW r \in Requests,
           \/ ApplyMovement(r) \/ RejectMovement(r) \/ RefreshPart(r) \/ ReadNeeds(r)
           \/ SetServiceability(r)
    PROVE  SerialInv'
  <1>0. /\ req \in [Requests -> SessionType] /\ req[r] \in SessionType
        /\ part \in Part /\ need \in [Slots -> Need] /\ Knows(req[r], part, need, owed)
    BY DEF InventoryInv, TypeOK, SerialInv
  <1>1. CASE ApplyMovement(r)
    <2> DEFINE session == [req[r] EXCEPT !.at = "committed"]
    <2>1. session.at = "committed"
      BY <1>0 DEF SessionType
    <2>2. req[r].at = "locked" /\ Goto(r, session)
      BY <1>1 DEF ApplyMovement, At
    <2> HIDE DEF session
    <2>3. Knows(session, part', need', owed')
      BY <2>1 DEF Knows, Ended
    <2> QED
      BY <1>0, <2>1, <2>2, <2>3, OneRuns DEF Ended
  <1>2. CASE RejectMovement(r)
    <2>1. req[r].at = "locked" /\ End(r) /\ part' = part /\ need' = need
      BY <1>2 DEF RejectMovement, At
    <2>2. ~owed' => Fresh(part, need)
      BY <1>0, <2>1 DEF Knows, Ended, NothingOwed
    <2> QED
      BY <1>0, <2>1, <2>2, OneEnds DEF Ended
  <1>3. CASE RefreshPart(r)
    <2> DEFINE session == [req[r] EXCEPT !.at = "refreshed", !.part = part]
    <2>1. session.at = "refreshed" /\ session.part = part
      BY <1>0 DEF SessionType
    <2>2. req[r].at = "committed" /\ Goto(r, session) /\ part' = part /\ need' = need
      BY <1>3 DEF RefreshPart, At
    <2> HIDE DEF session
    <2>3. Knows(session, part', need', owed')
      BY <2>1, <2>2 DEF Knows, Ended
    <2> QED
      BY <1>0, <2>1, <2>2, <2>3, OneRuns DEF Ended
  <1>4. CASE ReadNeeds(r)
    <2> DEFINE session == [req[r] EXCEPT !.at = "rederive", !.needs = need]
    <2>1. session.at = "rederive" /\ session.needs = need /\ session.part = req[r].part
      BY <1>0 DEF SessionType
    <2>2. req[r].at = "refreshed" /\ Goto(r, session) /\ part' = part /\ need' = need
      BY <1>4 DEF ReadNeeds, At
    <2>3. req[r].part = part
      BY <1>0, <2>2 DEF Knows
    <2> HIDE DEF session
    <2>4. Knows(session, part', need', owed')
      BY <2>1, <2>2, <2>3 DEF Knows, Ended
    <2> QED
      BY <1>0, <2>1, <2>2, <2>4, OneRuns DEF Ended
  <1>5. CASE SetServiceability(r)
    <2>1. req[r].at = "dispose" /\ End(r) /\ need' = need
      BY <1>5 DEF SetServiceability, At
    <2>2. Available(part') = Available(part)
      BY <1>0, <1>5 DEF SetServiceability, Available, Part
    <2>3. ~owed' => Fresh(part, need)
      BY <1>0, <2>1 DEF Knows, Ended, NothingOwed
    <2>4. ~owed' => Fresh(part', need')
      BY <2>1, <2>2, <2>3 DEF Fresh
    <2> QED
      BY <1>0, <2>1, <2>4, OneEnds DEF Ended
  <1> QED
    BY <1>1, <1>2, <1>3, <1>4, <1>5

(* A receipt that is put to the account of a requirement leaves it derived. *)
LEMMA FulfilDerives ==
    ASSUME NEW n \in Need, NEW delta \in Nat, NEW a \in Int
    PROVE  Fulfil(n, delta, a).status = DeriveStatus(Fulfil(n, delta, a), a)
  <1> DEFINE more == [n EXCEPT !.fulfilled = Least(n.required, n.fulfilled + delta)]
             d == DeriveStatus(more, a)
  <1>1. more \in Need
    BY DEF Need, Least
  <1>2. Fulfil(n, delta, a) = [more EXCEPT !.status = d]
    BY DEF Fulfil
  <1> HIDE DEF more
  <1>3. DeriveStatus([more EXCEPT !.status = d], a) = d
    BY <1>1, DerivedStays
  <1>4. [more EXCEPT !.status = d].status = d
    BY <1>1 DEF Need
  <1> QED
    BY <1>2, <1>3, <1>4

(* What a receipt does to the requirements, read when it stood alone. *)
LEMMA AllocatesAlone ==
    ASSUME InventoryInv, NEW r \in Requests, FulfilFromReceipt(r), req[r].needs = need,
           NEW s \in Slots
    PROVE  \/ need'[s] = need[s]
           \/ /\ need[s].status \notin Settled
              /\ \E delta \in Nat : need'[s] = Fulfil(need[s], delta, Available(part))
  <1>0. req[r] \in SessionType /\ req[r].move \in Movement
    BY MovementTyped DEF InventoryInv, TypeOK, SessionType
  <1> DEFINE q == req[r].move.receipt
  <1>1. q \in Nat
    BY <1>0 DEF Movement
  <1>2. PICK left \in [0..NumSlots -> 0..q] :
           /\ Greedy(left, need, q)
           /\ need' = [t \in Slots |->
                        IF left[t] = left[t-1] THEN need[t]
                        ELSE Fulfil(need[t], left[t-1] - left[t], Available(part))]
    BY DEF FulfilFromReceipt
  <1>3. left[s] \in Nat /\ left[s-1] \in Nat
    BY <1>1, InventoryAssumption DEF InventoryAssumption, Slots
  <1>4. left[s] = left[s-1] - Least(Outstanding(need[s]), left[s-1])
    BY <1>2 DEF Greedy
  <1>5. need[s] \in Need
    BY DEF InventoryInv, TypeOK
  <1>6. Outstanding(need[s]) \in Nat /\ (need[s].status \in Settled => Outstanding(need[s]) = 0)
    BY <1>5 DEF Outstanding, Need
  <1> QED
    BY <1>2, <1>3, <1>4, <1>6 DEF Least

LEMMA NeedsAlone ==
    ASSUME InventoryInv, SerialInv, scenario # "concurrent", scenario' = scenario,
           NothingOwed, NEW r \in Requests,
           \/ ReadNeedsToFulfil(r) \/ FulfilFromReceipt(r) \/ PatchPart(r)
           \/ CreateNeed(r) \/ DerivePatchStatus(r) \/ PatchNeed(r)
    PROVE  SerialInv'
  <1>0. /\ req \in [Requests -> SessionType] /\ req[r] \in SessionType
        /\ part \in Part /\ need \in [Slots -> Need] /\ Knows(req[r], part, need, owed)
        /\ Payload(req[r]) /\ Available(part) \in Int
    BY DEF InventoryInv, TypeOK, PayloadOK, SerialInv, Available, Part
  <1>1. CASE ReadNeedsToFulfil(r)
    <2> DEFINE session == [req[r] EXCEPT !.at = "allocating", !.needs = need]
    <2>1. session.at = "allocating" /\ session.needs = need
      BY <1>0 DEF SessionType
    <2>2. req[r].at = "allocate" /\ Goto(r, session) /\ part' = part /\ need' = need
      BY <1>1 DEF ReadNeedsToFulfil, At
    <2>3. ~owed' => Fresh(part, need)
      BY <1>0, <2>2 DEF Knows, Ended, NothingOwed
    <2> HIDE DEF session
    <2>4. Knows(session, part', need', owed')
      BY <2>1, <2>2, <2>3 DEF Knows, Ended
    <2> QED
      BY <1>0, <2>1, <2>2, <2>4, OneRuns DEF Ended
  <1>2. CASE FulfilFromReceipt(r)
    <2>1. req[r].at = "allocating" /\ End(r) /\ part' = part
      BY <1>2 DEF FulfilFromReceipt, At
    <2>2. req[r].needs = need /\ (~owed' => Fresh(part, need))
      BY <1>0, <2>1 DEF Knows, Ended, NothingOwed
    <2>3. ASSUME ~owed', NEW s \in Slots, need'[s].status # "ABSENT"
          PROVE  need'[s].status = DeriveStatus(need'[s], Available(part))
      <3>1. CASE need'[s] = need[s]
        BY <2>2, <2>3, <3>1 DEF Fresh
      <3>2. CASE \E delta \in Nat : need'[s] = Fulfil(need[s], delta, Available(part))
        BY <1>0, <3>2, FulfilDerives
      <3> QED
        BY <1>2, <2>2, <3>1, <3>2, AllocatesAlone
    <2>4. ~owed' => Fresh(part', need')
      BY <2>1, <2>3 DEF Fresh
    <2> QED
      BY <1>0, <2>1, <2>4, OneEnds DEF Ended
  <1>3. CASE PatchPart(r)
    <2>1. req[r].at = "patchPart" /\ End(r) /\ need' = need
      BY <1>3 DEF PatchPart, At
    <2>2. ~owed' => Fresh(part, need) /\ Available(part') = Available(part)
      BY <1>0, <2>1 DEF Knows, Ended, NothingOwed, Owes, At
    <2>3. ~owed' => Fresh(part', need')
      BY <2>1, <2>2 DEF Fresh
    <2> QED
      BY <1>0, <2>1, <2>3, OneEnds DEF Ended
  <1>4. CASE CreateNeed(r)
    <2> DEFINE new == [required |-> req[r].updates["required"], fulfilled |-> 0,
                       status |-> "REQUIRED"]
               d == DeriveStatus(new, Available(part))
               row == [new EXCEPT !.status = d]
    <2>1. req[r].at = "createNeed" /\ End(r) /\ part' = part
      BY <1>4 DEF CreateNeed, At
    <2>2. req[r].part = part /\ (~owed' => Fresh(part, need)) /\ req[r].slot \in Slots
      BY <1>0, <2>1 DEF Knows, Ended, Payload, NothingOwed
    <2>3. new \in Need
      BY <1>0, <2>1 DEF Payload, Need, Statuses
    <2>4. need' = [need EXCEPT ![req[r].slot] = row]
      BY <1>4, <2>2 DEF CreateNeed
    <2> HIDE DEF new
    <2>5. row.status = DeriveStatus(row, Available(part))
      <3>1. row.status = d
        BY <2>3 DEF Need
      <3> QED
        BY <1>0, <2>3, <3>1, DerivedStays
    <2> HIDE DEF row
    <2>6. ~owed' => Fresh(part', need')
      BY <1>0, <2>1, <2>2, <2>4, <2>5 DEF Fresh
    <2> QED
      BY <1>0, <2>1, <2>6, OneEnds DEF Ended
  <1>5. CASE DerivePatchStatus(r)
    <2> DEFINE d == DeriveStatus(Body(r), Available(part))
               session == [req[r] EXCEPT !.at = "patchNeed", !.status = d]
    <2>1. /\ session.at = "patchNeed" /\ session.status = d /\ session.needs = req[r].needs
          /\ session.updates = req[r].updates /\ session.slot = req[r].slot
      BY <1>0 DEF SessionType
    <2>2. req[r].at = "patchNeedStatus" /\ Goto(r, session) /\ part' = part /\ need' = need
      BY <1>5 DEF DerivePatchStatus, At
    <2>3. /\ ~owed' => Fresh(part, need)
          /\ req[r].needs = need /\ "status" \notin DOMAIN req[r].updates
      BY <1>0, <2>2 DEF Knows, Ended, NothingOwed
    <2>4. d = DeriveStatus(Updated(req[r].needs[req[r].slot], req[r].updates), Available(part))
      BY DEF Body
    <2> HIDE DEF session, d
    <2>5. Knows(session, part', need', owed')
      BY <2>1, <2>2, <2>3, <2>4 DEF Knows, Ended
    <2> QED
      BY <1>0, <2>1, <2>2, <2>5, OneRuns DEF Ended
  <1>6. CASE PatchNeed(r)
    <2> DEFINE s   == req[r].slot
               u   == req[r].updates
               a   == Available(part)
               row == IF "status" \in DOMAIN u THEN Body(r)
                      ELSE [Body(r) EXCEPT !.status = req[r].status]
    <2>1. req[r].at = "patchNeed" /\ End(r) /\ part' = part
      BY <1>6 DEF PatchNeed, At
    <2>2. /\ req[r].needs = need /\ s \in Slots /\ u \in NeedPatches
          /\ "status" \notin DOMAIN u => req[r].status = DeriveStatus(Updated(need[s], u), a)
      BY <1>0, <2>1 DEF Knows, Payload
    <2> SUFFICES ASSUME ~owed' PROVE Fresh(part', need')
      BY <1>0, <2>1, OneEnds DEF Ended
    <2>3. Fresh(part, need) /\ (u \in Overrides => need' = need)
      BY <1>0, <2>1 DEF Knows, Ended, NothingOwed, Owes, At
    <2>4. Body(r) = Updated(need[s], u) /\ Body(r) \in Need
      BY <1>0, <2>2, UpdatedNeed DEF Body
    <2>5. CASE u \in Overrides
      BY <2>1, <2>3, <2>5 DEF Fresh
    <2>6. CASE u \notin Overrides
      <3>1. row \in Need /\ row.status = DeriveStatus(row, a)
        <4>1. CASE "status" \in DOMAIN u
          <5>1. row.status = u["status"] /\ row \in Need
            BY <2>4, <4>1 DEF Updated, Need
          <5>2. u["status"] \in Sticky
            BY <2>2, <2>6, <4>1 DEF Overrides
          <5> HIDE DEF row
          <5> QED
            BY <5>1, <5>2 DEF DeriveStatus
        <4>2. CASE "status" \notin DOMAIN u
          <5>1. req[r].status = DeriveStatus(Body(r), a)
            BY <2>2, <2>4, <4>2
          <5>2. req[r].status \in Statuses
            BY <1>0, <2>4, <5>1, DerivedStatus
          <5>3. row = [Body(r) EXCEPT !.status = req[r].status]
            BY <4>2
          <5>4. row \in Need /\ row.status = req[r].status
            BY <2>4, <5>2, <5>3 DEF Need
          <5>5. DeriveStatus(row, a) = req[r].status
            BY <1>0, <2>4, <5>1, <5>3, DerivedStays
          <5> QED
            BY <5>4, <5>5
        <4> QED
          BY <4>1, <4>2
      <3>2. need' = [need EXCEPT ![s] = WriteChanged(@, req[r].needs[s], row)]
        BY <1>6 DEF PatchNeed
      <3> HIDE DEF row
      <3>3. need' = [need EXCEPT ![s] = row]
        BY <1>0, <2>2, <3>1, <3>2, WriteChangedNeedLoaded
      <3> QED
        BY <1>0, <2>1, <2>2, <2>3, <3>1, <3>3 DEF Fresh
    <2> QED
      BY <2>5, <2>6
  <1> QED
    BY <1>1, <1>2, <1>3, <1>4, <1>5, <1>6

(* A request that dies alone, re-deriving nothing: it had written nothing that
   is not derived, or it leaves its re-derivation owed.                    *)
LEMMA DiesAlone ==
    ASSUME InventoryInv, SerialInv, scenario # "concurrent", scenario' = scenario,
           NothingOwed, NEW r \in Requests, Crash(r)
    PROVE  SerialInv'
  <1>1. /\ req \in [Requests -> SessionType] /\ Knows(req[r], part, need, owed)
        /\ req[r].at \notin Ended /\ End(r) /\ part' = part /\ need' = need
    BY DEF InventoryInv, TypeOK, SerialInv, Crash, Ended
  <1>2. ~owed' => Fresh(part, need)
    BY <1>1 DEF Knows, NothingOwed, Owes
  <1> QED
    BY <1>1, <1>2, OneEnds

LEMMA MCNextIsNext == MCNext => Next /\ scenario' = scenario
  BY DEF MCNext, Next, Arrive

LEMMA MCKeepsInventory == MCSpec => []InventoryInv
  <1>1. MCInit => InventoryInv
    BY InitInv DEF MCInit
  <1>2. InventoryInv /\ [MCNext]_mcvars => InventoryInv'
    BY StepInv, MCNextIsNext DEF vars, mcvars
  <1> QED
    BY <1>1, <1>2, PTL DEF MCSpec

LEMMA SerialInit == MCInit => SerialInv
  <1> SUFFICES ASSUME MCInit, scenario # "concurrent" PROVE SerialInv
    BY DEF SerialInv
  <1>1. \A r \in Requests : req[r].at = "idle"
    BY DEF MCInit, Init, Session
  <1>2. Fresh(part, need)
    <2>1. CASE scenario = "serial"
      BY <2>1 DEF MCInit, NoneYet, Absent, Fresh
    <2>2. CASE scenario = "receipts"
      <3>1. Available(part) = 0
        BY <2>2 DEF MCInit, NoStock, Row, Available
      <3>2. need \in AllShort \cup OneShort
        BY <2>2 DEF MCInit
      <3>3. ASSUME NEW s \in Slots PROVE need[s] = Absent \/ need[s] = Short(s)
        BY <3>2 DEF AllShort, OneShort
      <3>4. ASSUME NEW s \in Slots PROVE DeriveStatus(Short(s), 0) = "SHORT"
        BY InventoryAssumption DEF InventoryAssumption, DeriveStatus, Short, Sticky, Slots
      <3>5. \A s \in Slots : Short(s).status = "SHORT" /\ Absent.status = "ABSENT"
        BY DEF Short, Absent
      <3> QED
        BY <3>1, <3>3, <3>4, <3>5 DEF Fresh
    <2> QED
      BY <2>1, <2>2, MCInventoryAssumption DEF MCInventoryAssumption, MCInit
  <1> QED
    BY <1>1, <1>2 DEF SerialInv, Knows, Ended

LEMMA SerialStep ==
    ASSUME InventoryInv, SerialInv, [MCNext]_mcvars
    PROVE  SerialInv'
  <1>1. CASE UNCHANGED mcvars
    BY <1>1 DEF vars, mcvars, SerialInv, AllDone
  <1>2. CASE MCNext /\ scenario = "concurrent"
    BY <1>2 DEF MCNext, SerialInv
  <1>3. CASE MCNext /\ scenario # "concurrent"
    <2>0. scenario' = scenario
      BY <1>3 DEF MCNext
    <2>1. CASE \E q \in Requests : RecomputeStatus(q)
      BY <1>3, <2>0, <2>1, RederivesAlone
    <2>2. CASE ~\E q \in Requests : RecomputeStatus(q)
      <3>1. NothingOwed
        BY <1>3, <2>2 DEF MCNext, RecordOwed, NothingOwed
      <3> PICK r \in Requests : (AllDone /\ Arrive(r)) \/ Crash(r) \/ Continue(r)
        BY <1>3 DEF MCNext, Arrive
      <3>2. CASE AllDone /\ Arrive(r)
        BY <1>3, <2>0, <3>1, <3>2, ArrivesAlone
      <3>3. CASE Crash(r)
        BY <1>3, <2>0, <3>1, <3>3, DiesAlone
      <3>4. CASE Continue(r)
        BY <1>3, <2>0, <2>2, <3>1, <3>4, MovesAlone, NeedsAlone DEF Continue
      <3> QED
        BY <3>2, <3>3, <3>4
    <2> QED
      BY <2>1, <2>2
  <1> QED
    BY <1>1, <1>2, <1>3

LEMMA SerialHistories == MCSpec => []SerialInv
  <1> QED
    BY SerialInit, SerialStep, MCKeepsInventory, PTL DEF MCSpec

(* For all movements, bodies and numbers of requirements, PATCHes, status
   overrides and crashes included: when the requests of a serial history have
   ended and no re-derivation is owed, no requirement has a status that the
   part's quantities contradict.                                           *)
THEOREM SerialStatusesFresh == MCSpec => []NoStatusLeftStale
  <1>1. SerialInv => NoStatusLeftStale
    BY DEF SerialInv, NoStatusLeftStale, Fresh
  <1> QED
    BY <1>1, SerialHistories, PTL

(* Neither a receipt nor a re-derivation touches a settled requirement. *)
LEMMA OnlyPatchesTouchSettled ==
    ASSUME InventoryInv, SerialInv, MCNext, scenario # "concurrent", NEW s \in Slots,
           need[s].status \in Settled, need'[s] # need[s]
    PROVE  \E r \in Requests : At(r, "patchNeed") /\ req'[r].at = "done"
  <1> PICK r \in Requests : Arrive(r) \/ Continue(r) \/ Crash(r)
    BY DEF MCNext, Arrive
  <1>0. /\ req \in [Requests -> SessionType] /\ need \in [Slots -> Need]
        /\ Knows(req[r], part, need, owed) /\ Payload(req[r])
    BY DEF InventoryInv, TypeOK, PayloadOK, SerialInv
  <1>1. CASE PatchNeed(r)
    BY <1>0, <1>1 DEF PatchNeed, End, Goto, Session
  <1>2. CASE RecomputeStatus(r)
    <2>1. req[r].needs = need
      BY <1>0, <1>2 DEF RecomputeStatus, At, Knows
    <2>2. Rederived(req[r])[s] = need[s]
      <3>1. DeriveStatus(need[s], Available(req[r].part)) = need[s].status
        BY DEF DeriveStatus, Settled, Sticky
      <3> QED
        BY <1>0, <2>1, <3>1 DEF Rederived, Need
    <2>3. need'[s] = need[s]
      BY <1>0, <1>2, <2>1, <2>2, WriteChangedNeedLoaded DEF RecomputeStatus
    <2> QED
      BY <2>3
  <1>3. CASE FulfilFromReceipt(r)
    <2>1. req[r].needs = need
      BY <1>0, <1>3 DEF FulfilFromReceipt, At, Knows
    <2> QED
      BY <1>3, <2>1, AllocatesAlone
  <1>4. CASE CreateNeed(r)
    <2>1. need[req[r].slot].status = "ABSENT"
      BY <1>0, <1>4 DEF CreateNeed, At, Knows
    <2> QED
      BY <1>0, <1>4, <2>1 DEF CreateNeed, Settled
  <1>5. CASE UNCHANGED need
    BY <1>5
  <1> QED
    BY <1>1, <1>2, <1>3, <1>4, <1>5
       DEF Arrive, Continue, LockPart, ReadPartToPatch, ReadPartForNeed, ReadNeedToPatch,
           ApplyMovement, RejectMovement, RefreshPart, ReadNeeds, SetServiceability,
           ReadNeedsToFulfil, PatchPart, DerivePatchStatus, Crash

(* A requirement that is FULFILLED or CANCELLED changes only when somebody
   PATCHes it, as long as requests do not overlap.                         *)
THEOREM SettledIsFinalOneAtATime == MCSpec => SettledIsFinalSerially
  <1>1. InventoryInv /\ SerialInv /\ [MCNext]_mcvars
          => [scenario # "concurrent" => SettledKept]_vars
    BY OnlyPatchesTouchSettled DEF SettledKept, vars, mcvars
  <1> QED
    BY <1>1, SerialHistories, MCKeepsInventory, PTL DEF MCSpec, SettledIsFinalSerially
-----------------------------------------------------------------------------
(* Sums over the slots.  The induction is on a set of numbers, in the form of a
   least number that is not in it.                                         *)
LEMMA UpTo ==
    ASSUME NEW N \in Nat, NEW S, 0 \in S, \A n \in 1..N : n - 1 \in S => n \in S
    PROVE  0..N \subseteq S
  <1> DEFINE T == {n \in 0..N : n \notin S}
  <1> SUFFICES ASSUME T # {} PROVE FALSE
    OBVIOUS
  <1>1. T \subseteq Nat
    OBVIOUS
  <1> HIDE DEF T
  <1>2. PICK x \in T : \A y \in T : ~ (<<y, x>> \in OpToRel(<, Nat))
    BY <1>1, NatLessThanWellFounded, WFMin
  <1> USE DEF T
  <1>3. x \in 1..N /\ x - 1 \in T
    OBVIOUS
  <1>4. <<x - 1, x>> \in OpToRel(<, Nat)
    BY <1>3 DEF OpToRel
  <1> QED
    BY <1>2, <1>3, <1>4

(* What SumOver computes, whatever the number of slots. *)
LEMMA SumRecursion ==
    ASSUME NEW f \in [Slots -> Int]
    PROVE  \E u \in [0..NumSlots -> Int] :
              /\ u[0] = 0 /\ \A s \in Slots : u[s] = u[s-1] + f[s]
              /\ SumOver(f) = u[NumSlots]
  <1>0. NumSlots \in Nat
    BY InventoryAssumption DEF InventoryAssumption
  <1> DEFINE Sums(u, n) == u \in [0..n -> Int] /\ u[0] = 0
                              /\ \A s \in 1..n : u[s] = u[s-1] + f[s]
             S == {n \in 0..NumSlots : \E u : Sums(u, n)}
  <1>1. 0 \in S
    <2>1. Sums([k \in 0..0 |-> 0], 0)
      OBVIOUS
    <2> HIDE DEF Sums
    <2>2. 0 \in 0..NumSlots
      BY <1>0
    <2> QED
      BY <2>1, <2>2
  <1>2. ASSUME NEW n \in 1..NumSlots, n - 1 \in S PROVE n \in S
    <2> PICK u : Sums(u, n - 1)
      BY <1>2
    <2> DEFINE v == [k \in 0..n |-> IF k = n THEN u[n-1] + f[n] ELSE u[k]]
    <2>1. n \in Nat \ {0} /\ n \in 0..NumSlots /\ f[n] \in Int /\ u[n-1] \in Int
      BY <1>0 DEF Slots
    <2>2. v \in [0..n -> Int] /\ v[0] = 0
      BY <2>1
    <2>3. ASSUME NEW s \in 1..n PROVE v[s] = v[s-1] + f[s]
      BY <2>1
    <2> QED
      BY <2>1, <2>2, <2>3
  <1>3. NumSlots \in S
    <2> HIDE DEF S
    <2>1. 0..NumSlots \subseteq S
      BY <1>0, <1>1, <1>2, UpTo
    <2> QED
      BY <1>0, <2>1
  <1>4. PICK u : Sums(u, NumSlots)
    BY <1>3
  <1> DEFINE up[n \in 0..NumSlots] == IF n = 0 THEN 0 ELSE up[n-1] + f[n]
  <1>5. u = [n \in 0..NumSlots |-> IF n = 0 THEN 0 ELSE u[n-1] + f[n]]
    BY <1>0, <1>4
  <1>6. up = [n \in 0..NumSlots |-> IF n = 0 THEN 0 ELSE up[n-1] + f[n]]
    BY <1>5 DEF up
  <1>7. SumOver(f) = up[NumSlots]
    BY DEF SumOver, up
  <1> HIDE DEF up
  <1>8. ASSUME NEW n \in 0..NumSlots PROVE up[n] = u[n]
    <2> DEFINE E == {k \in 0..NumSlots : up[k] = u[k]}
    <2>1. 0 \in E
      BY <1>0, <1>4, <1>6
    <2>2. ASSUME NEW k \in 1..NumSlots, k - 1 \in E PROVE k \in E
      BY <1>0, <1>4, <1>6, <2>2
    <2> HIDE DEF E
    <2>3. 0..NumSlots \subseteq E
      BY <1>0, <2>1, <2>2, UpTo
    <2> QED
      BY <2>3 DEF E
  <1>9. SumOver(f) = u[NumSlots]
    BY <1>0, <1>7, <1>8
  <1>10. u \in [0..NumSlots -> Int] /\ u[0] = 0 /\ \A s \in Slots : u[s] = u[s-1] + f[s]
    BY <1>4 DEF Slots
  <1> QED
    BY <1>9, <1>10

(* Shares of a quantity: what is put to the account of the slots together is at
   most what the first finds less what the last leaves.                    *)
LEMMA SumShares ==
    ASSUME NEW f \in [Slots -> Int], NEW g \in [Slots -> Int],
           NEW left \in [0..NumSlots -> Int],
           \A s \in Slots : g[s] <= f[s] + left[s-1] - left[s]
    PROVE  SumOver(g) <= SumOver(f) + left[0] - left[NumSlots]
  <1>0. NumSlots \in Nat
    BY InventoryAssumption DEF InventoryAssumption
  <1>1. PICK u \in [0..NumSlots -> Int] :
           /\ u[0] = 0 /\ \A s \in Slots : u[s] = u[s-1] + f[s]
           /\ SumOver(f) = u[NumSlots]
    BY SumRecursion
  <1>2. PICK v \in [0..NumSlots -> Int] :
           /\ v[0] = 0 /\ \A s \in Slots : v[s] = v[s-1] + g[s]
           /\ SumOver(g) = v[NumSlots]
    BY SumRecursion
  <1> DEFINE S == {n \in 0..NumSlots : v[n] <= u[n] + left[0] - left[n]}
  <1>3. 0 \in S
    BY <1>0, <1>1, <1>2
  <1>4. ASSUME NEW n \in 1..NumSlots, n - 1 \in S PROVE n \in S
    <2>1. n \in 0..NumSlots /\ n - 1 \in 0..NumSlots /\ n \in Slots
      BY <1>0 DEF Slots
    <2>2. v[n] = v[n-1] + g[n] /\ u[n] = u[n-1] + f[n]
      BY <1>1, <1>2, <2>1
    <2>3. /\ v[n-1] \in Int /\ u[n-1] \in Int /\ left[n-1] \in Int /\ left[n] \in Int
          /\ left[0] \in Int /\ f[n] \in Int /\ g[n] \in Int
      BY <1>0, <2>1
    <2>4. g[n] <= f[n] + left[n-1] - left[n] /\ v[n-1] <= u[n-1] + left[0] - left[n-1]
      BY <1>4, <2>1
    <2>5. v[n] <= u[n] + left[0] - left[n]
      BY <2>2, <2>3, <2>4
    <2> QED
      BY <2>1, <2>5
  <1>5. NumSlots \in S
    <2> HIDE DEF S
    <2>1. 0..NumSlots \subseteq S
      BY <1>0, <1>3, <1>4, UpTo
    <2> QED
      BY <1>0, <2>1
  <1> QED
    BY <1>1, <1>2, <1>5

LEMMA SumOrder ==
    ASSUME NEW f \in [Slots -> Int], NEW g \in [Slots -> Int],
           \A s \in Slots : g[s] <= f[s]
    PROVE  /\ SumOver(g) <= SumOver(f)
           /\ SumOver(f) \in Int /\ SumOver(g) \in Int
  <1>0. NumSlots \in Nat
    BY InventoryAssumption DEF InventoryAssumption
  <1> DEFINE left == [n \in 0..NumSlots |-> 0]
  <1>1. left \in [0..NumSlots -> Int] /\ left[0] = 0 /\ left[NumSlots] = 0
    BY <1>0
  <1>2. \A s \in Slots : left[s] = 0 /\ left[s-1] = 0
    BY <1>0 DEF Slots
  <1> HIDE DEF left
  <1>3. \A s \in Slots : g[s] <= f[s] + left[s-1] - left[s]
    BY <1>2
  <1>4. SumOver(g) <= SumOver(f) + left[0] - left[NumSlots]
    BY <1>1, <1>3, SumShares
  <1>5. SumOver(f) \in Int /\ SumOver(g) \in Int
    BY <1>0, SumRecursion
  <1> QED
    BY <1>1, <1>4, <1>5

(* The same with equality: every share is exact. *)
LEMMA SumExactShares ==
    ASSUME NEW f \in [Slots -> Int], NEW g \in [Slots -> Int],
           NEW left \in [0..NumSlots -> Int],
           \A s \in Slots : g[s] = f[s] + left[s-1] - left[s]
    PROVE  SumOver(g) = SumOver(f) + left[0] - left[NumSlots]
  <1>0. NumSlots \in Nat
    BY InventoryAssumption DEF InventoryAssumption
  <1>1. /\ SumOver(f) \in Int /\ SumOver(g) \in Int
        /\ left[0] \in Int /\ left[NumSlots] \in Int
    BY <1>0, SumRecursion
  <1>2. \A s \in Slots : left[s] \in Int /\ left[s-1] \in Int
    BY <1>0 DEF Slots
  <1>3. SumOver(g) <= SumOver(f) + left[0] - left[NumSlots]
    <2>1. \A s \in Slots : g[s] <= f[s] + left[s-1] - left[s]
      BY <1>2
    <2> QED
      BY <2>1, SumShares
  <1> DEFINE back == [n \in 0..NumSlots |-> -left[n]]
  <1>4. back \in [0..NumSlots -> Int] /\ back[0] = -left[0] /\ back[NumSlots] = -left[NumSlots]
    BY <1>0
  <1>5. \A s \in Slots : back[s] = -left[s] /\ back[s-1] = -left[s-1]
    BY <1>0 DEF Slots
  <1> HIDE DEF back
  <1>6. ASSUME NEW s \in Slots
        PROVE  f[s] <= g[s] + back[s-1] - back[s]
    <2>1. f[s] \in Int /\ left[s] \in Int /\ left[s-1] \in Int
      BY <1>2
    <2>2. g[s] = f[s] + left[s-1] - left[s]
      OBVIOUS
    <2>3. back[s] = -left[s] /\ back[s-1] = -left[s-1]
      BY <1>5
    <2> HIDE DEF back
    <2> QED
      BY <2>1, <2>2, <2>3
  <1>7. SumOver(f) <= SumOver(g) + back[0] - back[NumSlots]
    BY <1>4, <1>6, SumShares
  <1>8. SumOver(f) <= SumOver(g) - left[0] + left[NumSlots]
    BY <1>1, <1>4, <1>7
  <1> QED
    <2> DEFINE x == SumOver(g)
               y == SumOver(f)
               u == left[0]
               v == left[NumSlots]
    <2>1. x \in Int /\ y \in Int /\ u \in Int /\ v \in Int
      BY <1>1
    <2>2. x <= y + u - v /\ y <= x - u + v
      BY <1>3, <1>8
    <2> HIDE DEF x, y, u, v
    <2>3. x = y + u - v
      BY <2>1, <2>2
    <2> QED
      BY <2>3 DEF x, y, u, v
-----------------------------------------------------------------------------
(* Receipts *)

ColumnOf(column, table) == [s \in Slots |-> table[s][column]]

(* What FulfilFromReceipt does, whatever it has read: the quantity left for the
   slots never grows, and each gets at most its share and what it requires. *)
LEMMA Shares ==
    ASSUME InventoryInv, NEW r \in Requests, FulfilFromReceipt(r)
    PROVE  \E left \in [0..NumSlots -> Nat] :
              /\ left[0] = req[r].move.receipt
              /\ allocated' = allocated + left[0]
              /\ \A s \in Slots :
                    /\ left[s] = left[s-1] - Least(Outstanding(req[r].needs[s]), left[s-1])
                    /\ Outstanding(req[r].needs[s]) \in Nat
                    /\ left[s-1] \in Nat /\ left[s] \in Nat
                    /\ need'[s].required = need[s].required
                    /\ need'[s].fulfilled =
                          IF left[s] = left[s-1] THEN need[s].fulfilled
                          ELSE Least(need[s].required,
                                     need[s].fulfilled + (left[s-1] - left[s]))
  <1>0. /\ req[r] \in SessionType /\ req[r].move \in Movement
        /\ need \in [Slots -> Need] /\ NumSlots \in Nat
    BY MovementTyped, InventoryAssumption DEF InventoryAssumption, InventoryInv, TypeOK, SessionType
  <1> DEFINE q == req[r].move.receipt
  <1>1. q \in Nat
    BY <1>0 DEF Movement
  <1>2. PICK left \in [0..NumSlots -> 0..q] :
           /\ Greedy(left, req[r].needs, q)
           /\ need' = [s \in Slots |->
                        IF left[s] = left[s-1] THEN need[s]
                        ELSE Fulfil(need[s], left[s-1] - left[s], Available(part))]
    BY DEF FulfilFromReceipt
  <1>3. left \in [0..NumSlots -> Nat] /\ left[0] = q /\ allocated' = allocated + q
    BY <1>0, <1>1, <1>2 DEF Greedy, FulfilFromReceipt
  <1>4. ASSUME NEW s \in Slots
        PROVE  /\ left[s] = left[s-1] - Least(Outstanding(req[r].needs[s]), left[s-1])
               /\ Outstanding(req[r].needs[s]) \in Nat
               /\ left[s-1] \in Nat /\ left[s] \in Nat
    <2>1. left[s] = left[s-1] - Least(Outstanding(req[r].needs[s]), left[s-1])
      BY <1>2 DEF Greedy
    <2>2. Outstanding(req[r].needs[s]) \in Nat
      <3>1. req[r].needs[s] \in Need
        BY <1>0 DEF SessionType
      <3> QED
        BY <3>1 DEF Outstanding, Need
    <2>3. left[s-1] \in Nat /\ left[s] \in Nat
      BY <1>0, <1>3 DEF Slots
    <2> QED
      BY <2>1, <2>2, <2>3
  <1>5. ASSUME NEW s \in Slots
        PROVE  /\ need'[s].required = need[s].required
               /\ need'[s].fulfilled =
                     IF left[s] = left[s-1] THEN need[s].fulfilled
                     ELSE Least(need[s].required, need[s].fulfilled + (left[s-1] - left[s]))
    <2>1. need[s] \in Need
      BY <1>0
    <2>2. ASSUME NEW d, NEW a
          PROVE  /\ Fulfil(need[s], d, a).required = need[s].required
                 /\ Fulfil(need[s], d, a).fulfilled
                       = Least(need[s].required, need[s].fulfilled + d)
      BY <2>1 DEF Fulfil, Need
    <2> QED
      BY <1>2, <2>2
  <1> QED
    BY <1>3, <1>4, <1>5

(* A receipt, whatever interleaves with it, fulfils no more than was received,
   and no requirement beyond what it requires.                             *)
LEMMA ReceiptBounded ==
    ASSUME InventoryInv, NEW r \in Requests, FulfilFromReceipt(r)
    PROVE  /\ Total("fulfilled", need') <= Total("fulfilled", need) + allocated' - allocated
           /\ \A s \in Slots : need'[s].fulfilled > need[s].fulfilled =>
                                   need'[s].fulfilled <= need'[s].required
  <1>0. /\ need \in [Slots -> Need] /\ need' \in [Slots -> Need] /\ NumSlots \in Nat
        /\ allocated \in Nat
    BY ContinueNeedTyped, InventoryAssumption DEF InventoryAssumption, InventoryInv, TypeOK
  <1>1. PICK left \in [0..NumSlots -> Nat] :
           /\ allocated' = allocated + left[0]
           /\ \A s \in Slots :
                 /\ left[s-1] \in Nat /\ left[s] \in Nat
                 /\ left[s] = left[s-1] - Least(Outstanding(req[r].needs[s]), left[s-1])
                 /\ Outstanding(req[r].needs[s]) \in Nat
                 /\ need'[s].required = need[s].required
                 /\ need'[s].fulfilled =
                       IF left[s] = left[s-1] THEN need[s].fulfilled
                       ELSE Least(need[s].required,
                                  need[s].fulfilled + (left[s-1] - left[s]))
    BY Shares
  <1> DEFINE f == ColumnOf("fulfilled", need)
             g == ColumnOf("fulfilled", need')
  <1>2. \A s \in Slots : /\ need[s].fulfilled \in Nat /\ need[s].required \in Nat
                         /\ need'[s].fulfilled \in Nat
    BY <1>0 DEF Need
  <1>3. f \in [Slots -> Int] /\ g \in [Slots -> Int]
    BY <1>2 DEF ColumnOf
  <1>4. ASSUME NEW s \in Slots
        PROVE  /\ need'[s].fulfilled <= need[s].fulfilled + left[s-1] - left[s]
               /\ need'[s].fulfilled > need[s].fulfilled =>
                     need'[s].fulfilled <= need'[s].required
    <2>1. left[s-1] - left[s] \in Nat
      BY <1>1 DEF Least
    <2>2. /\ left[s-1] \in Nat /\ left[s] \in Nat
          /\ need[s].fulfilled \in Nat /\ need[s].required \in Nat
          /\ need'[s].required = need[s].required
      BY <1>1, <1>2
    <2>3. CASE left[s] = left[s-1]
      <3>1. need'[s].fulfilled = need[s].fulfilled
        BY <1>1, <2>3
      <3> QED
        BY <2>2, <2>3, <3>1
    <2>4. CASE left[s] # left[s-1]
      <3>1. need'[s].fulfilled = Least(need[s].required,
                                       need[s].fulfilled + (left[s-1] - left[s]))
        BY <1>1, <2>4
      <3> QED
        BY <2>1, <2>2, <3>1 DEF Least
    <2> QED
      BY <2>3, <2>4
  <1>5. \A s \in Slots : g[s] <= f[s] + left[s-1] - left[s]
    BY <1>4 DEF ColumnOf
  <1>6. Total("fulfilled", need') = SumOver(g) /\ Total("fulfilled", need) = SumOver(f)
    BY DEF Total, ColumnOf
  <1> HIDE DEF f, g
  <1>7. SumOver(g) <= SumOver(f) + left[0] - left[NumSlots]
    <2>1. left \in [0..NumSlots -> Int]
      OBVIOUS
    <2> QED
      BY <1>3, <1>5, <2>1, SumShares
  <1>8. SumOver(f) \in Int /\ SumOver(g) \in Int /\ left[0] \in Nat /\ left[NumSlots] \in Nat
    BY <1>0, <1>3, SumRecursion
  <1> QED
    BY <1>0, <1>1, <1>4, <1>6, <1>7, <1>8

LEMMA OnlyReceiptsAllocate ==
    ASSUME NEW r \in Requests, Arrive(r) \/ Continue(r) \/ Crash(r),
           allocated' # allocated
    PROVE  FulfilFromReceipt(r)
  BY DEF Arrive, LockPart, ReadPartToPatch, ReadPartForNeed, ReadNeedToPatch, Crash,
         Continue, ApplyMovement, RejectMovement, RefreshPart, ReadNeeds, RecomputeStatus,
         SetServiceability, ReadNeedsToFulfil, PatchPart, CreateNeed, DerivePatchStatus,
         PatchNeed, history

(* The LEAST cap, for every number of requirements, under every interleaving with
   other receipts, PATCHes and crashes.                                    *)
THEOREM ReceiptsNeverOverfulfil == MCSpec => FulfilmentBounded
  <1>1. InventoryInv /\ [MCNext]_mcvars =>
          [allocated' # allocated =>
             /\ Total("fulfilled", need') <= Total("fulfilled", need) + allocated' - allocated
             /\ \A s \in Slots : need'[s].fulfilled > need[s].fulfilled =>
                                     need'[s].fulfilled <= need'[s].required]_vars
    <2>1. ASSUME InventoryInv, Next, allocated' # allocated
          PROVE  /\ Total("fulfilled", need') <= Total("fulfilled", need) + allocated' - allocated
                 /\ \A s \in Slots : need'[s].fulfilled > need[s].fulfilled =>
                                         need'[s].fulfilled <= need'[s].required
      BY <2>1, OnlyReceiptsAllocate, ReceiptBounded DEF Next
    <2> QED
      BY <2>1, MCNextIsNext DEF vars, mcvars
  <1> QED
    BY <1>1, MCKeepsInventory, PTL DEF MCSpec, FulfilmentBounded

(* One receipt at a time: a requirement is settled only when it is covered, so
   what is outstanding is what is required and not yet fulfilled.          *)
RowFine(n) ==
    /\ n.fulfilled <= n.required
    /\ n.status \in Settled \cup {"ABSENT"} => n.fulfilled = n.required

ReceiptsInv ==
    scenario = "receipts" =>
       /\ \A s \in Slots : RowFine(need[s])
       /\ \A r \in Requests :
             req[r].at \notin {"patchPart", "createNeed", "patchNeed", "patchNeedStatus"}
       /\ Total("fulfilled", need) = Least(allocated, Total("required", need))

LEMMA TotalsTyped ==
    ASSUME NEW n \in [Slots -> Need]
    PROVE  /\ ColumnOf("fulfilled", n) \in [Slots -> Int]
           /\ ColumnOf("required", n) \in [Slots -> Int]
           /\ Total("fulfilled", n) = SumOver(ColumnOf("fulfilled", n))
           /\ Total("required", n) = SumOver(ColumnOf("required", n))
           /\ Total("fulfilled", n) \in Int /\ Total("required", n) \in Int
           /\ (\A s \in Slots : n[s].fulfilled <= n[s].required) =>
                  Total("fulfilled", n) <= Total("required", n)
  <1>1. \A s \in Slots : n[s].fulfilled \in Nat /\ n[s].required \in Nat
    BY DEF Need
  <1>2. ColumnOf("fulfilled", n) \in [Slots -> Int] /\ ColumnOf("required", n) \in [Slots -> Int]
    BY <1>1 DEF ColumnOf
  <1>3. /\ Total("fulfilled", n) = SumOver(ColumnOf("fulfilled", n))
        /\ Total("required", n) = SumOver(ColumnOf("required", n))
    BY DEF Total, ColumnOf
  <1>4. NumSlots \in Nat
    BY InventoryAssumption DEF InventoryAssumption
  <1>5. /\ SumOver(ColumnOf("fulfilled", n)) \in Int
        /\ SumOver(ColumnOf("required", n)) \in Int
    BY <1>2, <1>4, SumRecursion
  <1>6. ASSUME \A s \in Slots : n[s].fulfilled <= n[s].required
        PROVE  SumOver(ColumnOf("fulfilled", n)) <= SumOver(ColumnOf("required", n))
    <2>1. \A s \in Slots : ColumnOf("fulfilled", n)[s] <= ColumnOf("required", n)[s]
      BY <1>6 DEF ColumnOf
    <2> QED
      BY <1>2, <2>1, SumOrder
  <1> QED
    BY <1>2, <1>3, <1>5, <1>6

(* What is left for a slot is at most what was left for those before it. *)
LEMMA LeftShrinks ==
    ASSUME NEW left \in [0..NumSlots -> Nat],
           \A s \in Slots : left[s] <= left[s-1], NEW t \in Slots
    PROVE  left[NumSlots] <= left[t]
  <1>0. NumSlots \in Nat /\ t \in 1..NumSlots
    BY InventoryAssumption DEF InventoryAssumption, Slots
  <1> DEFINE S == {n \in 0..NumSlots : n >= t => left[n] <= left[t]}
  <1>1. 0 \in S
    BY <1>0
  <1>2. ASSUME NEW n \in 1..NumSlots, n - 1 \in S PROVE n \in S
    <2>1. n \in Slots /\ n \in 0..NumSlots /\ n - 1 \in 0..NumSlots
      BY <1>0 DEF Slots
    <2>2. left[n] \in Nat /\ left[n-1] \in Nat /\ left[t] \in Nat /\ left[n] <= left[n-1]
      BY <1>0, <2>1
    <2>3. CASE n = t
      BY <2>1, <2>2, <2>3
    <2>4. CASE n # t
      BY <1>0, <1>2, <2>1, <2>2, <2>4
    <2> QED
      BY <2>3, <2>4
  <1>3. NumSlots \in S
    <2> HIDE DEF S
    <2>1. 0..NumSlots \subseteq S
      BY <1>0, <1>1, <1>2, UpTo
    <2> QED
      BY <1>0, <2>1
  <1> QED
    BY <1>0, <1>3

(* A receipt that stands alone is put to account in full, unless it covers
   everything.                                                             *)
LEMMA ReceiptAccounted ==
    ASSUME InventoryInv, SerialInv, ReceiptsInv, scenario = "receipts",
           NEW r \in Requests, FulfilFromReceipt(r)
    PROVE  /\ \A s \in Slots : RowFine(need'[s])
           /\ Total("fulfilled", need') = Least(allocated', Total("required", need'))
  <1>0. /\ need \in [Slots -> Need] /\ need' \in [Slots -> Need] /\ NumSlots \in Nat
        /\ allocated \in Nat /\ req[r].at = "allocating" /\ Knows(req[r], part, need, owed)
    BY ContinueNeedTyped, InventoryAssumption
       DEF InventoryAssumption, InventoryInv, SerialInv, TypeOK, FulfilFromReceipt, At
  <1>1. req[r].needs = need
    BY <1>0 DEF Knows
  <1>2. PICK left \in [0..NumSlots -> Nat] :
           /\ allocated' = allocated + left[0]
           /\ \A s \in Slots :
                 /\ left[s-1] \in Nat /\ left[s] \in Nat
                 /\ left[s] = left[s-1] - Least(Outstanding(need[s]), left[s-1])
                 /\ Outstanding(need[s]) \in Nat
                 /\ need'[s].required = need[s].required
                 /\ need'[s].fulfilled =
                       IF left[s] = left[s-1] THEN need[s].fulfilled
                       ELSE Least(need[s].required,
                                  need[s].fulfilled + (left[s-1] - left[s]))
    BY <1>1, Shares
  <1>3. \A s \in Slots : /\ need[s].fulfilled \in Nat /\ need[s].required \in Nat
                         /\ need'[s].fulfilled \in Nat /\ need'[s].required \in Nat
    BY <1>0 DEF Need
  <1>4. ASSUME NEW s \in Slots
        PROVE  /\ Outstanding(need[s]) = need[s].required - need[s].fulfilled
               /\ left[s] <= left[s-1]
               /\ need'[s].fulfilled = need[s].fulfilled + left[s-1] - left[s]
               /\ need'[s].fulfilled <= need'[s].required
               /\ left[s] > 0 => need'[s].fulfilled = need'[s].required
    <2>1. RowFine(need[s])
      BY DEF ReceiptsInv
    <2>2. Outstanding(need[s]) = need[s].required - need[s].fulfilled
      BY <1>3, <2>1 DEF RowFine, Outstanding
    <2> DEFINE o == Outstanding(need[s])
    <2>3. /\ o \in Nat /\ left[s-1] \in Nat /\ left[s] \in Nat
          /\ need[s].required = need[s].fulfilled + o
          /\ left[s] = left[s-1] - Least(o, left[s-1])
      BY <1>2, <1>3, <2>2
    <2> HIDE DEF o
    <2>4. left[s] <= left[s-1] /\ left[s-1] - left[s] <= o
          /\ (left[s] > 0 => left[s-1] - left[s] = o)
      BY <2>3 DEF Least
    <2>5. need'[s].fulfilled = need[s].fulfilled + left[s-1] - left[s]
      BY <1>2, <1>3, <2>3, <2>4 DEF Least
    <2>6. need'[s].required = need[s].required
      BY <1>2
    <2> QED
      BY <1>3, <2>2, <2>3, <2>4, <2>5, <2>6
  <1>5. ASSUME NEW s \in Slots PROVE RowFine(need'[s])
    <2>1. CASE need'[s] = need[s]
      BY <2>1 DEF ReceiptsInv
    <2>2. CASE \E delta \in Nat : need'[s] = Fulfil(need[s], delta, Available(part))
      <3> PICK delta \in Nat : need'[s] = Fulfil(need[s], delta, Available(part))
        BY <2>2
      <3>1. Available(part) \in Int
        BY DEF InventoryInv, TypeOK, Available, Part
      <3>2. need'[s].status = DeriveStatus(need'[s], Available(part))
        <4> DEFINE a == Available(part)
        <4>1. a \in Int /\ need[s] \in Need /\ need'[s] = Fulfil(need[s], delta, a)
          BY <1>0, <3>1
        <4> HIDE DEF a
        <4>2. Fulfil(need[s], delta, a).status = DeriveStatus(Fulfil(need[s], delta, a), a)
          BY <4>1, FulfilDerives
        <4> QED
          BY <4>1, <4>2 DEF a
      <3>3. need'[s].status \in Statuses
        BY <1>0, <3>1, <3>2, DerivedStatus
      <3>4. CASE need[s].status \in Sticky
        <4>1. need[s].status \notin Settled => need'[s].status = need[s].status
          BY <1>0, <3>4 DEF Fulfil, DeriveStatus, Need
        <4>2. need[s].status \in Settled => need'[s] = need[s]
          BY <1>1, AllocatesAlone
        <4> QED
          BY <1>4, <2>1, <3>3, <4>1, <4>2 DEF RowFine, Statuses, Sticky
      <3>5. CASE need[s].status \notin Sticky
        <4> DEFINE more == [need[s] EXCEPT !.fulfilled =
                              Least(need[s].required, need[s].fulfilled + delta)]
        <4>1. /\ need'[s].status = DeriveStatus(more, Available(part))
              /\ more.status = need[s].status /\ more.required = need'[s].required
              /\ more.fulfilled = need'[s].fulfilled
          BY <1>0 DEF Fulfil, Need
        <4> HIDE DEF more
        <4>2. need'[s].status \in Settled => need'[s].required <= need'[s].fulfilled
          BY <3>5, <4>1 DEF DeriveStatus, Settled, Sticky
        <4> QED
          BY <1>3, <1>4, <3>3, <4>2 DEF RowFine, Statuses, Sticky
      <3> QED
        BY <3>4, <3>5
    <2> QED
      BY <1>1, <2>1, <2>2, AllocatesAlone
  <1> DEFINE f == ColumnOf("fulfilled", need)
             g == ColumnOf("fulfilled", need')
             F == Total("fulfilled", need)
             G == Total("fulfilled", need')
             R == Total("required", need)
  <1>6. /\ f \in [Slots -> Int] /\ g \in [Slots -> Int] /\ F = SumOver(f) /\ G = SumOver(g)
        /\ F \in Int /\ G \in Int /\ R \in Int
    BY <1>0, TotalsTyped
  <1>7. Total("required", need') = R
    <2>1. ColumnOf("required", need') = ColumnOf("required", need)
      BY <1>2 DEF ColumnOf
    <2> QED
      BY <1>0, <2>1, TotalsTyped
  <1>8. G = F + left[0] - left[NumSlots]
    <2>1. \A s \in Slots : g[s] = f[s] + left[s-1] - left[s]
      BY <1>4 DEF ColumnOf
    <2>2. left \in [0..NumSlots -> Int]
      OBVIOUS
    <2> HIDE DEF f, g, F, G
    <2>3. SumOver(g) = SumOver(f) + left[0] - left[NumSlots]
      BY <1>6, <2>1, <2>2, SumExactShares
    <2> QED
      BY <1>6, <2>3
  <1>9. G <= R
    BY <1>0, <1>4, <1>7, TotalsTyped
  <1>10. left[NumSlots] > 0 => G = R
    <2> SUFFICES ASSUME left[NumSlots] > 0 PROVE G = R
      OBVIOUS
    <2>1. \A s \in Slots : left[s] > 0
      <3> TAKE s \in Slots
      <3>1. \A t \in Slots : left[t] <= left[t-1]
        BY <1>4
      <3>2. left[NumSlots] <= left[s]
        BY <3>1, LeftShrinks
      <3>3. left[s] \in Nat /\ left[NumSlots] \in Nat
        BY <1>0, <1>2
      <3> QED
        BY <3>2, <3>3
    <2>2. ColumnOf("fulfilled", need') = ColumnOf("required", need')
      BY <1>4, <2>1 DEF ColumnOf
    <2> QED
      BY <1>0, <1>7, <2>2, TotalsTyped
  <1>11. F = Least(allocated, R)
    BY DEF ReceiptsInv
  <1>12. left[0] \in Nat /\ left[NumSlots] \in Nat
    BY <1>0
  <1>13. G = Least(allocated', R)
    <2> HIDE DEF F, G, R
    <2> QED
      BY <1>0, <1>2, <1>6, <1>8, <1>9, <1>10, <1>11, <1>12 DEF Least
  <1> QED
    BY <1>5, <1>7, <1>13

Elsewhere == {"patchPart", "createNeed", "patchNeed", "patchNeedStatus"}

(* A receipt history never leaves the movement handlers. *)
LEMMA StaysInHandlers ==
    ASSUME InventoryInv, NEW r \in Requests,
           (\E m \in Movements : LockPart(r, m)) \/ Continue(r), req[r].at \notin Elsewhere
    PROVE  \A q \in Requests : req[q].at \notin Elsewhere => req'[q].at \notin Elsewhere
  <1>0. req \in [Requests -> SessionType] /\ req[r] \in SessionType
    BY DEF InventoryInv, TypeOK
  <1>1. ASSUME NEW session, Goto(r, session), session.at \notin Elsewhere
        PROVE  \A q \in Requests : req[q].at \notin Elsewhere => req'[q].at \notin Elsewhere
    BY <1>0, <1>1 DEF Goto
  <1>2. Session("done").at \notin Elsewhere
    BY DEF Session, Elsewhere
  <1>3. ASSUME End(r)
        PROVE  \A q \in Requests : req[q].at \notin Elsewhere => req'[q].at \notin Elsewhere
    BY <1>1, <1>2, <1>3 DEF End
  <1>4. CASE \E m \in Movements : LockPart(r, m)
    <2> PICK m \in Movements : LockPart(r, m)
      BY <1>4
    <2> DEFINE session == [Session("locked") EXCEPT !.move = m, !.part = part]
    <2>1. session.at \notin Elsewhere
      BY DEF Session, Elsewhere
    <2>2. Goto(r, session)
      BY DEF LockPart
    <2> HIDE DEF session
    <2> QED
      BY <1>1, <2>1, <2>2
  <1>5. CASE ApplyMovement(r)
    <2> DEFINE session == [req[r] EXCEPT !.at = "committed"]
    <2>1. session.at \notin Elsewhere
      BY <1>0 DEF SessionType, Elsewhere
    <2>2. Goto(r, session)
      BY <1>5 DEF ApplyMovement
    <2> HIDE DEF session
    <2> QED
      BY <1>1, <2>1, <2>2
  <1>6. CASE RefreshPart(r)
    <2> DEFINE session == [req[r] EXCEPT !.at = "refreshed", !.part = part]
    <2>1. session.at \notin Elsewhere
      BY <1>0 DEF SessionType, Elsewhere
    <2>2. Goto(r, session)
      BY <1>6 DEF RefreshPart
    <2> HIDE DEF session
    <2> QED
      BY <1>1, <2>1, <2>2
  <1>7. CASE ReadNeeds(r)
    <2> DEFINE session == [req[r] EXCEPT !.at = "rederive", !.needs = need]
    <2>1. session.at \notin Elsewhere
      BY <1>0 DEF SessionType, Elsewhere
    <2>2. Goto(r, session)
      BY <1>7 DEF ReadNeeds
    <2> HIDE DEF session
    <2> QED
      BY <1>1, <2>1, <2>2
  <1>8. CASE ReadNeedsToFulfil(r)
    <2> DEFINE session == [req[r] EXCEPT !.at = "allocating", !.needs = need]
    <2>1. session.at \notin Elsewhere
      BY <1>0 DEF SessionType, Elsewhere
    <2>2. Goto(r, session)
      BY <1>8 DEF ReadNeedsToFulfil
    <2> HIDE DEF session
    <2> QED
      BY <1>1, <2>1, <2>2
  <1>9. CASE RecomputeStatus(r)
    <2> DEFINE next == AfterRederive(req[r].move)
               session == [req[r] EXCEPT !.at = next, !.needs = NoNeeds,
                                         !.expired = Rederived(req[r]) # req[r].needs]
    <2>1. session.at \notin Elsewhere
      BY <1>0 DEF SessionType, Elsewhere, AfterRederive
    <2>2. Goto(r, session) \/ End(r)
      BY <1>9 DEF RecomputeStatus
    <2> HIDE DEF session
    <2> QED
      BY <1>1, <1>3, <2>1, <2>2
  <1>10. CASE RejectMovement(r) \/ SetServiceability(r) \/ FulfilFromReceipt(r)
    BY <1>3, <1>10 DEF RejectMovement, SetServiceability, FulfilFromReceipt
  <1>11. CASE PatchPart(r) \/ CreateNeed(r) \/ DerivePatchStatus(r) \/ PatchNeed(r)
    BY <1>11 DEF PatchPart, CreateNeed, DerivePatchStatus, PatchNeed, At, Elsewhere
  <1> QED
    BY <1>4, <1>5, <1>6, <1>7, <1>8, <1>9, <1>10, <1>11 DEF Continue

(* Re-derivation settles only what is covered. *)
LEMMA RederivedFine ==
    ASSUME InventoryInv, NEW r \in Requests, RecomputeStatus(r), req[r].needs = need,
           \A s \in Slots : RowFine(need[s])
    PROVE  \A s \in Slots : /\ RowFine(need'[s])
                            /\ need'[s].required = need[s].required
                            /\ need'[s].fulfilled = need[s].fulfilled
  <1>0. req[r] \in SessionType /\ need \in [Slots -> Need]
    BY DEF InventoryInv, TypeOK
  <1> TAKE s \in Slots
  <1> DEFINE new == Rederived(req[r])
             d == DeriveStatus(need[s], Available(req[r].part))
  <1>1. new \in [Slots -> Need]
    BY <1>0, RederivedTyped
  <1>2. need'[s] = new[s]
    BY <1>0, <1>1, WriteChangedNeedLoaded DEF RecomputeStatus
  <1>3. CASE need[s].status = "ABSENT"
    <2>1. new[s] = need[s]
      BY <1>3 DEF Rederived
    <2> QED
      BY <1>2, <2>1
  <1>4. CASE need[s].status # "ABSENT"
    <2>1. new[s] = [need[s] EXCEPT !.status = d]
      BY <1>4 DEF Rederived
    <2>2. need[s] \in Need /\ RowFine(need[s])
      BY <1>0
    <2>3. d \in Settled => need[s].status \in Settled \/ need[s].required <= need[s].fulfilled
      BY DEF DeriveStatus, Settled, Sticky
    <2>4. d # "ABSENT"
      BY <1>4 DEF DeriveStatus
    <2> HIDE DEF d, new
    <2>5. /\ new[s].status = d /\ new[s].required = need[s].required
          /\ new[s].fulfilled = need[s].fulfilled
      BY <2>1, <2>2 DEF Need
    <2>6. RowFine(new[s])
      BY <2>2, <2>3, <2>4, <2>5 DEF RowFine, Need
    <2> QED
      BY <1>2, <2>5, <2>6
  <1> QED
    BY <1>3, <1>4

LEMMA ReceiptsStep ==
    ASSUME InventoryInv, SerialInv, ReceiptsInv, [MCNext]_mcvars
    PROVE  ReceiptsInv'
  <1>1. CASE UNCHANGED mcvars
    BY <1>1 DEF vars, mcvars, ReceiptsInv, Total, SumOver
  <1>2. CASE MCNext /\ scenario # "receipts"
    <2>1. scenario' # "receipts"
      BY <1>2, MCNextIsNext
    <2> QED
      BY <2>1 DEF ReceiptsInv
  <1>3. CASE MCNext /\ scenario = "receipts"
    <2> PICK r \in Requests : (\E m \in Movements : LockPart(r, m)) \/ Continue(r)
      BY <1>3 DEF MCNext
    <2>0. need \in [Slots -> Need] /\ Knows(req[r], part, need, owed)
      BY <1>3 DEF InventoryInv, TypeOK, SerialInv
    <2>1. /\ \A s \in Slots : RowFine(need[s])
          /\ \A q \in Requests : req[q].at \notin Elsewhere
          /\ Total("fulfilled", need) = Least(allocated, Total("required", need))
      BY <1>3 DEF ReceiptsInv, Elsewhere
    <2>2. \A q \in Requests : req'[q].at \notin Elsewhere
      BY <2>1, StaysInHandlers
    <2> SUFFICES /\ \A s \in Slots : RowFine(need'[s])
                 /\ Total("fulfilled", need') = Least(allocated', Total("required", need'))
      BY <2>2 DEF ReceiptsInv, Elsewhere
    <2>3. CASE FulfilFromReceipt(r)
      BY <1>3, <2>3, ReceiptAccounted
    <2>4. CASE RecomputeStatus(r)
      <3>1. req[r].needs = need /\ allocated' = allocated
        BY <2>0, <2>4 DEF RecomputeStatus, At, Knows, history
      <3>2. \A s \in Slots : /\ RowFine(need'[s])
                             /\ need'[s].required = need[s].required
                             /\ need'[s].fulfilled = need[s].fulfilled
        BY <2>1, <2>4, <3>1, RederivedFine
      <3>3. /\ ColumnOf("fulfilled", need') = ColumnOf("fulfilled", need)
            /\ ColumnOf("required", need') = ColumnOf("required", need)
        BY <3>2 DEF ColumnOf
      <3>4. /\ Total("fulfilled", need') = Total("fulfilled", need)
            /\ Total("required", need') = Total("required", need)
        BY <3>3 DEF Total, ColumnOf
      <3> QED
        BY <2>1, <3>1, <3>2, <3>4
    <2>5. CASE UNCHANGED <<need, allocated>>
      BY <2>1, <2>5
    <2>6. CASE CreateNeed(r) \/ PatchNeed(r) \/ PatchPart(r) \/ DerivePatchStatus(r)
      BY <2>1, <2>6 DEF CreateNeed, PatchNeed, PatchPart, DerivePatchStatus, At, Elsewhere
    <2>7. CASE \/ \E m \in Movements : LockPart(r, m)
               \/ ApplyMovement(r) \/ RejectMovement(r) \/ RefreshPart(r) \/ ReadNeeds(r)
               \/ SetServiceability(r) \/ ReadNeedsToFulfil(r)
      BY <2>5, <2>7 DEF LockPart, ApplyMovement, RejectMovement, RefreshPart, ReadNeeds,
                        SetServiceability, ReadNeedsToFulfil, history
    <2> QED
      BY <2>3, <2>4, <2>6, <2>7 DEF Continue
  <1> QED
    BY <1>1, <1>2, <1>3

LEMMA ReceiptsInit == MCInit => ReceiptsInv
  <1> SUFFICES ASSUME MCInit, scenario = "receipts" PROVE ReceiptsInv
    BY DEF ReceiptsInv
  <1>1. \A r \in Requests : req[r].at \notin Elsewhere
    BY DEF MCInit, Init, Session, Elsewhere
  <1>2. need \in AllShort \cup OneShort /\ need \in [Slots -> Need] /\ allocated = 0
    BY InventoryAssumption DEF MCInit, Init, InventoryAssumption
  <1>3. \A s \in Slots : s \in Nat
    BY InventoryAssumption DEF InventoryAssumption, Slots
  <1>4. ASSUME NEW s \in Slots PROVE RowFine(need[s]) /\ need[s].fulfilled = 0
    <2>1. need[s] = Absent \/ need[s] = Short(s)
      BY <1>2 DEF AllShort, OneShort
    <2> QED
      BY <1>3, <2>1 DEF Absent, Short, RowFine, Settled
  <1> DEFINE f == ColumnOf("fulfilled", need)
  <1>5. f \in [Slots -> Int] /\ \A s \in Slots : f[s] = 0
    BY <1>4 DEF ColumnOf
  <1>6. /\ Total("fulfilled", need) = SumOver(f)
        /\ Total("fulfilled", need) <= Total("required", need)
        /\ Total("required", need) \in Int
    BY <1>2, <1>4, TotalsTyped DEF RowFine
  <1> HIDE DEF f
  <1>7. SumOver(f) = 0
    <2>0. NumSlots \in Nat
      BY InventoryAssumption DEF InventoryAssumption
    <2>1. PICK u \in [0..NumSlots -> Int] :
             /\ u[0] = 0 /\ \A s \in Slots : u[s] = u[s-1] + f[s]
             /\ SumOver(f) = u[NumSlots]
      BY <1>5, SumRecursion
    <2> DEFINE S == {n \in 0..NumSlots : u[n] = 0}
    <2>2. 0 \in S
      BY <2>0, <2>1
    <2>3. ASSUME NEW n \in 1..NumSlots, n - 1 \in S PROVE n \in S
      BY <1>5, <2>0, <2>1, <2>3 DEF Slots
    <2> HIDE DEF S
    <2>4. 0..NumSlots \subseteq S
      BY <2>0, <2>2, <2>3, UpTo
    <2> QED
      BY <2>0, <2>1, <2>4 DEF S
  <1>8. Total("fulfilled", need) = Least(allocated, Total("required", need))
    BY <1>2, <1>6, <1>7 DEF Least
  <1> QED
    BY <1>1, <1>4, <1>8 DEF ReceiptsInv, Elsewhere

(* One receipt at a time, for every number of requirements and whatever they
   require: they are all covered, or everything received has been put to their
   account.                                                                *)
THEOREM ReceiptsReachRequirements == MCSpec => []NoReceiptLost
  <1>1. ReceiptsInv => NoReceiptLost
    BY DEF ReceiptsInv, NoReceiptLost
  <1> QED
    BY <1>1, ReceiptsInit, ReceiptsStep, SerialHistories, MCKeepsInventory, PTL DEF MCSpec
=============================================================================
