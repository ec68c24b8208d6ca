------------------------ MODULE ScreenProtocolProofs ------------------------
(* What every screen keeps to, for every catalog of screens, every number of
   rows, inputs and slots, and every bound on the user's requests.          *)
EXTENDS ScreenProtocol, TLAPS

Typed == screen \in Screens /\ ScreenTypeOK

(* Every action leaves the screen what it is. *)
LEMMA SameScreen == ASSUME [ScreenNext]_screenVars PROVE screen' = screen
  BY DEF ScreenNext, User, Network, Answer, Return, ChangeInput, Refresh, OpenDialog, Submit,
         CloseDialog, ServeLoad, AnswerLoad, FailLoad, ServeCall, AnswerCall, FailCall,
         CloseLater, screenVars

LEMMA TypedInit == ASSUME ScreensAssumption PROVE ScreenInit => Typed
<1> SUFFICES ASSUME ScreenInit PROVE ScreenTypeOK
  BY DEF Typed, ScreenInit
<1>1. loads \in [LoadSlots -> Load \cup {Nothing}]
  BY DEF ScreenInit, Load, Sent, Cancellable
<1>2. server \in [Rows -> Nat] /\ confirmed \in [Rows -> Nat]
  BY DEF ScreenInit
<1>3. /\ calls \in [CallSlots -> Call \cup {Nothing}]
      /\ held \in [Locks -> (Acts \X Rows) \cup {Nothing}]
      /\ dialog \in [Acts -> Rows \cup {Nothing}]
  BY DEF ScreenInit
<1>4. /\ mounted \in BOOLEAN /\ moves \in 0..MaxMoves /\ input \in Inputs
      /\ failed \in BOOLEAN /\ shown = Nothing
  <2>1. mounted = TRUE /\ moves = 0 /\ input = First /\ failed = FALSE /\ shown = Nothing
    BY Zenon DEF ScreenInit
  <2>2. First \in Inputs /\ 0 \in 0..MaxMoves
    BY ScreensAssumption
  <2> QED BY <2>1, <2>2
<1>5. loading \in BOOLEAN
  BY Zenon DEF ScreenInit
<1> QED BY <1>1, <1>2, <1>3, <1>4, <1>5 DEF ScreenTypeOK

(* What a load that starts leaves is of the types of the state. *)
LEMMA IssueTyped ==
  ASSUME ScreenTypeOK, NEW i \in Inputs, NEW c \in CallSlots \cup {Nothing}, NEW why,
         Issue(i, c, why)
  PROVE  /\ loads' \in [LoadSlots -> Load \cup {Nothing}]
         /\ loading' \in BOOLEAN /\ failed' \in BOOLEAN
<1>1. Sent(i, c, why) \in Load
  BY DEF Sent, Load, Cancellable, ScreenTypeOK
<1>2. ASSUME NEW t \in LoadSlots, loads[t] # Nothing
      PROVE  [loads[t] EXCEPT !.live = @ /\ ~loads[t].cancellable] \in Load
  BY <1>2 DEF ScreenTypeOK, Load
<1> QED BY <1>1, <1>2 DEF Issue, ScreenTypeOK

(* Freeing, forgetting and orphaning keep the types. *)
LEMMA HeldTyped ==
  ASSUME ScreenTypeOK
  PROVE  /\ \A c \in CallSlots : Freed(c) \in [Locks -> (Acts \X Rows) \cup {Nothing}]
         /\ \A h \in [Locks -> (Acts \X Rows) \cup {Nothing}] :
               Forgotten(h) \in [Locks -> (Acts \X Rows) \cup {Nothing}]
         /\ \A cs \in [CallSlots -> Call \cup {Nothing}] :
               Orphaned(cs) \in [CallSlots -> Call \cup {Nothing}]
<1>1. ASSUME NEW cs \in [CallSlots -> Call \cup {Nothing}]
      PROVE  Orphaned(cs) \in [CallSlots -> Call \cup {Nothing}]
  BY DEF Orphaned, Call, CallOn, Acts
<1> QED BY <1>1 DEF Freed, Forgotten, ScreenTypeOK

LEMMA TypedStep == ASSUME ScreensAssumption, Typed, [ScreenNext]_screenVars PROVE Typed'
<1> screen' = screen
  BY SameScreen
<1> Acts' = Acts /\ Locks' = Locks /\ Load' = Load /\ Call' = Call
  BY DEF Acts, Locks, Load, Call, CallOn
<1> SUFFICES ScreenTypeOK'
  BY DEF Typed
<1> ScreenTypeOK
  BY DEF Typed
<1>0. CASE UNCHANGED screenVars
  BY <1>0 DEF screenVars, ScreenTypeOK
<1>g. Gesture => moves' \in 0..MaxMoves
  BY ScreensAssumption DEF Gesture, ScreenTypeOK
<1>h. /\ Forgotten(held) \in [Locks -> (Acts \X Rows) \cup {Nothing}]
      /\ Orphaned(calls) \in [CallSlots -> Call \cup {Nothing}]
  BY HeldTyped DEF ScreenTypeOK
<1>1. ASSUME NEW i \in Inputs, ChangeInput(i) PROVE ScreenTypeOK'
  <2>1. Issue(i, Nothing, "effect")
    BY <1>1 DEF ChangeInput
  <2>2. /\ loads' \in [LoadSlots -> Load \cup {Nothing}]
        /\ loading' \in BOOLEAN /\ failed' \in BOOLEAN
    BY <2>1, IssueTyped
  <2> QED BY <1>1, <2>2, <1>g, <1>h DEF ChangeInput, ScreenTypeOK
<1>2. CASE Refresh
  <2>1. Issue(input, Nothing, "handler") /\ input \in Inputs
    BY <1>2 DEF Refresh, ScreenTypeOK
  <2>2. /\ loads' \in [LoadSlots -> Load \cup {Nothing}]
        /\ loading' \in BOOLEAN /\ failed' \in BOOLEAN
    BY <2>1, IssueTyped
  <2> QED BY <1>2, <2>2, <1>g, <1>h DEF Refresh, ScreenTypeOK
<1>3. ASSUME NEW i \in Acts, NEW r \in Rows, OpenDialog(i, r) PROVE ScreenTypeOK'
  BY <1>3 DEF OpenDialog, ScreenTypeOK
<1>4. ASSUME NEW i \in Acts, CloseDialog(i) PROVE ScreenTypeOK'
  BY <1>4 DEF CloseDialog, ScreenTypeOK
<1>5. ASSUME NEW i \in Acts, NEW r \in Rows, Submit(i, r) PROVE ScreenTypeOK'
  <2>1. calls' \in [CallSlots -> Call \cup {Nothing}]
    BY <1>5 DEF Submit, ScreenTypeOK, Call, CallOn, Acts
  <2>2. held' \in [Locks -> (Acts \X Rows) \cup {Nothing}]
    BY <1>5 DEF Submit, ScreenTypeOK
  <2> QED BY <1>5, <2>1, <2>2, <1>g DEF Submit, ScreenTypeOK
<1>6. ASSUME NEW s \in LoadSlots, ServeLoad(s) PROVE ScreenTypeOK'
  <2>1. loads' = [loads EXCEPT ![s] = [loads[s] EXCEPT !.at = "served", !.rows = server]]
    BY <1>6 DEF ServeLoad, ScreenTypeOK
  <2>2. [loads[s] EXCEPT !.at = "served", !.rows = server] \in Load
    <3>1. loads[s] \in Load /\ server \in [Rows -> Nat]
      BY <1>6 DEF ServeLoad, ScreenTypeOK
    <3> QED BY <3>1 DEF Load
  <2>3. loads' \in [LoadSlots -> Load \cup {Nothing}]
    BY <2>1, <2>2 DEF ScreenTypeOK
  <2> QED BY <1>6, <2>3 DEF ServeLoad, ScreenTypeOK
<1>f. ASSUME NEW s \in LoadSlots, Finish(s)
      PROVE  /\ loads' \in [LoadSlots -> Load \cup {Nothing}]
             /\ calls' \in [CallSlots -> Call \cup {Nothing}]
             /\ held' \in [Locks -> (Acts \X Rows) \cup {Nothing}]
  <2>1. loads[s].call # Nothing =>
           held' = [held EXCEPT ![LockOf(calls[loads[s].call].act)] = Nothing] \/ held' = held
    BY <1>f DEF Finish, Freed
  <2> QED BY <1>f, <2>1 DEF Finish, ScreenTypeOK
<1>7. ASSUME NEW s \in LoadSlots, AnswerLoad(s) PROVE ScreenTypeOK'
  <2>1. loads[s] \in Load
    BY <1>7 DEF AnswerLoad, ScreenTypeOK
  <2>2. shown' \in [input : Inputs, rows : [Rows -> Nat]] \cup {Nothing}
    BY <1>7, <2>1 DEF AnswerLoad, ScreenTypeOK, Load
  <2>3. Finish(s) /\ loading' \in BOOLEAN /\ failed' \in BOOLEAN
    BY <1>7 DEF AnswerLoad, ScreenTypeOK
  <2>4. dialog' \in [Acts -> Rows \cup {Nothing}]
    BY <1>7 DEF AnswerLoad, ScreenTypeOK
  <2> QED BY <1>7, <2>2, <2>3, <2>4, <1>f DEF AnswerLoad, ScreenTypeOK
<1>8. ASSUME NEW s \in LoadSlots, FailLoad(s) PROVE ScreenTypeOK'
  <2>1. /\ Finish(s) /\ loading' \in BOOLEAN /\ failed' \in BOOLEAN
        /\ shown' \in {shown, Nothing}
    BY <1>8 DEF FailLoad, ScreenTypeOK
  <2> QED BY <1>8, <2>1, <1>f DEF FailLoad, ScreenTypeOK
<1>9. ASSUME NEW c \in CallSlots, ServeCall(c) PROVE ScreenTypeOK'
  <2>1. calls[c] \in Call
    BY <1>9 DEF ServeCall, ScreenTypeOK
  <2>2. /\ calls[c].row \in Rows
        /\ server' = [server EXCEPT ![calls[c].row] = @ + 1]
        /\ calls' = [calls EXCEPT ![c].at = "done", ![c].ver = server[calls[c].row] + 1]
    BY <1>9, <2>1 DEF ServeCall, Call, CallOn, Acts
  <2>3. server' \in [Rows -> Nat] /\ server[calls[c].row] + 1 \in Nat
    BY <2>2 DEF ScreenTypeOK
  <2>4. calls' \in [CallSlots -> Call \cup {Nothing}]
    BY <2>1, <2>2, <2>3 DEF ScreenTypeOK, Call, CallOn, Acts
  <2> QED BY <1>9, <2>3, <2>4 DEF ServeCall, ScreenTypeOK
<1>10. ASSUME NEW c \in CallSlots, AnswerCall(c) PROVE ScreenTypeOK'
  <2>1. calls[c] \in Call /\ Remains(c) \in Call \cup {Nothing}
    <3>1. calls[c] \in Call
      BY <1>10 DEF AnswerCall, ScreenTypeOK
    <3> QED BY <3>1 DEF Call, CallOn, Remains
  <2> DEFINE rest == [calls EXCEPT ![c] = Remains(c)]
  <2>2. rest \in [CallSlots -> Call \cup {Nothing}]
    BY <2>1 DEF ScreenTypeOK
  <2>3. Orphaned(rest) \in [CallSlots -> Call \cup {Nothing}]
    BY <2>2, HeldTyped
  <2>4. /\ Freed(c) \in [Locks -> (Acts \X Rows) \cup {Nothing}]
        /\ Forgotten(Freed(c)) \in [Locks -> (Acts \X Rows) \cup {Nothing}]
    BY HeldTyped
  <2>5. /\ calls' \in {rest, Orphaned(rest)}
        /\ held' \in {held, Freed(c), Forgotten(held), Forgotten(Freed(c))}
    BY <1>10 DEF AnswerCall
  <2>6. /\ input' \in Inputs
        /\ mounted' \in BOOLEAN
        /\ dialog' \in [Acts -> Rows \cup {Nothing}]
    BY <1>10, ScreensAssumption DEF AnswerCall, ScreenTypeOK
  <2>7. /\ confirmed' \in [Rows -> Nat]
        /\ shown' \in [input : Inputs, rows : [Rows -> Nat]] \cup {Nothing}
    BY <1>10, <2>1 DEF AnswerCall, ScreenTypeOK, Call, CallOn, Acts, Latest
  <2>8. /\ loads' \in [LoadSlots -> Load \cup {Nothing}]
        /\ loading' \in BOOLEAN /\ failed' \in BOOLEAN
    <3>1. CASE ~The(calls[c].act).reloads
      BY <1>10, <3>1 DEF AnswerCall, ScreenTypeOK
    <3>2. ASSUME The(calls[c].act).reloads
          PROVE  \E d \in CallSlots \cup {Nothing}, w \in {"quiet", "handler"} :
                    Issue(input', d, w)
      BY <1>10, <3>2 DEF AnswerCall
    <3> QED BY <3>1, <3>2, <2>6, IssueTyped
  <2> QED BY <1>10, <1>h, <2>2, <2>3, <2>4, <2>5, <2>6, <2>7, <2>8
          DEF AnswerCall, ScreenTypeOK
<1>11. ASSUME NEW c \in CallSlots, FailCall(c) PROVE ScreenTypeOK'
  BY <1>11, HeldTyped DEF FailCall, ScreenTypeOK
<1>12. ASSUME NEW c \in CallSlots, CloseLater(c) PROVE ScreenTypeOK'
  BY <1>12 DEF CloseLater, ScreenTypeOK
<1> QED BY <1>0, <1>1, <1>2, <1>3, <1>4, <1>5, <1>6, <1>7, <1>8, <1>9, <1>10, <1>11, <1>12
        DEF ScreenNext, User, Network, Answer, Return
-----------------------------------------------------------------------------
(* What Issue leaves of the loads: one more, the others at most cancelled. *)
LEMMA IssueLoads ==
  ASSUME ScreensAssumption, ScreenTypeOK,
         NEW i \in Inputs, NEW c \in CallSlots \cup {Nothing}, NEW why, Issue(i, c, why)
  PROVE  \E s \in LoadSlots :
            /\ loads[s] = Nothing /\ loads'[s] = Sent(i, c, why) /\ loads'[s] # Nothing
            /\ \A t \in LoadSlots \ {s} :
                  /\ loads[t] = Nothing <=> loads'[t] = Nothing
                  /\ loads[t] # Nothing =>
                        /\ loads'[t].call = loads[t].call /\ loads'[t].at = loads[t].at
                        /\ loads'[t].input = loads[t].input
                        /\ loads'[t].rows = loads[t].rows
                        /\ loads'[t].quiet = loads[t].quiet
                        /\ loads'[t].cancellable = loads[t].cancellable
                        /\ Cancellable(why) /\ loads[t].cancellable => ~loads'[t].live
                        /\ loads'[t].live => loads[t].live
<1>1. PICK s \in LoadSlots :
         /\ Free(loads, s)
         /\ loads' = [t \in LoadSlots |->
                         IF t = s THEN Sent(i, c, why)
                         ELSE IF loads[t] # Nothing /\ Cancellable(why)
                              THEN [loads[t] EXCEPT !.live = @ /\ ~loads[t].cancellable]
                              ELSE loads[t]]
  BY DEF Issue
<1>2. loads[s] = Nothing /\ loads'[s] = Sent(i, c, why)
  BY <1>1 DEF Free
<1>3. Sent(i, c, why) \in Load
  BY DEF Sent, Load, Cancellable, ScreenTypeOK
<1>4. Sent(i, c, why) # Nothing
  BY <1>3, ScreensAssumption
<1>5. ASSUME NEW t \in LoadSlots \ {s}, loads[t] # Nothing, Cancellable(why)
      PROVE  /\ loads[t] \in Load
             /\ loads'[t] = [loads[t] EXCEPT !.live = @ /\ ~loads[t].cancellable]
             /\ loads'[t] \in Load
  <2>1. loads[t] \in Load
    BY <1>5 DEF ScreenTypeOK
  <2>2. [loads[t] EXCEPT !.live = @ /\ ~loads[t].cancellable] \in Load
    BY <2>1 DEF Load
  <2> QED BY <1>1, <1>5, <2>1, <2>2
<1>6. ASSUME NEW t \in LoadSlots \ {s}, loads[t] # Nothing, ~Cancellable(why)
      PROVE  loads'[t] = loads[t]
  BY <1>1, <1>6
<1>7. ASSUME NEW t \in LoadSlots \ {s}, loads[t] = Nothing
      PROVE  loads'[t] = Nothing
  BY <1>1, <1>7
<1>8. ASSUME NEW t \in LoadSlots \ {s}, loads[t] # Nothing
      PROVE  /\ loads'[t] # Nothing
             /\ loads'[t].call = loads[t].call /\ loads'[t].at = loads[t].at
             /\ loads'[t].input = loads[t].input
             /\ loads'[t].rows = loads[t].rows
             /\ loads'[t].quiet = loads[t].quiet
             /\ loads'[t].cancellable = loads[t].cancellable
             /\ Cancellable(why) /\ loads[t].cancellable => ~loads'[t].live
             /\ loads'[t].live => loads[t].live
  <2>1. CASE Cancellable(why)
    <3>1. loads'[t] # Nothing
      BY <1>5, <1>8, <2>1, ScreensAssumption
    <3>2. loads[t] \in Load
      BY <1>5, <1>8, <2>1
    <3>3. loads'[t] = [loads[t] EXCEPT !.live = @ /\ ~loads[t].cancellable]
      BY <1>5, <1>8, <2>1
    <3>4. /\ loads'[t].call = loads[t].call /\ loads'[t].at = loads[t].at
          /\ loads'[t].input = loads[t].input /\ loads'[t].rows = loads[t].rows
          /\ loads'[t].quiet = loads[t].quiet
          /\ loads'[t].cancellable = loads[t].cancellable
      BY <3>2, <3>3 DEF Load
    <3>5. loads'[t].live = (loads[t].live /\ ~loads[t].cancellable)
      BY <3>2, <3>3 DEF Load
    <3> QED BY <3>1, <3>4, <3>5
  <2>2. CASE ~Cancellable(why)
    BY <1>6, <1>8, <2>2
  <2> QED BY <2>1, <2>2
<1> QED BY <1>2, <1>4, <1>7, <1>8

(* Buttons with one busy state are gated together. *)
LEMMA GatedTogether ==
  ASSUME ScreensAssumption, screen \in Screens, NEW i \in Acts, NEW j \in Acts,
         Gated(i), LockOf(i) = LockOf(j)
  PROVE  Gated(j)
<1>1. 0 \notin Acts
  BY ScreensAssumption DEF Acts
<1> QED BY <1>1 DEF Gated, LockOf, Shared

(* The busy state of a gated button is not one that a child forgets. *)
LEMMA GatedKept ==
  ASSUME ScreensAssumption, screen \in Screens, NEW i \in Acts, Gated(i),
         NEW h \in [Locks -> (Acts \X Rows) \cup {Nothing}]
  PROVE  /\ ~Forgets(i) /\ LockOf(i) \in Locks /\ Held(i)
         /\ The(i).lock # "none" /\ The(i).lock # "each"
         /\ Forgotten(h)[LockOf(i)] = h[LockOf(i)]
<1>1. 0 \notin Acts
  BY ScreensAssumption DEF Acts
<1> QED BY <1>1 DEF Gated, LockOf, Shared, Forgets, Forgotten, Locks, Held

LEMMA OrphanedCalls ==
  ASSUME ScreensAssumption, screen \in Screens,
         NEW cs \in [CallSlots -> Call \cup {Nothing}], NEW c \in CallSlots
  PROVE  /\ Orphaned(cs)[c] = Nothing <=> cs[c] = Nothing
         /\ cs[c] # Nothing =>
               /\ Orphaned(cs)[c].act = cs[c].act /\ Orphaned(cs)[c].row = cs[c].row
               /\ Orphaned(cs)[c].at = cs[c].at /\ Orphaned(cs)[c].ver = cs[c].ver
               /\ ~Forgets(cs[c].act) => Orphaned(cs)[c].holds = cs[c].holds
<1>1. CASE cs[c] # Nothing /\ Forgets(cs[c].act)
  <2>1. cs[c] \in Call
    BY <1>1
  <2>2. Orphaned(cs)[c] = [cs[c] EXCEPT !.holds = FALSE]
    BY <1>1 DEF Orphaned
  <2>3. [cs[c] EXCEPT !.holds = FALSE] \in Call
    BY <2>1 DEF Call, CallOn
  <2>4. Orphaned(cs)[c] # Nothing
    BY <2>2, <2>3, ScreensAssumption DEF Call
  <2> QED BY <1>1, <2>1, <2>2, <2>4 DEF Call, CallOn
<1>2. CASE ~(cs[c] # Nothing /\ Forgets(cs[c].act))
  BY <1>2 DEF Orphaned
<1> QED BY <1>1, <1>2
-----------------------------------------------------------------------------
(* What the busy states and the unanswered calls have to do with each other:
   a gated call holds its busy state, alone, until it has been answered.    *)
WaitsIn(cs, c) == cs[c] # Nothing /\ cs[c].at # "closing"
HoldsLock(cs, h) ==
    \A c \in CallSlots : WaitsIn(cs, c) /\ Gated(cs[c].act) =>
        cs[c].holds /\ h[LockOf(cs[c].act)] # Nothing
AloneIn(cs) ==
    \A c, d \in CallSlots : c # d /\ WaitsIn(cs, c) /\ WaitsIn(cs, d) /\ Gated(cs[c].act) =>
        LockOf(cs[c].act) # LockOf(cs[d].act)
ClosesLater(cs) ==
    \A c \in CallSlots : cs[c] # Nothing /\ cs[c].at = "closing" =>
        The(cs[c].act).closes = "later"
LocksIn(cs, h) == HoldsLock(cs, h) /\ AloneIn(cs) /\ ClosesLater(cs)
LocksOK == LocksIn(calls, held)

CallTable == [CallSlots -> Call \cup {Nothing}]
LockTable == [Locks -> (Acts \X Rows) \cup {Nothing}]

LEMMA LocksForgotten ==
  ASSUME ScreensAssumption, screen \in Screens,
         NEW cs \in CallTable, NEW h \in LockTable, LocksIn(cs, h)
  PROVE  LocksIn(Orphaned(cs), Forgotten(h))
<1>1. ASSUME NEW c \in CallSlots, Orphaned(cs)[c] # Nothing
      PROVE  /\ cs[c] # Nothing /\ cs[c] \in Call /\ cs[c].act \in Acts
             /\ Orphaned(cs)[c].act = cs[c].act /\ Orphaned(cs)[c].at = cs[c].at
             /\ ~Forgets(cs[c].act) => Orphaned(cs)[c].holds = cs[c].holds
  BY <1>1, OrphanedCalls DEF CallTable, Call, CallOn, Acts
<1>2. ASSUME NEW c \in CallSlots, WaitsIn(Orphaned(cs), c), Gated(Orphaned(cs)[c].act)
      PROVE  /\ Orphaned(cs)[c].holds
             /\ Forgotten(h)[LockOf(Orphaned(cs)[c].act)] # Nothing
  <2>1. WaitsIn(cs, c) /\ Gated(cs[c].act) /\ cs[c].act \in Acts
    BY <1>1, <1>2 DEF WaitsIn
  <2>2. ~Forgets(cs[c].act) /\ Forgotten(h)[LockOf(cs[c].act)] = h[LockOf(cs[c].act)]
    BY <2>1, GatedKept DEF LockTable
  <2> QED BY <1>1, <1>2, <2>1, <2>2 DEF WaitsIn, LocksIn, HoldsLock
<1>3. HoldsLock(Orphaned(cs), Forgotten(h))
  BY <1>2 DEF HoldsLock
<1>4. AloneIn(Orphaned(cs))
  BY <1>1 DEF LocksIn, AloneIn, WaitsIn
<1>5. ClosesLater(Orphaned(cs))
  BY <1>1 DEF LocksIn, ClosesLater
<1> QED BY <1>3, <1>4, <1>5 DEF LocksIn

(* A waiting call that ends, or only has its dialog to close, and frees its
   busy state or leaves it.                                                 *)
LEMMA LocksEnded ==
  ASSUME LocksOK, ScreenTypeOK, NEW c \in CallSlots, Waiting(c), NEW x,
         x # Nothing => x.at = "closing" /\ The(x.act).closes = "later"
  PROVE  /\ LocksIn([calls EXCEPT ![c] = x], Freed(c))
         /\ LocksIn([calls EXCEPT ![c] = x], held)
<1> DEFINE cs == [calls EXCEPT ![c] = x]
<1>1. \A d \in CallSlots : cs[d] = IF d = c THEN x ELSE calls[d]
  BY DEF ScreenTypeOK
<1>2. ~WaitsIn(cs, c)
  BY <1>1 DEF WaitsIn
<1>3. AloneIn(cs) /\ ClosesLater(cs) /\ HoldsLock(cs, held)
  BY <1>1, <1>2 DEF LocksOK, LocksIn, HoldsLock, AloneIn, ClosesLater, WaitsIn
<1>4. ASSUME NEW d \in CallSlots, WaitsIn(cs, d), Gated(cs[d].act)
      PROVE  cs[d].holds /\ Freed(c)[LockOf(cs[d].act)] # Nothing
  <2>1. d # c /\ cs[d] = calls[d] /\ Waiting(d)
    BY <1>1, <1>2, <1>4 DEF WaitsIn, Waiting
  <2>2. LockOf(calls[d].act) # LockOf(calls[c].act)
    BY <1>4, <2>1 DEF LocksOK, LocksIn, AloneIn, WaitsIn, Waiting
  <2>3. Freed(c)[LockOf(calls[d].act)] = held[LockOf(calls[d].act)]
    BY <2>2 DEF Freed, ScreenTypeOK
  <2> QED BY <1>3, <1>4, <2>1, <2>3 DEF HoldsLock
<1> HIDE DEF cs
<1>5. LocksIn(cs, Freed(c)) /\ LocksIn(cs, held)
  BY <1>3, <1>4 DEF LocksIn, HoldsLock
<1> QED BY <1>5 DEF cs

(* A waiting call that goes on waiting. *)
LEMMA LocksGoOn ==
  ASSUME LocksOK, ScreenTypeOK, NEW c \in CallSlots, Waiting(c), NEW x,
         x # Nothing, x.act = calls[c].act, x.holds = calls[c].holds, x.at # "closing"
  PROVE  LocksIn([calls EXCEPT ![c] = x], held)
<1> DEFINE cs == [calls EXCEPT ![c] = x]
<1>1. \A d \in CallSlots : cs[d] = IF d = c THEN x ELSE calls[d]
  BY DEF ScreenTypeOK
<1>2. AloneIn(cs) /\ ClosesLater(cs) /\ HoldsLock(cs, held)
  BY <1>1 DEF LocksOK, LocksIn, HoldsLock, AloneIn, ClosesLater, WaitsIn, Waiting
<1> QED BY <1>2 DEF LocksIn

(* A call is sent: its button was idle. *)
LEMMA LocksSubmit ==
  ASSUME ScreensAssumption, Typed, LocksOK, NEW i \in Acts, NEW r \in Rows, Submit(i, r)
  PROVE  LocksIn(calls', held')
<1>1. PICK c \in CallSlots :
         /\ Free(calls, c)
         /\ calls' = [calls EXCEPT ![c] = [act |-> i, row |-> r, at |-> "sent", ver |-> 0,
                                           holds |-> The(i).lock # "none"]]
  BY DEF Submit
<1>2. /\ calls[c] = Nothing /\ calls'[c].act = i /\ calls'[c].at = "sent"
      /\ calls'[c].holds = (The(i).lock # "none")
      /\ \A d \in CallSlots \ {c} : calls'[d] = calls[d]
  BY <1>1 DEF Free, Typed, ScreenTypeOK
<1>3. <<i, r>> # Nothing
  BY ScreensAssumption DEF Typed, Acts
<1>4. \A k \in Locks : held'[k] = Nothing => held[k] = Nothing
  BY <1>3 DEF Submit, Typed, ScreenTypeOK
<1>5. ASSUME Gated(i)
      PROVE  /\ LockOf(i) \in Locks /\ held[LockOf(i)] = Nothing
             /\ held'[LockOf(i)] # Nothing /\ The(i).lock # "none"
  <2>1. held \in [Locks -> (Acts \X Rows) \cup {Nothing}]
    BY DEF Typed, ScreenTypeOK
  <2>2. Held(i) /\ LockOf(i) \in Locks /\ The(i).lock # "none" /\ The(i).lock # "each"
    BY <1>5, <2>1, GatedKept DEF Typed
  <2>3. ~The(i).row /\ "idle" \in The(i).offer.where
    BY <1>5 DEF Gated
  <2>4. held[LockOf(i)] = Nothing
    BY <2>2, <2>3 DEF Submit, Idle
  <2>5. held' = [held EXCEPT ![LockOf(i)] = <<i, r>>]
    BY <2>2 DEF Submit
  <2> QED BY <1>3, <2>1, <2>2, <2>4, <2>5
<1>6. ASSUME NEW d \in CallSlots \ {c}, Waiting(d), Gated(calls[d].act) \/ Gated(i)
      PROVE  /\ calls[d].act \in Acts /\ LockOf(calls[d].act) # LockOf(i)
             /\ LockOf(calls[d].act) \in Locks
  <2>1. calls[d].act \in Acts
    BY <1>6 DEF Waiting, Typed, ScreenTypeOK, Call, CallOn, Acts
  <2>2. SUFFICES ASSUME LockOf(calls[d].act) = LockOf(i) PROVE FALSE
    BY <2>1 DEF LockOf, Locks
  <2>3. Gated(i) /\ Gated(calls[d].act)
    BY <1>6, <2>1, <2>2, GatedTogether DEF Typed
  <2>4. held[LockOf(calls[d].act)] # Nothing
    BY <1>6, <2>3 DEF LocksOK, LocksIn, HoldsLock, WaitsIn, Waiting
  <2> QED BY <1>5, <2>2, <2>3, <2>4
<1>7. HoldsLock(calls', held')
  <2> SUFFICES ASSUME NEW d \in CallSlots, WaitsIn(calls', d), Gated(calls'[d].act)
               PROVE  calls'[d].holds /\ held'[LockOf(calls'[d].act)] # Nothing
    BY DEF HoldsLock
  <2>1. CASE d = c
    BY <1>2, <1>5, <2>1
  <2>2. CASE d # c
    <3>1. calls'[d] = calls[d] /\ Waiting(d) /\ Gated(calls[d].act)
      BY <1>2, <2>2 DEF WaitsIn, Waiting
    <3>2. calls[d].holds /\ held[LockOf(calls[d].act)] # Nothing
      BY <3>1 DEF LocksOK, LocksIn, HoldsLock, WaitsIn, Waiting
    <3> QED BY <1>4, <1>6, <2>2, <3>1, <3>2
  <2> QED BY <2>1, <2>2
<1>8. AloneIn(calls')
  <2> SUFFICES ASSUME NEW d \in CallSlots, NEW e \in CallSlots, d # e,
                      WaitsIn(calls', d), WaitsIn(calls', e), Gated(calls'[d].act)
               PROVE  LockOf(calls'[d].act) # LockOf(calls'[e].act)
    BY DEF AloneIn
  <2>1. CASE d = c
    BY <1>2, <1>6, <2>1 DEF WaitsIn, Waiting
  <2>2. CASE e = c
    BY <1>2, <1>6, <2>2 DEF WaitsIn, Waiting
  <2>3. CASE d # c /\ e # c
    BY <1>2, <2>3 DEF LocksOK, LocksIn, AloneIn, WaitsIn
  <2> QED BY <2>1, <2>2, <2>3
<1>9. ClosesLater(calls')
  BY <1>2 DEF LocksOK, LocksIn, ClosesLater
<1> QED BY <1>7, <1>8, <1>9 DEF LocksIn

(* A load that a handler awaits is the only one for its call, and the call
   waits for it.                                                            *)
Awaited ==
    \A s \in LoadSlots : loads[s] # Nothing /\ loads[s].call # Nothing =>
        /\ calls[loads[s].call] # Nothing /\ calls[loads[s].call].at = "reloading"
        /\ \A t \in LoadSlots \ {s} : loads[t] # Nothing => loads[t].call # loads[s].call

(* The load for which a handler waited ends the call of that handler. *)
LEMMA LocksFinish ==
  ASSUME ScreenTypeOK, LocksOK, Awaited, NEW s \in LoadSlots, loads[s] # Nothing, Finish(s)
  PROVE  LocksIn(calls', held')
<1>1. CASE loads[s].call = Nothing
  BY <1>1 DEF Finish, LocksOK
<1>2. CASE loads[s].call # Nothing
  <2>1. loads[s].call \in CallSlots /\ Waiting(loads[s].call)
    BY <1>2 DEF Awaited, Waiting, ScreenTypeOK, Load
  <2>2. /\ held' = Freed(loads[s].call)
        /\ calls' = [calls EXCEPT ![loads[s].call] = Nothing]
    BY <1>2 DEF Finish
  <2> QED BY <2>1, <2>2, LocksEnded
<1> QED BY <1>1, <1>2

(* The three ways in which the success handler leaves its call. *)
LEMMA AnswerLeaves ==
  ASSUME ScreensAssumption, Typed, NEW c \in CallSlots, AnswerCall(c)
  PROVE  /\ calls[c] \in Call /\ Waiting(c) /\ calls[c].at = "done"
         /\ \/ /\ Remains(c) = Nothing
               /\ ~(The(calls[c].act).reloads /\ The(calls[c].act).spans = "reload")
            \/ /\ Remains(c) # Nothing /\ Remains(c) \in Call
               /\ Remains(c).act = calls[c].act /\ Remains(c).row = calls[c].row
               /\ \/ /\ Remains(c).at = "reloading" /\ Remains(c).holds = calls[c].holds
                     /\ The(calls[c].act).reloads /\ The(calls[c].act).spans = "reload"
                  \/ /\ Remains(c).at = "closing" /\ The(calls[c].act).closes = "later"
                     /\ ~(The(calls[c].act).reloads /\ The(calls[c].act).spans = "reload")
<1>1. calls[c] \in Call /\ Waiting(c) /\ calls[c].at = "done"
  BY DEF AnswerCall, Typed, ScreenTypeOK, Waiting
<1>2. CASE The(calls[c].act).reloads /\ The(calls[c].act).spans = "reload"
  <2>1. Remains(c) = [calls[c] EXCEPT !.at = "reloading"]
    BY <1>2 DEF Remains
  <2>2. Remains(c) \in Call
    BY <1>1, <2>1 DEF Call, CallOn
  <2>3. Remains(c) # Nothing
    BY <2>2, ScreensAssumption DEF Call, Typed
  <2> QED BY <1>1, <1>2, <2>1, <2>2, <2>3 DEF Call, CallOn
<1>3. CASE /\ ~(The(calls[c].act).reloads /\ The(calls[c].act).spans = "reload")
           /\ The(calls[c].act).closes = "later"
  <2>1. Remains(c) = [calls[c] EXCEPT !.at = "closing", !.holds = FALSE]
    BY <1>3 DEF Remains
  <2>2. Remains(c) \in Call
    BY <1>1, <2>1 DEF Call, CallOn
  <2>3. Remains(c) # Nothing
    BY <2>2, ScreensAssumption DEF Call, Typed
  <2> QED BY <1>1, <1>3, <2>1, <2>2, <2>3 DEF Call, CallOn
<1>4. CASE /\ ~(The(calls[c].act).reloads /\ The(calls[c].act).spans = "reload")
           /\ The(calls[c].act).closes # "later"
  BY <1>1, <1>4 DEF Remains
<1> QED BY <1>2, <1>3, <1>4

LEMMA LocksAnswer ==
  ASSUME ScreensAssumption, Typed, LocksOK, NEW c \in CallSlots, AnswerCall(c)
  PROVE  LocksIn(calls', held')
<1> DEFINE rest == [calls EXCEPT ![c] = Remains(c)]
           waits == rest[c] # Nothing /\ rest[c].at = "reloading"
           freed == IF waits \/ The(calls[c].act).frees = "failure" THEN held ELSE Freed(c)
<1>1. calls \in CallTable /\ held \in LockTable /\ ScreenTypeOK
  BY DEF Typed, ScreenTypeOK, CallTable, LockTable
<1>2. rest[c] = Remains(c) /\ rest \in CallTable /\ freed \in LockTable
  BY <1>1, AnswerLeaves, HeldTyped DEF CallTable, LockTable
<1>3. LocksIn(rest, freed)
  <2>1. CASE waits
    <3>1. /\ Remains(c) # Nothing /\ Remains(c).act = calls[c].act
          /\ Remains(c).holds = calls[c].holds /\ Remains(c).at = "reloading"
      BY <1>2, <2>1, AnswerLeaves
    <3> QED BY <1>1, <2>1, <3>1, AnswerLeaves, LocksGoOn
  <2>2. CASE ~waits
    <3>1. Remains(c) # Nothing => /\ Remains(c).at = "closing"
                                  /\ The(Remains(c).act).closes = "later"
      BY <1>2, <2>2, AnswerLeaves
    <3>2. LocksIn(rest, Freed(c)) /\ LocksIn(rest, held)
      BY <1>1, <3>1, AnswerLeaves, LocksEnded
    <3> QED BY <3>2
  <2> QED BY <2>1, <2>2
<1>4. \/ calls' = rest /\ held' = freed
      \/ calls' = Orphaned(rest) /\ held' = Forgotten(freed)
  BY DEF AnswerCall
<1> HIDE DEF rest, freed
<1> QED BY <1>2, <1>3, <1>4, LocksForgotten DEF Typed

LEMMA LocksStep ==
  ASSUME ScreensAssumption, Typed, LocksOK, Awaited, [ScreenNext]_screenVars
  PROVE  LocksOK'
<1> screen' = screen
  BY SameScreen
<1> SUFFICES LocksIn(calls', held')
  BY DEF LocksOK, LocksIn, HoldsLock, AloneIn, ClosesLater, WaitsIn, Gated, LockOf, The, Acts
<1> calls \in CallTable /\ held \in LockTable /\ ScreenTypeOK /\ screen \in Screens
  BY DEF Typed, ScreenTypeOK, CallTable, LockTable
<1>a. ASSUME UNCHANGED <<calls, held>> PROVE LocksIn(calls', held')
  BY <1>a DEF LocksOK
<1>b. ASSUME calls' = Orphaned(calls), held' = Forgotten(held) PROVE LocksIn(calls', held')
  BY <1>b, LocksForgotten DEF LocksOK
<1>0. CASE UNCHANGED screenVars
  BY <1>0, <1>a DEF screenVars
<1>1. ASSUME NEW i \in Inputs, ChangeInput(i) PROVE LocksIn(calls', held')
  BY <1>1, <1>b DEF ChangeInput
<1>2. CASE Refresh
  BY <1>2, <1>b DEF Refresh
<1>3. ASSUME NEW i \in Acts, NEW r \in Rows, OpenDialog(i, r) PROVE LocksIn(calls', held')
  BY <1>3, <1>a DEF OpenDialog
<1>4. ASSUME NEW i \in Acts, CloseDialog(i) PROVE LocksIn(calls', held')
  BY <1>4, <1>a DEF CloseDialog
<1>5. ASSUME NEW i \in Acts, NEW r \in Rows, Submit(i, r) PROVE LocksIn(calls', held')
  BY <1>5, LocksSubmit
<1>6. ASSUME NEW s \in LoadSlots, ServeLoad(s) PROVE LocksIn(calls', held')
  BY <1>6, <1>a DEF ServeLoad
<1>7. ASSUME NEW s \in LoadSlots, AnswerLoad(s) PROVE LocksIn(calls', held')
  BY <1>7, LocksFinish DEF AnswerLoad
<1>8. ASSUME NEW s \in LoadSlots, FailLoad(s) PROVE LocksIn(calls', held')
  BY <1>8, LocksFinish DEF FailLoad
<1>9. ASSUME NEW c \in CallSlots, ServeCall(c) PROVE LocksIn(calls', held')
  <2> DEFINE x == [calls[c] EXCEPT !.at = "done", !.ver = server[calls[c].row] + 1]
  <2>1. calls[c] \in Call /\ calls[c].at = "sent" /\ Waiting(c)
    BY <1>9 DEF ServeCall, CallTable, Waiting
  <2>2. server[calls[c].row] + 1 \in Nat
    BY <2>1 DEF ScreenTypeOK, Call, CallOn
  <2>3. x \in Call /\ x.act = calls[c].act /\ x.holds = calls[c].holds /\ x.at = "done"
    BY <2>1, <2>2 DEF Call, CallOn
  <2>4. x # Nothing
    BY <2>3, ScreensAssumption DEF Call
  <2>5. calls' = [calls EXCEPT ![c] = x] /\ held' = held
    BY <1>9 DEF ServeCall, CallTable
  <2> HIDE DEF x
  <2> QED BY <2>1, <2>3, <2>4, <2>5, LocksGoOn
<1>10. ASSUME NEW c \in CallSlots, AnswerCall(c) PROVE LocksIn(calls', held')
  BY <1>10, LocksAnswer
<1>11. ASSUME NEW c \in CallSlots, FailCall(c) PROVE LocksIn(calls', held')
  <2>1. Waiting(c) /\ held' = Freed(c) /\ calls' = [calls EXCEPT ![c] = Nothing]
    BY <1>11 DEF FailCall, Waiting
  <2> QED BY <2>1, LocksEnded
<1>12. ASSUME NEW c \in CallSlots, CloseLater(c) PROVE LocksIn(calls', held')
  <2>1. \A d \in CallSlots : calls'[d] = Nothing \/ calls'[d] = calls[d]
    BY <1>12 DEF CloseLater, CallTable
  <2> QED BY <1>12, <2>1 DEF CloseLater, LocksOK, LocksIn, HoldsLock, AloneIn, ClosesLater,
                             WaitsIn
<1> QED BY <1>0, <1>1, <1>2, <1>3, <1>4, <1>5, <1>6, <1>7, <1>8, <1>9, <1>10, <1>11, <1>12
        DEF ScreenNext, User, Network, Answer, Return

LEMMA AwaitedStep ==
  ASSUME ScreensAssumption, Typed, Awaited, [ScreenNext]_screenVars
  PROVE  Awaited'
<1> loads \in [LoadSlots -> Load \cup {Nothing}] /\ calls \in CallTable /\ ScreenTypeOK
  BY DEF Typed, ScreenTypeOK, CallTable
<1> Nothing \notin CallSlots /\ Nothing \notin Load
  BY ScreensAssumption
<1>a. ASSUME UNCHANGED loads,
             \A c \in CallSlots : calls[c] # Nothing /\ calls[c].at = "reloading" =>
                calls'[c] # Nothing /\ calls'[c].at = "reloading"
      PROVE  Awaited'
  <2>1. \A s \in LoadSlots : loads[s] # Nothing => loads[s].call \in CallSlots \cup {Nothing}
    BY DEF Load
  <2> QED BY <1>a, <2>1 DEF Awaited
<1>b. ASSUME NEW i \in Inputs, NEW why, Issue(i, Nothing, why),
             \A c \in CallSlots : calls[c] # Nothing /\ calls[c].at = "reloading" =>
                calls'[c] # Nothing /\ calls'[c].at = "reloading"
      PROVE  Awaited'
  <2>1. PICK s \in LoadSlots :
           /\ loads'[s] = Sent(i, Nothing, why)
           /\ \A t \in LoadSlots \ {s} :
                 /\ loads[t] = Nothing <=> loads'[t] = Nothing
                 /\ loads[t] # Nothing => loads'[t].call = loads[t].call
    BY <1>b, IssueLoads
  <2>2. loads'[s].call = Nothing
    BY <2>1 DEF Sent
  <2>3. \A t \in LoadSlots : loads[t] # Nothing => loads[t].call \in CallSlots \cup {Nothing}
    BY DEF Load
  <2> QED BY <1>b, <2>1, <2>2, <2>3 DEF Awaited
<1>o. \A c \in CallSlots :
         calls[c] # Nothing /\ calls[c].at = "reloading" =>
            Orphaned(calls)[c] # Nothing /\ Orphaned(calls)[c].at = "reloading"
  BY OrphanedCalls DEF Typed, CallTable
<1>0. CASE UNCHANGED screenVars
  BY <1>0, <1>a DEF screenVars
<1>1. ASSUME NEW i \in Inputs, ChangeInput(i) PROVE Awaited'
  BY <1>1, <1>b, <1>o DEF ChangeInput
<1>2. CASE Refresh
  BY <1>2, <1>b, <1>o DEF Refresh, ScreenTypeOK
<1>3. ASSUME NEW i \in Acts, NEW r \in Rows, OpenDialog(i, r) PROVE Awaited'
  BY <1>3, <1>a DEF OpenDialog
<1>4. ASSUME NEW i \in Acts, CloseDialog(i) PROVE Awaited'
  BY <1>4, <1>a DEF CloseDialog
<1>5. ASSUME NEW i \in Acts, NEW r \in Rows, Submit(i, r) PROVE Awaited'
  <2>1. PICK c \in CallSlots :
           calls[c] = Nothing /\ \A d \in CallSlots \ {c} : calls'[d] = calls[d]
    BY <1>5 DEF Submit, Free, CallTable
  <2> QED BY <1>5, <2>1, <1>a DEF Submit
<1>6. ASSUME NEW s \in LoadSlots, ServeLoad(s) PROVE Awaited'
  <2>1. /\ loads'[s].call = loads[s].call /\ loads[s] # Nothing
        /\ \A t \in LoadSlots \ {s} : loads'[t] = loads[t]
    BY <1>6 DEF ServeLoad, Load
  <2>2. calls' = calls
    BY <1>6 DEF ServeLoad
  <2> QED BY <2>1, <2>2 DEF Awaited
<1>f. ASSUME NEW s \in LoadSlots, loads[s] # Nothing, Finish(s) PROVE Awaited'
  <2>1. /\ loads'[s] = Nothing
        /\ \A t \in LoadSlots \ {s} : loads'[t] = loads[t]
    BY <1>f DEF Finish
  <2>2. \A c \in CallSlots : c # loads[s].call => calls'[c] = calls[c]
    BY <1>f DEF Finish, CallTable
  <2>3. ASSUME NEW t \in LoadSlots, loads'[t] # Nothing, loads'[t].call # Nothing
        PROVE  /\ calls'[loads'[t].call] # Nothing /\ calls'[loads'[t].call].at = "reloading"
               /\ \A u \in LoadSlots \ {t} : loads'[u] # Nothing =>
                     loads'[u].call # loads'[t].call
    <3>1. t # s /\ loads'[t] = loads[t] /\ loads[t].call \in CallSlots
      BY <2>1, <2>3 DEF Load
    <3>2. loads[t].call # loads[s].call
      BY <1>f, <2>3, <3>1 DEF Awaited
    <3> QED BY <2>1, <2>2, <2>3, <3>1, <3>2 DEF Awaited
  <2> QED BY <2>3 DEF Awaited
<1>7. ASSUME NEW s \in LoadSlots, AnswerLoad(s) PROVE Awaited'
  BY <1>7, <1>f DEF AnswerLoad
<1>8. ASSUME NEW s \in LoadSlots, FailLoad(s) PROVE Awaited'
  BY <1>8, <1>f DEF FailLoad
<1>9. ASSUME NEW c \in CallSlots, ServeCall(c) PROVE Awaited'
  <2>1. calls[c].at = "sent" /\ \A d \in CallSlots \ {c} : calls'[d] = calls[d]
    BY <1>9 DEF ServeCall, CallTable
  <2> QED BY <1>9, <2>1, <1>a DEF ServeCall
<1>10. ASSUME NEW c \in CallSlots, AnswerCall(c) PROVE Awaited'
  <2> DEFINE rest == [calls EXCEPT ![c] = Remains(c)]
             waits == rest[c] # Nothing /\ rest[c].at = "reloading"
  <2>1. /\ rest[c] = Remains(c) /\ rest \in CallTable /\ calls[c].at = "done"
        /\ \A d \in CallSlots \ {c} : rest[d] = calls[d]
    BY <1>10, AnswerLeaves DEF CallTable
  <2>2. /\ waits => The(calls[c].act).reloads
        /\ \A d \in CallSlots : rest[d] # Nothing =>
              Orphaned(rest)[d] # Nothing /\ Orphaned(rest)[d].at = rest[d].at
    BY <1>10, <2>1, AnswerLeaves, OrphanedCalls DEF Typed, CallTable
  <2>3. input' \in Inputs
    BY <1>10, ScreensAssumption DEF AnswerCall, ScreenTypeOK
  <2>4. CASE ~The(calls[c].act).reloads
    <3>1. calls' = rest /\ UNCHANGED loads
      BY <1>10, <2>4 DEF AnswerCall
    <3> QED BY <2>1, <3>1, <1>a
  <2>5. CASE The(calls[c].act).reloads /\ ~waits
    <3>1. calls' = Orphaned(rest) /\ \E w \in {"quiet", "handler"} : Issue(input', Nothing, w)
      BY <1>10, <2>5 DEF AnswerCall
    <3>2. \A d \in CallSlots : calls[d] # Nothing /\ calls[d].at = "reloading" =>
             calls'[d] # Nothing /\ calls'[d].at = "reloading"
      BY <2>1, <2>2, <3>1
    <3> QED BY <2>3, <3>1, <3>2, <1>b
  <2>6. CASE waits
    <3>1. calls' = Orphaned(rest) /\ \E w \in {"quiet", "handler"} : Issue(input', c, w)
      BY <1>10, <2>2, <2>6 DEF AnswerCall
    <3>2. PICK s \in LoadSlots, w \in {"quiet", "handler"} :
             /\ loads'[s] = Sent(input', c, w)
             /\ \A t \in LoadSlots \ {s} :
                   /\ loads[t] = Nothing <=> loads'[t] = Nothing
                   /\ loads[t] # Nothing => loads'[t].call = loads[t].call
      BY <2>3, <3>1, IssueLoads
    <3>3. loads'[s].call = c /\ calls'[c] # Nothing /\ calls'[c].at = "reloading"
      <4>1. loads'[s].call = c
        BY <3>2 DEF Sent
      <4>2. Orphaned(rest)[c] # Nothing /\ Orphaned(rest)[c].at = "reloading"
        BY <2>2, <2>6
      <4> QED BY <3>1, <4>1, <4>2
    <3>4. \A t \in LoadSlots : loads[t] # Nothing =>
             loads[t].call \in CallSlots \cup {Nothing} /\ loads[t].call # c
      BY <2>1 DEF Load, Awaited
    <3>5. \A d \in CallSlots \ {c} : calls[d] # Nothing /\ calls[d].at = "reloading" =>
             calls'[d] # Nothing /\ calls'[d].at = "reloading"
      BY <2>1, <2>2, <3>1
    <3> QED BY <3>2, <3>3, <3>4, <3>5 DEF Awaited
  <2> QED BY <2>4, <2>5, <2>6
<1>11. ASSUME NEW c \in CallSlots, FailCall(c) PROVE Awaited'
  <2>1. /\ calls[c].at \in {"sent", "done"}
        /\ \A d \in CallSlots \ {c} : calls'[d] = calls[d]
    BY <1>11 DEF FailCall, CallTable
  <2> QED BY <1>11, <2>1, <1>a DEF FailCall
<1>12. ASSUME NEW c \in CallSlots, CloseLater(c) PROVE Awaited'
  <2>1. calls[c].at = "closing" /\ \A d \in CallSlots \ {c} : calls'[d] = calls[d]
    BY <1>12 DEF CloseLater, CallTable
  <2> QED BY <1>12, <2>1, <1>a DEF CloseLater
<1> QED BY <1>0, <1>1, <1>2, <1>3, <1>4, <1>5, <1>6, <1>7, <1>8, <1>9, <1>10, <1>11, <1>12
        DEF ScreenNext, User, Network, Answer, Return
-----------------------------------------------------------------------------
Unanswered(c) == calls[c] # Nothing /\ calls[c].at \in {"sent", "done"}

(* Of the acts of a persistent dialog, one waits at a time.                 *)
LEMMA OneOfDialog ==
  ASSUME LocksOK, NEW c \in CallSlots, NEW d \in CallSlots, c # d, Waiting(c), Waiting(d),
         Gated(calls[c].act)
  PROVE  calls[c].act # calls[d].act
  BY DEF LocksOK, LocksIn, AloneIn, WaitsIn, Waiting

LEMMA DialogStep ==
  ASSUME ScreensAssumption, Typed, LocksOK, Awaited, DialogWaits, [ScreenNext]_screenVars
  PROVE  DialogWaits'
<1> screen' = screen
  BY SameScreen
<1> /\ calls \in CallTable /\ loads \in [LoadSlots -> Load \cup {Nothing}]
    /\ dialog \in [Acts -> Rows \cup {Nothing}] /\ screen \in Screens
    /\ Nothing \notin Rows
  BY ScreensAssumption DEF Typed, ScreenTypeOK, CallTable
<1> SUFFICES ASSUME NEW d \in CallSlots, calls'[d] # Nothing,
                    calls'[d].at \in {"sent", "done"}, Persistent(calls'[d].act)
             PROVE  dialog'[calls'[d].act] = calls'[d].row
  BY DEF DialogWaits, Persistent, Gated, LockOf, The, Acts
<1>w. ASSUME Unanswered(d), Persistent(calls[d].act)
      PROVE  /\ calls[d].act \in Acts /\ calls[d].row \in Rows /\ Waiting(d)
             /\ dialog[calls[d].act] = calls[d].row
  BY <1>w DEF DialogWaits, CallTable, Call, CallOn, Acts, Waiting, Unanswered
<1>a. ASSUME Unanswered(d), UNCHANGED dialog,
             calls'[d].act = calls[d].act, calls'[d].row = calls[d].row
      PROVE  dialog'[calls'[d].act] = calls'[d].row
  BY <1>a, <1>w
<1>b. ASSUME calls' = Orphaned(calls), UNCHANGED dialog
      PROVE  dialog'[calls'[d].act] = calls'[d].row
  <2>1. Unanswered(d) /\ calls'[d].act = calls[d].act /\ calls'[d].row = calls[d].row
    BY <1>b, OrphanedCalls DEF CallTable, Unanswered
  <2> QED BY <1>b, <2>1, <1>a
<1>0. CASE UNCHANGED screenVars
  BY <1>0, <1>a DEF screenVars, Unanswered
<1>1. CASE \E i \in Inputs : ChangeInput(i)
  BY <1>1, <1>b DEF ChangeInput
<1>2. CASE Refresh
  BY <1>2, <1>b DEF Refresh
<1>3. ASSUME NEW i \in Acts, NEW r \in Rows, OpenDialog(i, r)
      PROVE  dialog'[calls'[d].act] = calls'[d].row
  <2>1. Unanswered(d) /\ calls' = calls
    BY <1>3 DEF OpenDialog, Unanswered
  <2>2. calls[d].act # i
    <3>1. SUFFICES ASSUME calls[d].act = i PROVE FALSE
      OBVIOUS
    <3>2. dialog[i] # Nothing /\ Answering(i)
      BY <1>w, <2>1, <3>1 DEF Answering, Unanswered
    <3>3. The(i).offer.closable \in {"switch", "yes"}
      BY <1>3, <3>2 DEF OpenDialog, MayClose
    <3> QED BY <2>1, <3>1, <3>3 DEF Persistent
  <2> QED BY <1>3, <1>w, <2>1, <2>2 DEF OpenDialog
<1>4. ASSUME NEW i \in Acts, CloseDialog(i)
      PROVE  dialog'[calls'[d].act] = calls'[d].row
  <2>1. Unanswered(d) /\ calls' = calls
    BY <1>4 DEF CloseDialog, Unanswered
  <2>2. calls[d].act # i
    <3>1. SUFFICES ASSUME calls[d].act = i PROVE FALSE
      OBVIOUS
    <3>2. Answering(i)
      BY <1>w, <2>1, <3>1 DEF Answering, Unanswered
    <3>3. The(i).offer.closable = "yes"
      BY <1>4, <3>2 DEF CloseDialog, MayClose
    <3> QED BY <2>1, <3>1, <3>3 DEF Persistent
  <2> QED BY <1>4, <1>w, <2>1, <2>2 DEF CloseDialog
<1>5. ASSUME NEW i \in Acts, NEW r \in Rows, Submit(i, r)
      PROVE  dialog'[calls'[d].act] = calls'[d].row
  <2>1. PICK c \in CallSlots :
           /\ calls'[c].act = i /\ calls'[c].row = r
           /\ \A e \in CallSlots \ {c} : calls'[e] = calls[e]
    BY <1>5 DEF Submit, CallTable
  <2>2. CASE d = c
    BY <1>5, <2>1, <2>2 DEF Submit, Persistent
  <2>3. CASE d # c
    BY <1>5, <2>1, <2>3, <1>a DEF Submit, Unanswered
  <2> QED BY <2>2, <2>3
<1>6. CASE \E s \in LoadSlots : ServeLoad(s)
  BY <1>6, <1>a DEF ServeLoad, Unanswered
<1>f. ASSUME NEW s \in LoadSlots, loads[s] # Nothing, Finish(s)
      PROVE  /\ calls'[d] = calls[d] /\ Unanswered(d)
             /\ loads[s].call # Nothing =>
                   calls[loads[s].call].act # calls[d].act
  <2>1. loads[s].call # Nothing =>
           /\ loads[s].call \in CallSlots /\ Waiting(loads[s].call)
           /\ calls[loads[s].call].at = "reloading"
    BY <1>f DEF Awaited, Waiting, Load
  <2>2. calls'[d] = calls[d] /\ Unanswered(d)
    BY <1>f, <2>1 DEF Finish, Unanswered, CallTable
  <2>3. Gated(calls[d].act) /\ Waiting(d)
    BY <2>2, <1>w DEF Persistent
  <2> QED BY <2>1, <2>2, <2>3, OneOfDialog DEF Unanswered
<1>7. ASSUME NEW s \in LoadSlots, AnswerLoad(s)
      PROVE  dialog'[calls'[d].act] = calls'[d].row
  <2>1. /\ calls'[d] = calls[d] /\ Unanswered(d)
        /\ loads[s].call # Nothing => calls[loads[s].call].act # calls[d].act
    BY <1>7, <1>f DEF AnswerLoad
  <2>2. calls[d].act \in Acts
    BY <1>w, <2>1
  <2>3. dialog'[calls[d].act] = dialog[calls[d].act]
    BY <1>7, <2>1, <2>2 DEF AnswerLoad
  <2> QED BY <1>w, <2>1, <2>3
<1>8. ASSUME NEW s \in LoadSlots, FailLoad(s)
      PROVE  dialog'[calls'[d].act] = calls'[d].row
  BY <1>8, <1>f, <1>a DEF FailLoad
<1>9. ASSUME NEW c \in CallSlots, ServeCall(c)
      PROVE  dialog'[calls'[d].act] = calls'[d].row
  <2>1. calls[c] \in Call /\ calls[c].at = "sent" /\ calls[c] # Nothing
    BY <1>9 DEF ServeCall, CallTable
  <2>2. calls'[d].act = calls[d].act /\ calls'[d].row = calls[d].row /\ Unanswered(d)
    BY <1>9, <2>1 DEF ServeCall, CallTable, Unanswered, Call, CallOn
  <2> QED BY <1>9, <2>2, <1>a DEF ServeCall
<1>10. ASSUME NEW c \in CallSlots, AnswerCall(c)
       PROVE  dialog'[calls'[d].act] = calls'[d].row
  <2> DEFINE rest == [calls EXCEPT ![c] = Remains(c)]
  <2>1. /\ rest[c] = Remains(c) /\ rest \in CallTable /\ Waiting(c)
        /\ \A e \in CallSlots \ {c} : rest[e] = calls[e]
        /\ Remains(c) # Nothing => Remains(c).at \in {"reloading", "closing"}
    BY <1>10, AnswerLeaves DEF CallTable
  <2>2. calls' \in {rest, Orphaned(rest)}
    BY <1>10 DEF AnswerCall
  <2>3. /\ rest[d] # Nothing /\ rest[d].act = calls'[d].act /\ rest[d].row = calls'[d].row
        /\ rest[d].at = calls'[d].at
    <3>1. CASE calls' = rest
      BY <3>1
    <3>2. CASE calls' = Orphaned(rest)
      <4> HIDE DEF rest
      <4> QED BY <2>1, <3>2, OrphanedCalls DEF CallTable
    <3> QED BY <2>2, <3>1, <3>2
  <2>4. d # c /\ Unanswered(d) /\ calls'[d].act = calls[d].act /\ calls'[d].row = calls[d].row
    BY <2>1, <2>3 DEF Unanswered
  <2>5. Gated(calls[d].act) /\ Waiting(d) /\ calls[d].act \in Acts
    BY <1>w, <2>4 DEF Persistent
  <2>6. calls[d].act # calls[c].act
    BY <2>1, <2>4, <2>5, OneOfDialog
  <2>7. dialog' \in {dialog, [dialog EXCEPT ![calls[c].act] = Nothing]}
    BY <1>10 DEF AnswerCall
  <2>8. dialog'[calls[d].act] = dialog[calls[d].act]
    BY <2>5, <2>6, <2>7
  <2> QED BY <1>w, <2>4, <2>8
<1>11. ASSUME NEW c \in CallSlots, FailCall(c)
       PROVE  dialog'[calls'[d].act] = calls'[d].row
  <2>1. calls'[d] = calls[d] /\ Unanswered(d)
    BY <1>11 DEF FailCall, CallTable, Unanswered
  <2> QED BY <1>11, <2>1, <1>a DEF FailCall
<1>12. ASSUME NEW c \in CallSlots, CloseLater(c)
       PROVE  dialog'[calls'[d].act] = calls'[d].row
  <2>1. calls'[d] = calls[d] /\ Unanswered(d)
    BY <1>12 DEF CloseLater, CallTable, Unanswered
  <2>2. The(calls[c].act).closes = "later"
    BY <1>12 DEF CloseLater, LocksOK, LocksIn, ClosesLater
  <2>3. calls[d].act # calls[c].act
    BY <2>1, <2>2 DEF Persistent
  <2> QED BY <1>12, <1>w, <2>1, <2>3 DEF CloseLater
<1> QED BY <1>0, <1>1, <1>2, <1>3, <1>4, <1>5, <1>6, <1>7, <1>8, <1>9, <1>10, <1>11, <1>12
        DEF ScreenNext, User, Network, Answer, Return
-----------------------------------------------------------------------------
(* Nothing is reported as saved that the backend does not have. *)
VersionsOK ==
    /\ \A r \in Rows : confirmed[r] <= server[r]
    /\ \A c \in CallSlots : calls[c] # Nothing /\ calls[c].at = "done" =>
           calls[c].ver <= server[calls[c].row]

LEMMA VersionsStep ==
  ASSUME ScreensAssumption, Typed, VersionsOK, [ScreenNext]_screenVars
  PROVE  VersionsOK'
<1> /\ calls \in CallTable /\ screen \in Screens
    /\ server \in [Rows -> Nat] /\ confirmed \in [Rows -> Nat]
  BY DEF Typed, ScreenTypeOK, CallTable
<1>a. ASSUME UNCHANGED <<server, confirmed>>,
             \A c \in CallSlots : calls'[c] # Nothing /\ calls'[c].at = "done" =>
                /\ calls[c] # Nothing /\ calls[c].at = "done"
                /\ calls'[c].ver = calls[c].ver /\ calls'[c].row = calls[c].row
      PROVE  VersionsOK'
  BY <1>a DEF VersionsOK
<1>o. ASSUME UNCHANGED <<server, confirmed>>, calls' = Orphaned(calls) PROVE VersionsOK'
  BY <1>o, <1>a, OrphanedCalls DEF CallTable
<1>0. CASE UNCHANGED screenVars
  BY <1>0, <1>a DEF screenVars
<1>1. CASE \E i \in Inputs : ChangeInput(i)
  BY <1>1, <1>o DEF ChangeInput
<1>2. CASE Refresh
  BY <1>2, <1>o DEF Refresh
<1>3. CASE \E i \in Acts, r \in Rows : OpenDialog(i, r)
  BY <1>3, <1>a DEF OpenDialog
<1>4. CASE \E i \in Acts : CloseDialog(i)
  BY <1>4, <1>a DEF CloseDialog
<1>5. ASSUME NEW i \in Acts, NEW r \in Rows, Submit(i, r) PROVE VersionsOK'
  <2>1. PICK c \in CallSlots :
           calls'[c].at = "sent" /\ \A d \in CallSlots \ {c} : calls'[d] = calls[d]
    BY <1>5 DEF Submit, CallTable
  <2> QED BY <1>5, <2>1, <1>a DEF Submit
<1>6. CASE \E s \in LoadSlots : ServeLoad(s)
  BY <1>6, <1>a DEF ServeLoad
<1>f. ASSUME NEW s \in LoadSlots, Finish(s), UNCHANGED <<server, confirmed>> PROVE VersionsOK'
  <2>1. \A d \in CallSlots : calls'[d] = Nothing \/ calls'[d] = calls[d]
    BY <1>f DEF Finish, CallTable
  <2> QED BY <1>f, <2>1, <1>a
<1>7. CASE \E s \in LoadSlots : AnswerLoad(s)
  BY <1>7, <1>f DEF AnswerLoad
<1>8. CASE \E s \in LoadSlots : FailLoad(s)
  BY <1>8, <1>f DEF FailLoad
<1>9. ASSUME NEW c \in CallSlots, ServeCall(c) PROVE VersionsOK'
  <2>1. calls[c] \in Call /\ calls[c].row \in Rows
    BY <1>9 DEF ServeCall, CallTable, Call, CallOn
  <2>2. /\ server' = [server EXCEPT ![calls[c].row] = server[calls[c].row] + 1]
        /\ calls' = [calls EXCEPT ![c] = [@ EXCEPT !.at = "done",
                                                   !.ver = server[calls[c].row] + 1]]
        /\ confirmed' = confirmed
    BY <1>9 DEF ServeCall, CallTable
  <2>3. \A r \in Rows : server'[r] \in Nat /\ server[r] <= server'[r]
    BY <2>1, <2>2
  <2>4. calls'[c].ver = server'[calls'[c].row]
    BY <2>1, <2>2 DEF CallTable, Call, CallOn
  <2>5. \A d \in CallSlots \ {c} : calls'[d] = calls[d]
    BY <2>2 DEF CallTable
  <2>6. server'[calls'[c].row] \in Nat
    BY <2>1, <2>2, <2>3 DEF CallTable, Call, CallOn
  <2>7. \A r \in Rows : confirmed'[r] <= server'[r]
    BY <2>2, <2>3 DEF VersionsOK
  <2>8. ASSUME NEW d \in CallSlots, calls'[d] # Nothing, calls'[d].at = "done"
        PROVE  calls'[d].ver <= server'[calls'[d].row]
    <3>1. CASE d = c
      BY <2>4, <2>6, <3>1
    <3>2. CASE d # c
      <4>1. calls[d] \in Call /\ calls'[d] = calls[d]
        BY <2>5, <2>8, <3>2 DEF CallTable
      <4>2. calls[d].row \in Rows /\ calls[d].ver \in Nat
        BY <4>1 DEF Call, CallOn
      <4> QED BY <2>3, <2>8, <4>1, <4>2 DEF VersionsOK
    <3> QED BY <3>1, <3>2
  <2> QED BY <2>7, <2>8 DEF VersionsOK
<1>10. ASSUME NEW c \in CallSlots, AnswerCall(c) PROVE VersionsOK'
  <2> DEFINE rest == [calls EXCEPT ![c] = Remains(c)]
  <2>1. /\ rest[c] = Remains(c) /\ rest \in CallTable /\ calls[c] \in Call
        /\ calls[c] # Nothing /\ calls[c].at = "done"
        /\ \A e \in CallSlots \ {c} : rest[e] = calls[e]
        /\ Remains(c) # Nothing => Remains(c).at # "done"
    BY <1>10, AnswerLeaves DEF CallTable, Waiting
  <2>2. calls' \in {rest, Orphaned(rest)} /\ server' = server
    BY <1>10 DEF AnswerCall
  <2> HIDE DEF rest
  <2>3. \A d \in CallSlots : calls'[d] # Nothing /\ calls'[d].at = "done" =>
           /\ calls[d] # Nothing /\ calls[d].at = "done"
           /\ calls'[d].ver = calls[d].ver /\ calls'[d].row = calls[d].row
    BY <2>1, <2>2, OrphanedCalls DEF CallTable
  <2>4. confirmed' = [confirmed EXCEPT ![calls[c].row] = Latest(@, calls[c].ver)]
    BY <1>10 DEF AnswerCall
  <2>5. /\ calls[c].ver \in Nat /\ calls[c].row \in Rows
        /\ calls[c].ver <= server[calls[c].row]
    BY <2>1 DEF VersionsOK, Call, CallOn
  <2>6. \A r \in Rows : confirmed'[r] <= server[r]
    BY <2>4, <2>5 DEF VersionsOK, Latest
  <2> QED BY <2>2, <2>3, <2>6 DEF VersionsOK
<1>11. ASSUME NEW c \in CallSlots, FailCall(c) PROVE VersionsOK'
  <2>1. \A d \in CallSlots : calls'[d] = Nothing \/ calls'[d] = calls[d]
    BY <1>11 DEF FailCall, CallTable
  <2> QED BY <1>11, <2>1, <1>a DEF FailCall
<1>12. ASSUME NEW c \in CallSlots, CloseLater(c) PROVE VersionsOK'
  <2>1. \A d \in CallSlots : calls'[d] = Nothing \/ calls'[d] = calls[d]
    BY <1>12 DEF CloseLater, CallTable
  <2> QED BY <1>12, <2>1, <1>a DEF CloseLater
<1> QED BY <1>0, <1>1, <1>2, <1>3, <1>4, <1>5, <1>6, <1>7, <1>8, <1>9, <1>10, <1>11, <1>12
        DEF ScreenNext, User, Network, Answer, Return
-----------------------------------------------------------------------------
(* On a screen that ignores overtaken answers every load that is still live is
   for the input of now, and was served after all that is reported as saved. *)
Newest == feed.stale = "ignored" /\ Candid
Reloading == \A i \in Acts : The(i).reloads
Fresh(rows) == \A r \in Rows : rows[r] >= confirmed[r]
Live(s) == loads[s] # Nothing /\ loads[s].live

LiveLoads ==
    \A s \in LoadSlots : loads[s] # Nothing =>
        /\ loads[s].cancellable /\ ~loads[s].quiet
        /\ loads[s].live => loads[s].input = input
        /\ Reloading /\ loads[s].live => loads[s].at = "sent" \/ Fresh(loads[s].rows)
ShownOK ==
    shown # Nothing =>
        /\ shown.input = input \/ loading \/ failed
        /\ Reloading => \/ Fresh(shown.rows) \/ failed
                        \/ \E s \in LoadSlots : Live(s)
NewestOK == Newest => LiveLoads /\ ShownOK

(* A load starts on such a screen: it is the only live one. *)
LEMMA NewestIssue ==
  ASSUME ScreensAssumption, Typed, NewestOK, Newest, screen' = screen,
         NEW i \in Inputs, NEW c \in CallSlots \cup {Nothing}, NEW why \in {"effect", "handler"},
         Issue(i, c, why), input' = i
  PROVE  LiveLoads' /\ ShownOK'
<1>1. Cancellable(why) /\ Reloading' = Reloading
  BY DEF Newest, Cancellable, Reloading, Acts, The
<1>2. PICK s \in LoadSlots :
         /\ loads'[s] = Sent(i, c, why) /\ loads'[s] # Nothing
         /\ \A t \in LoadSlots \ {s} :
               /\ loads[t] = Nothing <=> loads'[t] = Nothing
               /\ loads[t] # Nothing =>
                     /\ loads'[t].quiet = loads[t].quiet
                     /\ loads'[t].cancellable = loads[t].cancellable
                     /\ Cancellable(why) /\ loads[t].cancellable => ~loads'[t].live
  BY IssueLoads DEF Typed
<1>3. /\ loads'[s].input = i /\ loads'[s].at = "sent" /\ loads'[s].live
      /\ loads'[s].cancellable /\ ~loads'[s].quiet
  <2>1. loads'[s].input = i /\ loads'[s].at = "sent" /\ loads'[s].live
    BY <1>2 DEF Sent
  <2>2. loads'[s].cancellable = Cancellable(why) /\ loads'[s].quiet = (why = "quiet")
    BY <1>2 DEF Sent
  <2> QED BY <1>1, <2>1, <2>2
<1>4. LiveLoads'
  BY <1>1, <1>2, <1>3 DEF NewestOK, LiveLoads
<1>5. loading'
  BY DEF Issue
<1> QED BY <1>2, <1>3, <1>4, <1>5 DEF ShownOK, Live

LEMMA NewestStep ==
  ASSUME ScreensAssumption, Typed, VersionsOK, NewestOK, [ScreenNext]_screenVars
  PROVE  NewestOK'
<1> screen' = screen
  BY SameScreen
<1>s. Newest' = Newest /\ Reloading' = Reloading /\ Acts' = Acts
  BY DEF Newest, Candid, Reloading, feed, Acts, The
<1> SUFFICES ASSUME Newest PROVE LiveLoads' /\ ShownOK'
  BY <1>s DEF NewestOK
<1> LiveLoads /\ ShownOK
  BY DEF NewestOK
<1> /\ calls \in CallTable /\ loads \in [LoadSlots -> Load \cup {Nothing}]
    /\ server \in [Rows -> Nat] /\ confirmed \in [Rows -> Nat]
  BY DEF Typed, ScreenTypeOK, CallTable
<1>a. ASSUME UNCHANGED <<loads, input, shown, loading, confirmed>>, failed => failed'
      PROVE  LiveLoads' /\ ShownOK'
  BY <1>a, <1>s DEF LiveLoads, ShownOK, Fresh, Live
<1>0. CASE UNCHANGED screenVars
  BY <1>0, <1>a DEF screenVars
<1>1. ASSUME NEW i \in Inputs, ChangeInput(i) PROVE LiveLoads' /\ ShownOK'
  BY <1>1, NewestIssue DEF ChangeInput
<1>2. CASE Refresh
  BY <1>2, NewestIssue DEF Refresh, Typed, ScreenTypeOK
<1>3. CASE \E i \in Acts, r \in Rows : OpenDialog(i, r)
  BY <1>3, <1>a DEF OpenDialog
<1>4. CASE \E i \in Acts : CloseDialog(i)
  BY <1>4, <1>a DEF CloseDialog
<1>5. ASSUME NEW i \in Acts, NEW r \in Rows, Submit(i, r) PROVE LiveLoads' /\ ShownOK'
  BY <1>5, <1>a DEF Submit, Newest, Candid
<1>6. ASSUME NEW s \in LoadSlots, ServeLoad(s) PROVE LiveLoads' /\ ShownOK'
  <2>1. loads[s] \in Load /\ loads[s] # Nothing
    BY <1>6 DEF ServeLoad
  <2>2. /\ loads' = [loads EXCEPT ![s] = [@ EXCEPT !.at = "served", !.rows = server]]
        /\ UNCHANGED <<input, shown, loading, failed, confirmed>>
    BY <1>6 DEF ServeLoad
  <2>3. /\ loads'[s].input = loads[s].input /\ loads'[s].live = loads[s].live
        /\ loads'[s].quiet = loads[s].quiet /\ loads'[s].cancellable = loads[s].cancellable
        /\ loads'[s].rows = server /\ loads'[s].at = "served"
        /\ loads'[s] \in Load
        /\ \A t \in LoadSlots \ {s} : loads'[t] = loads[t]
    BY <2>1, <2>2 DEF Load
  <2>4. loads'[s] # Nothing
    BY <2>3, ScreensAssumption
  <2>5. \A r \in Rows : server[r] >= confirmed'[r]
    BY <2>2 DEF VersionsOK
  <2>6. LiveLoads'
    BY <1>s, <2>1, <2>2, <2>3, <2>5 DEF LiveLoads, Fresh
  <2> QED BY <1>s, <2>1, <2>2, <2>3, <2>4, <2>6 DEF ShownOK, Fresh, Live
<1>f. ASSUME NEW s \in LoadSlots, Finish(s), UNCHANGED <<input, confirmed>>
      PROVE  /\ loads' = [loads EXCEPT ![s] = Nothing]
             /\ LiveLoads'
             /\ ~loads[s].live => \A t \in LoadSlots : Live(t) => Live(t)'
  <2>1. loads' = [loads EXCEPT ![s] = Nothing]
    BY <1>f DEF Finish
  <2> QED BY <1>f, <1>s, <2>1 DEF LiveLoads, Fresh, Live
<1>7. ASSUME NEW s \in LoadSlots, AnswerLoad(s) PROVE LiveLoads' /\ ShownOK'
  <2>1. LiveLoads' /\ (~loads[s].live => \A t \in LoadSlots : Live(t) => Live(t)')
    BY <1>7, <1>f DEF AnswerLoad
  <2>2. CASE loads[s].live
    <3>1. /\ shown' = [input |-> loads[s].input, rows |-> loads[s].rows]
          /\ loads[s].at = "served" /\ loads[s] # Nothing
          /\ input' = input /\ confirmed' = confirmed
      BY <1>7, <2>2 DEF AnswerLoad
    <3>2. loads[s].input = input /\ (Reloading => Fresh(loads[s].rows))
      BY <2>2, <3>1 DEF LiveLoads
    <3> QED BY <1>s, <2>1, <3>1, <3>2 DEF ShownOK, Fresh
  <2>3. CASE ~loads[s].live
    <3>1. UNCHANGED <<shown, loading, failed, input, confirmed>>
      BY <1>7, <2>3 DEF AnswerLoad
    <3> QED BY <1>s, <2>1, <2>3, <3>1 DEF ShownOK, Fresh
  <2> QED BY <2>2, <2>3
<1>8. ASSUME NEW s \in LoadSlots, FailLoad(s) PROVE LiveLoads' /\ ShownOK'
  <2>1. LiveLoads' /\ (~loads[s].live => \A t \in LoadSlots : Live(t) => Live(t)')
    BY <1>8, <1>f DEF FailLoad
  <2>2. CASE loads[s].live
    <3>1. ~loads[s].quiet
      BY <1>8 DEF FailLoad, LiveLoads
    <3>2. failed'
      BY <1>8, <2>2, <3>1 DEF FailLoad, Newest, Candid
    <3> QED BY <2>1, <3>2 DEF ShownOK
  <2>3. CASE ~loads[s].live
    <3>1. UNCHANGED <<shown, loading, failed, input, confirmed>>
      BY <1>8, <2>3 DEF FailLoad
    <3> QED BY <1>s, <2>1, <2>3, <3>1 DEF ShownOK, Fresh
  <2> QED BY <2>2, <2>3
<1>9. CASE \E c \in CallSlots : ServeCall(c)
  BY <1>9, <1>a DEF ServeCall
<1>10. ASSUME NEW c \in CallSlots, AnswerCall(c) PROVE LiveLoads' /\ ShownOK'
  <2>1. calls[c] # Nothing /\ calls[c].act \in Acts
    BY <1>10, AnswerLeaves DEF Waiting, Call, CallOn, Acts
  <2>2. CASE The(calls[c].act).reloads
    <3>1. \E d \in CallSlots \cup {Nothing} : Issue(input', d, "handler")
      BY <1>10, <2>1, <2>2 DEF AnswerCall, Newest, Candid
    <3>2. input' \in Inputs
      BY <1>10, ScreensAssumption DEF AnswerCall, Typed, ScreenTypeOK
    <3> QED BY <3>1, <3>2, NewestIssue
  <2>3. CASE ~The(calls[c].act).reloads
    <3>1. ~Reloading
      BY <2>1, <2>3 DEF Reloading
    <3>2. UNCHANGED <<input, loads, loading, failed>>
      BY <1>10, <2>3 DEF AnswerCall
    <3>3. shown' # Nothing => shown # Nothing /\ shown'.input = shown.input
      BY <1>10 DEF AnswerCall, Typed, ScreenTypeOK
    <3> QED BY <1>s, <3>1, <3>2, <3>3 DEF LiveLoads, ShownOK
  <2> QED BY <2>2, <2>3
<1>11. CASE \E c \in CallSlots : FailCall(c)
  BY <1>11, <1>a DEF FailCall
<1>12. CASE \E c \in CallSlots : CloseLater(c)
  BY <1>12, <1>a DEF CloseLater
<1> QED BY <1>0, <1>1, <1>2, <1>3, <1>4, <1>5, <1>6, <1>7, <1>8, <1>9, <1>10, <1>11, <1>12
        DEF ScreenNext, User, Network, Answer, Return
-----------------------------------------------------------------------------
(* On a serialized screen at most one load is under way: the first, before
   anything is shown or pressed, or the one that the only call awaits.      *)
Serial == Serialized /\ feed.onError # "silent" /\ Reloading

NoneCloses == \A c \in CallSlots : calls[c] # Nothing => calls[c].at # "closing"
OneLoad ==
    \A s \in LoadSlots : loads[s] # Nothing =>
        /\ loads[s].live /\ ~loads[s].quiet
        /\ loads[s].at = "sent" \/ Fresh(loads[s].rows)
        /\ loads[s].call = Nothing => /\ shown = Nothing
                                      /\ \A c \in CallSlots : calls[c] = Nothing
                                      /\ \A i \in Acts : dialog[i] = Nothing
        /\ \A t \in LoadSlots \ {s} : loads[t] = Nothing
SerialShown ==
    shown # Nothing =>
        \/ Fresh(shown.rows) \/ failed
        \/ \E s \in LoadSlots : loads[s] # Nothing
        \/ \E c \in CallSlots : Unanswered(c) /\ The(calls[c].act).tells = "page"
SerialOK == Serial => NoneCloses /\ OneLoad /\ SerialShown

LEMMA OneCall ==
  ASSUME Typed, LocksOK, Serial, NoneCloses, NEW c \in CallSlots, NEW d \in CallSlots,
         calls[c] # Nothing, calls[d] # Nothing
  PROVE  c = d
<1>1. calls[c].act \in Acts /\ calls[d].act \in Acts
  BY DEF Typed, ScreenTypeOK, Call, CallOn, Acts
<1>2. LockOf(calls[c].act) = LockOf(calls[d].act) /\ Gated(calls[c].act)
  BY <1>1 DEF Serial, Serialized
<1> QED BY <1>2 DEF LocksOK, LocksIn, AloneIn, WaitsIn, NoneCloses

(* Before the first load has been answered nothing can be pressed. *)
LEMMA NothingPressed ==
  ASSUME ScreensAssumption, Typed, Serial, OneLoad, NEW s \in LoadSlots, loads[s] # Nothing,
         loads[s].call = Nothing, NEW i \in Acts, NEW r \in Rows
  PROVE  ~OpenDialog(i, r) /\ ~Submit(i, r)
<1>1. ~Visible /\ dialog[i] = Nothing /\ Nothing \notin Rows
  BY ScreensAssumption DEF OneLoad, Visible
<1>2. "content" \in The(i).offer.where
  BY DEF Serial, Serialized
<1> QED BY <1>1, <1>2 DEF OpenDialog, Submit

LEMMA SerialStep ==
  ASSUME ScreensAssumption, Typed, LocksOK, Awaited, VersionsOK, SerialOK,
         [ScreenNext]_screenVars
  PROVE  SerialOK'
<1> screen' = screen
  BY SameScreen
<1>s. Serial' = Serial /\ Acts' = Acts
  BY DEF Serial, Serialized, Gated, LockOf, Reloading, feed, Acts, The
<1> SUFFICES ASSUME Serial PROVE NoneCloses' /\ OneLoad' /\ SerialShown'
  BY <1>s DEF SerialOK
<1> NoneCloses /\ OneLoad /\ SerialShown
  BY DEF SerialOK
<1> /\ calls \in CallTable /\ loads \in [LoadSlots -> Load \cup {Nothing}]
    /\ server \in [Rows -> Nat] /\ confirmed \in [Rows -> Nat]
    /\ Nothing \notin CallSlots
  BY ScreensAssumption DEF Typed, ScreenTypeOK, CallTable
<1>p. \A i : The(i)' = The(i)
  BY DEF The
<1>0. CASE UNCHANGED screenVars
  BY <1>0, <1>s, <1>p DEF screenVars, NoneCloses, OneLoad, SerialShown, Fresh, Unanswered
<1>1. ~\E i \in Inputs : ChangeInput(i)
  BY DEF ChangeInput, Serial, Serialized
<1>2. ~Refresh
  BY DEF Refresh, Serial, Serialized
<1>3. ASSUME NEW i \in Acts, NEW r \in Rows, OpenDialog(i, r)
      PROVE  NoneCloses' /\ OneLoad' /\ SerialShown'
  <2>1. \A s \in LoadSlots : loads[s] # Nothing => loads[s].call # Nothing
    BY <1>3, NothingPressed
  <2>2. UNCHANGED <<shown, failed, loads, calls, confirmed>>
    BY <1>3 DEF OpenDialog
  <2> QED BY <2>1, <2>2, <1>p DEF NoneCloses, OneLoad, SerialShown, Fresh, Unanswered
<1>4. ASSUME NEW i \in Acts, CloseDialog(i)
      PROVE  NoneCloses' /\ OneLoad' /\ SerialShown'
  <2>1. \A j \in Acts : dialog[j] = Nothing => dialog'[j] = Nothing
    BY <1>4 DEF CloseDialog, Typed, ScreenTypeOK
  <2>2. UNCHANGED <<shown, failed, loads, calls, confirmed>>
    BY <1>4 DEF CloseDialog
  <2> QED BY <2>1, <2>2, <1>p, <1>s DEF NoneCloses, OneLoad, SerialShown, Fresh, Unanswered
<1>5. ASSUME NEW i \in Acts, NEW r \in Rows, Submit(i, r)
      PROVE  NoneCloses' /\ OneLoad' /\ SerialShown'
  <2>1. \A s \in LoadSlots : loads[s] # Nothing => loads[s].call # Nothing
    BY <1>5, NothingPressed
  <2>2. PICK c \in CallSlots :
           /\ Free(calls, c)
           /\ calls' = [calls EXCEPT ![c] = [act |-> i, row |-> r, at |-> "sent", ver |-> 0,
                                             holds |-> The(i).lock # "none"]]
    BY <1>5 DEF Submit
  <2>3. /\ calls[c] = Nothing /\ calls'[c] \in Call
        /\ calls'[c].act = i /\ calls'[c].at = "sent"
        /\ \A d \in CallSlots \ {c} : calls'[d] = calls[d]
    BY <2>2 DEF Free, CallTable, Call, CallOn, Acts
  <2>4. calls'[c] # Nothing
    BY <2>3, ScreensAssumption DEF Call, Typed
  <2>5. UNCHANGED <<shown, loads, confirmed>> /\ (failed => failed' \/ The(i).tells = "page")
    BY <1>5 DEF Submit
  <2>6. NoneCloses' /\ OneLoad'
    BY <2>1, <2>3, <2>5 DEF NoneCloses, OneLoad, Fresh
  <2>7. \A d \in CallSlots : Unanswered(d) => Unanswered(d)' /\ calls'[d] = calls[d]
    BY <2>3 DEF Unanswered
  <2>8. Unanswered(c)'
    BY <2>3, <2>4 DEF Unanswered
  <2> QED BY <2>3, <2>5, <2>6, <2>7, <2>8, <1>p DEF SerialShown, Fresh
<1>6. ASSUME NEW s \in LoadSlots, ServeLoad(s)
      PROVE  NoneCloses' /\ OneLoad' /\ SerialShown'
  <2>1. loads[s] \in Load /\ loads[s] # Nothing
    BY <1>6 DEF ServeLoad
  <2>2. /\ loads' = [loads EXCEPT ![s] = [@ EXCEPT !.at = "served", !.rows = server]]
        /\ UNCHANGED <<shown, failed, calls, dialog, confirmed>>
    BY <1>6 DEF ServeLoad
  <2>3. /\ loads'[s].live = loads[s].live /\ loads'[s].quiet = loads[s].quiet
        /\ loads'[s].call = loads[s].call
        /\ loads'[s].rows = server /\ loads'[s].at = "served"
        /\ loads'[s] \in Load
        /\ \A t \in LoadSlots \ {s} : loads'[t] = loads[t]
    BY <2>1, <2>2 DEF Load
  <2>4. loads'[s] # Nothing
    BY <2>3, ScreensAssumption
  <2>5. \A r \in Rows : server[r] >= confirmed'[r]
    BY <2>2 DEF VersionsOK
  <2>6. NoneCloses' /\ OneLoad'
    BY <1>s, <2>1, <2>2, <2>3, <2>5 DEF NoneCloses, OneLoad, Fresh
  <2> QED BY <2>4, <2>6 DEF SerialShown
<1>f. ASSUME NEW s \in LoadSlots, loads[s] # Nothing, Finish(s)
      PROVE  (\A t \in LoadSlots : loads'[t] = Nothing) /\ NoneCloses'
  <2>1. \A t \in LoadSlots : loads'[t] = Nothing
    BY <1>f DEF Finish, OneLoad
  <2>2. \A c \in CallSlots : calls'[c] = Nothing \/ calls'[c] = calls[c]
    BY <1>f DEF Finish, CallTable
  <2> QED BY <2>1, <2>2 DEF NoneCloses
<1>7. ASSUME NEW s \in LoadSlots, AnswerLoad(s)
      PROVE  NoneCloses' /\ OneLoad' /\ SerialShown'
  <2>1. (\A t \in LoadSlots : loads'[t] = Nothing) /\ NoneCloses'
    BY <1>7, <1>f DEF AnswerLoad
  <2>2. /\ shown' = [input |-> loads[s].input, rows |-> loads[s].rows]
        /\ confirmed' = confirmed /\ Fresh(loads[s].rows)
    BY <1>7 DEF AnswerLoad, OneLoad
  <2> QED BY <2>1, <2>2 DEF OneLoad, SerialShown, Fresh
<1>8. ASSUME NEW s \in LoadSlots, FailLoad(s)
      PROVE  NoneCloses' /\ OneLoad' /\ SerialShown'
  <2>1. (\A t \in LoadSlots : loads'[t] = Nothing) /\ NoneCloses'
    BY <1>8, <1>f DEF FailLoad
  <2>2. failed'
    BY <1>8 DEF FailLoad, OneLoad, Serial
  <2> QED BY <2>1, <2>2 DEF OneLoad, SerialShown
<1>c. ASSUME NEW c \in CallSlots, calls[c] # Nothing
      PROVE  \A s \in LoadSlots : loads[s] # Nothing =>
                loads[s].call = c /\ calls[c].at = "reloading"
  <2>1. ASSUME NEW s \in LoadSlots, loads[s] # Nothing
        PROVE  /\ loads[s].call \in CallSlots /\ calls[loads[s].call] # Nothing
               /\ calls[loads[s].call].at = "reloading"
    BY <1>c, <2>1 DEF OneLoad, Awaited, Load
  <2> QED BY <1>c, <2>1, OneCall
<1>9. ASSUME NEW c \in CallSlots, ServeCall(c)
      PROVE  NoneCloses' /\ OneLoad' /\ SerialShown'
  <2>1. calls[c] \in Call /\ calls[c].at = "sent" /\ calls[c] # Nothing
    BY <1>9 DEF ServeCall, CallTable
  <2>2. \A s \in LoadSlots : loads[s] = Nothing
    BY <2>1, <1>c
  <2>3. /\ UNCHANGED <<shown, failed, loads, confirmed>>
        /\ calls' = [calls EXCEPT ![c] = [@ EXCEPT !.at = "done",
                                                   !.ver = server[calls[c].row] + 1]]
    BY <1>9 DEF ServeCall, CallTable
  <2>4. server[calls[c].row] + 1 \in Nat
    BY <2>1 DEF Call, CallOn
  <2>5. /\ calls'[c] \in Call /\ calls'[c].at = "done" /\ calls'[c].act = calls[c].act
        /\ \A d \in CallSlots \ {c} : calls'[d] = calls[d]
    BY <2>1, <2>3, <2>4 DEF CallTable, Call, CallOn
  <2>6. calls'[c] # Nothing
    BY <2>5, ScreensAssumption DEF Call, Typed
  <2>7. NoneCloses' /\ OneLoad'
    BY <2>2, <2>3, <2>5 DEF NoneCloses, OneLoad
  <2>8. \A d \in CallSlots : Unanswered(d) => Unanswered(d)' /\ calls'[d].act = calls[d].act
    BY <2>5, <2>6 DEF Unanswered
  <2> QED BY <2>2, <2>3, <2>7, <2>8, <1>p DEF SerialShown, Fresh
<1>10. ASSUME NEW c \in CallSlots, AnswerCall(c)
       PROVE  NoneCloses' /\ OneLoad' /\ SerialShown'
  <2> DEFINE rest == [calls EXCEPT ![c] = Remains(c)]
  <2>1. calls[c] # Nothing /\ calls[c].at = "done" /\ calls[c].act \in Acts
    BY <1>10, AnswerLeaves DEF Waiting, Call, CallOn, Acts
  <2>2. /\ The(calls[c].act).reloads /\ The(calls[c].act).spans = "reload"
        /\ ~The(calls[c].act).quiet
    BY <2>1 DEF Serial, Serialized, Reloading
  <2>3. Remains(c) # Nothing /\ Remains(c).at = "reloading"
    BY <1>10, <2>2, AnswerLeaves
  <2>4. rest \in CallTable /\ rest[c] = Remains(c) /\ \A d \in CallSlots \ {c} : rest[d] = calls[d]
    BY <1>10, AnswerLeaves DEF CallTable
  <2>5. calls' = Orphaned(rest) /\ Issue(input', c, "handler")
    BY <1>10, <2>2, <2>3, <2>4 DEF AnswerCall
  <2> HIDE DEF rest
  <2>6. NoneCloses'
    BY <2>3, <2>4, <2>5, OrphanedCalls DEF NoneCloses, Typed, CallTable
  <2>7. input' \in Inputs
    BY <1>10, ScreensAssumption DEF AnswerCall, Typed, ScreenTypeOK
  <2>8. PICK s \in LoadSlots :
           /\ loads'[s] = Sent(input', c, "handler") /\ loads'[s] # Nothing
           /\ \A t \in LoadSlots \ {s} : loads[t] = Nothing <=> loads'[t] = Nothing
    BY <2>5, <2>7, IssueLoads DEF Typed
  <2>9. \A t \in LoadSlots \ {s} : loads'[t] = Nothing
    BY <2>1, <2>8, <1>c
  <2>10. loads'[s].live /\ loads'[s].at = "sent" /\ loads'[s].call = c
    BY <2>8 DEF Sent
  <2>11. ~loads'[s].quiet
    <3>1. loads'[s].quiet = ("handler" = "quiet")
      BY <2>8 DEF Sent
    <3> QED BY <3>1
  <2>12. OneLoad'
    BY <2>8, <2>9, <2>10, <2>11 DEF OneLoad
  <2> QED BY <2>6, <2>8, <2>12 DEF SerialShown
<1>11. ASSUME NEW c \in CallSlots, FailCall(c)
       PROVE  NoneCloses' /\ OneLoad' /\ SerialShown'
  <2>1. calls[c] # Nothing /\ calls[c].at \in {"sent", "done"}
    BY <1>11 DEF FailCall
  <2>2. \A s \in LoadSlots : loads[s] = Nothing
    BY <2>1, <1>c
  <2>3. /\ UNCHANGED <<shown, loads, confirmed>>
        /\ failed \/ The(calls[c].act).tells = "page" => failed'
        /\ calls'[c] = Nothing /\ \A d \in CallSlots \ {c} : calls'[d] = calls[d]
    BY <1>11 DEF FailCall, CallTable
  <2>4. NoneCloses' /\ OneLoad'
    BY <2>2, <2>3 DEF NoneCloses, OneLoad
  <2>5. \A d \in CallSlots \ {c} : Unanswered(d) => Unanswered(d)' /\ calls'[d] = calls[d]
    BY <2>3 DEF Unanswered
  <2> QED BY <2>2, <2>3, <2>4, <2>5, <1>p DEF SerialShown, Fresh
<1>12. ~\E c \in CallSlots : CloseLater(c)
  BY DEF CloseLater, NoneCloses
<1> QED BY <1>0, <1>1, <1>2, <1>3, <1>4, <1>5, <1>6, <1>7, <1>8, <1>9, <1>10, <1>11, <1>12
        DEF ScreenNext, User, Network, Answer, Return
-----------------------------------------------------------------------------
(* The inductive invariant of every screen. *)
ScreenInv == /\ Typed /\ LocksOK /\ Awaited /\ DialogWaits
             /\ VersionsOK /\ NewestOK /\ SerialOK

LEMMA ScreenInvInit == ASSUME ScreensAssumption PROVE ScreenInit => ScreenInv
<1> SUFFICES ASSUME ScreenInit PROVE ScreenInv
  OBVIOUS
<1>1. Typed
  BY TypedInit
<1>2. /\ \A c \in CallSlots : calls[c] = Nothing
      /\ \A i \in Acts : dialog[i] = Nothing
      /\ \A r \in Rows : confirmed[r] <= server[r]
      /\ shown = Nothing
  BY DEF ScreenInit
<1>3. LocksOK /\ DialogWaits /\ VersionsOK
  BY <1>2 DEF LocksOK, LocksIn, HoldsLock, AloneIn, ClosesLater, WaitsIn, DialogWaits,
              VersionsOK
<1>4. PICK s \in LoadSlots :
         loads = [t \in LoadSlots |-> IF t = s /\ feed.mount = "loads"
                                      THEN Sent(input, Nothing, "effect") ELSE Nothing]
  BY DEF ScreenInit
<1>5. \A t \in LoadSlots : loads[t] # Nothing => t = s /\ loads[t] = Sent(input, Nothing, "effect")
  BY <1>4
<1>6. \A t \in LoadSlots : loads[t] # Nothing =>
         /\ loads[t].input = input /\ loads[t].at = "sent" /\ loads[t].live
         /\ loads[t].call = Nothing
  BY <1>5 DEF Sent
<1>7. \A t \in LoadSlots : loads[t] # Nothing =>
         /\ loads[t].cancellable = Cancellable("effect")
         /\ loads[t].quiet = ("effect" = "quiet")
  BY <1>5 DEF Sent
<1>8. Awaited
  BY <1>6 DEF Awaited
<1>9. NewestOK
  BY <1>2, <1>6, <1>7 DEF NewestOK, Newest, LiveLoads, ShownOK, Cancellable
<1>10. SerialOK
  <2>1. NoneCloses /\ SerialShown
    BY <1>2 DEF NoneCloses, SerialShown
  <2>2. ASSUME NEW t \in LoadSlots, loads[t] # Nothing PROVE t = s /\ ~loads[t].quiet
    BY <1>5, <1>7, <2>2
  <2>3. OneLoad
    BY <1>2, <1>6, <2>2 DEF OneLoad
  <2> QED BY <2>1, <2>3 DEF SerialOK
<1> QED BY <1>1, <1>3, <1>8, <1>9, <1>10 DEF ScreenInv

LEMMA ScreenInvStep ==
  ASSUME ScreensAssumption, ScreenInv, [ScreenNext]_screenVars
  PROVE  ScreenInv'
<1>1. Typed' /\ LocksOK' /\ Awaited'
  BY TypedStep, LocksStep, AwaitedStep DEF ScreenInv
<1>2. DialogWaits' /\ VersionsOK' /\ NewestOK' /\ SerialOK'
  BY DialogStep, VersionsStep, NewestStep, SerialStep DEF ScreenInv
<1> QED BY <1>1, <1>2 DEF ScreenInv

LEMMA ScreenInvHolds == ScreenSpec => []ScreenInv
  BY ScreensAssumption, ScreenInvInit, ScreenInvStep, PTL DEF ScreenSpec

(* Every screen keeps its state within its types. *)
THEOREM ScreenTypeCorrect == ScreenSpec => []ScreenTypeOK
<1>1. ScreenInv => ScreenTypeOK
  BY DEF ScreenInv, Typed
<1> QED BY <1>1, ScreenInvHolds, PTL

(* A screen with a cancelled flag in the effect that loads it never shows the
   rows of one filter under another, however many loads overlap.            *)
THEOREM AnswersItsInput == ScreenSpec => []ShownAnswersInput
<1>1. ScreenInv => ShownAnswersInput
  BY DEF ScreenInv, NewestOK, Newest, ShownOK, ShownAnswersInput, DisplayGuarded, Visible
<1> QED BY <1>1, ScreenInvHolds, PTL

(* What was reported as saved is what a screen at rest shows, if it ignores
   overtaken answers or has one busy state that spans its reloads.          *)
THEOREM ShowsWhatWasSaved == ScreenSpec => []SavedIsShown
<1>1. ScreenInv => SavedIsShown
  <2>1. SUFFICES ASSUME ScreenInv, Newest \/ Serial, Reloading, Calm, ~failed, shown # Nothing
                 PROVE  Fresh(shown.rows)
    BY DEF SavedIsShown, Newest, Serial, Reloading, Fresh
  <2>2. CASE Newest
    BY <2>1, <2>2 DEF ScreenInv, NewestOK, ShownOK, Live, Calm
  <2>3. CASE Serial
    BY <2>1, <2>3 DEF ScreenInv, SerialOK, SerialShown, Unanswered, Calm
  <2> QED BY <2>1, <2>2, <2>3
<1> QED BY <1>1, ScreenInvHolds, PTL

(* The buttons of one busy state never have two calls unanswered. *)
THEOREM SendsOneAtATime == ScreenSpec => []OneAtATime
<1>1. ScreenInv => OneAtATime
  BY DEF ScreenInv, LocksOK, LocksIn, AloneIn, WaitsIn, OneAtATime, Waiting
<1> QED BY <1>1, ScreenInvHolds, PTL

(* A dialog that stays open for an answer is open for the row it was sent for. *)
THEOREM DialogStays == ScreenSpec => []DialogWaits
<1>1. ScreenInv => DialogWaits
  BY DEF ScreenInv
<1> QED BY <1>1, ScreenInvHolds, PTL
=============================================================================
