--------------------------- MODULE ScreenProtocol ---------------------------
(* What one screen of the web client does between the user and the backend:
   the loads it has under way, the changes it has sent, its busy states and
   dialogs, and the rows it shows.  The screen is data: one feed and a few of
   the acts that its description (ScreenForms) gives it.

   Rows carry a version that the backend increments with every change.  A
   call is sent, takes effect at the backend and is answered in three steps;
   it may fail at any of them, after its effect too.                        *)
EXTENDS Naturals

CONSTANTS Screens,     \* the screens, each a record [feed, acts], acts a list
          Rows,        \* the rows of a list, or the one record of a page
          Inputs,      \* filters, pages or tabs the feed depends on
          First,       \* the one the screen opens with
          LoadSlots,   \* bounds the loads under way at once
          CallSlots,   \* bounds the changes under way at once
          MaxMoves,    \* bounds the requests the user causes
          Nothing

(* The requests under way: a load for an input, perhaps the one that the
   handler of a call awaits, and a call of an act, for a row.               *)
Load == [input : Inputs, at : {"sent", "served"}, live : BOOLEAN, cancellable : BOOLEAN,
         quiet : BOOLEAN, rows : [Rows -> Nat], call : CallSlots \cup {Nothing}]
CallOn(x) == [act : DOMAIN x.acts, row : Rows, ver : Nat, holds : BOOLEAN,
              at : {"sent", "done", "reloading", "closing"}]

ASSUME ScreensAssumption ==
    /\ First \in Inputs /\ MaxMoves \in Nat
    /\ \A x \in Screens : 0 \notin DOMAIN x.acts
    /\ Nothing \notin Rows \cup CallSlots \cup Load
    /\ \A x \in Screens : Nothing \notin CallOn(x) \cup ((DOMAIN x.acts) \X Rows)

VARIABLES screen,     \* the component
          mounted,    \* it has not navigated away
          input,      \* what its feed is loaded for
          shown,      \* the rows in its state, with the input they answer
          loading, failed,
          loads, calls, \* requests under way
          held,       \* per busy state: the act and row it is held for
          dialog,     \* per act: the row its dialog is open for
          server,     \* the rows at the backend
          confirmed,  \* per row: the newest version reported as saved
          moves

screenVars == <<screen, mounted, input, shown, loading, failed, loads, calls, held, dialog,
                server, confirmed, moves>>

feed == screen.feed
Acts == DOMAIN screen.acts
The(i) == screen.acts[i]
Call == CallOn(screen)
Shared == 0
LockOf(i) == IF The(i).lock = "shared" THEN Shared ELSE i
Locks == Acts \cup {Shared}

Free(slots, s) == slots[s] = Nothing
                  /\ \A t \in DOMAIN slots : slots[t] = Nothing => s <= t

(* Mutant: the cleanup of the effect does not set the cancelled flag. *)
CancellableNever(why) == FALSE

(* The load is started by an effect whose cleanup cancels it. *)
Cancellable(why) == \/ feed.stale = "ignored"
                    \/ feed.stale = "effect" /\ why = "effect"

Sent(i, c, why) ==
    [input |-> i, at |-> "sent", live |-> TRUE, cancellable |-> Cancellable(why),
     quiet |-> why = "quiet", rows |-> server, call |-> c]

ScreenInit ==
    /\ screen \in Screens /\ mounted = TRUE /\ moves = 0
    /\ input = First /\ shown = Nothing /\ failed = FALSE
    /\ server = [r \in Rows |-> 0] /\ confirmed = server
    /\ calls = [c \in CallSlots |-> Nothing]
    /\ held = [k \in Locks |-> Nothing] /\ dialog = [i \in Acts |-> Nothing]
    /\ loading = (feed.mount = "loads")
    /\ \E s \in LoadSlots :
          /\ \A t \in LoadSlots : s <= t
          /\ loads = [t \in LoadSlots |-> IF t = s /\ feed.mount = "loads"
                                          THEN Sent(input, Nothing, "effect") ELSE Nothing]
-----------------------------------------------------------------------------
(* The content is on the display. *)
Visible == /\ shown # Nothing
           /\ "loading" \in feed.covers => ~loading
           /\ "failed" \in feed.covers => ~failed

(* A load starts; the cleanup of the effect has cancelled those it started.  *)
Issue(i, c, why) ==
    /\ \E s \in LoadSlots :
          /\ Free(loads, s)
          /\ loads' = [t \in LoadSlots |->
                          IF t = s THEN Sent(i, c, why)
                          ELSE IF loads[t] # Nothing /\ Cancellable(why)
                               THEN [loads[t] EXCEPT !.live = @ /\ ~loads[t].cancellable]
                               ELSE loads[t]]
    /\ loading' = (loading \/ why # "quiet")
    /\ failed' = (failed /\ (~feed.clears \/ why = "quiet"))

(* The children that a spinner takes from the display forget that they wait. *)
Forgets(i) == The(i).lock \in {"child", "each"} /\ "loading" \in feed.covers
Forgotten(h) == [k \in Locks |-> IF k \in Acts /\ Forgets(k) THEN Nothing ELSE h[k]]
Orphaned(cs) == [c \in CallSlots |-> IF cs[c] # Nothing /\ Forgets(cs[c].act)
                                     THEN [cs[c] EXCEPT !.holds = FALSE] ELSE cs[c]]

Gesture == mounted /\ moves < MaxMoves /\ moves' = moves + 1

ModalOpen == \E i \in Acts : The(i).offer.dialog = "modal" /\ dialog[i] # Nothing

ChangeInput(i) ==
    /\ Gesture /\ i # input /\ ~ModalOpen
    /\ \/ "input" \in feed.reissue
       \/ "idle input" \in feed.reissue /\ ~loading
    /\ input' = i
    /\ Issue(i, Nothing, "effect")
    /\ held' = Forgotten(held) /\ calls' = Orphaned(calls)
    /\ UNCHANGED <<screen, mounted, shown, dialog, server, confirmed>>

Refresh ==
    /\ Gesture /\ ~ModalOpen
    /\ \/ "refresh" \in feed.reissue
       \/ "idle refresh" \in feed.reissue /\ ~loading
    /\ Issue(input, Nothing, "handler")
    /\ held' = Forgotten(held) /\ calls' = Orphaned(calls)
    /\ UNCHANGED <<screen, mounted, input, shown, dialog, server, confirmed>>

ServeLoad(s) ==
    /\ loads[s] # Nothing /\ loads[s].at = "sent"
    /\ loads' = [loads EXCEPT ![s].at = "served", ![s].rows = server]
    /\ UNCHANGED <<screen, mounted, input, shown, loading, failed, calls, held, dialog,
                   server, confirmed, moves>>

(* Mutant: the handler forgets the row that is busy, not that one is. *)
FreedOfRow(c) == [held EXCEPT ![LockOf(calls[c].act)] = <<calls[c].act, Nothing>>]

(* Mutant: the busy state is not reset in a finally. *)
FreedNever(c) == held

(* The busy state that call c holds is reset. *)
Freed(c) == IF calls[c].holds THEN [held EXCEPT ![LockOf(calls[c].act)] = Nothing] ELSE held

(* The handler that waited for this load goes on to its finally. *)
Finish(s) ==
    /\ loads' = [loads EXCEPT ![s] = Nothing]
    /\ IF loads[s].call = Nothing THEN UNCHANGED <<calls, held>>
       ELSE /\ held' = Freed(loads[s].call)
            /\ calls' = [calls EXCEPT ![loads[s].call] = Nothing]

AnswerLoad(s) ==
    /\ loads[s] # Nothing /\ loads[s].at = "served" /\ mounted
    /\ Finish(s)
    /\ IF loads[s].live
       THEN /\ shown' = [input |-> loads[s].input, rows |-> loads[s].rows]
            /\ loading' = (loading /\ loads[s].quiet) /\ UNCHANGED failed
       ELSE UNCHANGED <<shown, loading, failed>>
    /\ dialog' = [i \in Acts |-> IF loads[s].call # Nothing
                                     /\ calls[loads[s].call].act = i
                                     /\ The(i).closes = "reloaded"
                                  THEN Nothing ELSE dialog[i]]
    /\ UNCHANGED <<screen, mounted, input, server, confirmed, moves>>

FailLoad(s) ==
    /\ loads[s] # Nothing /\ mounted
    /\ Finish(s)
    /\ IF loads[s].live /\ ~loads[s].quiet
       THEN /\ shown' = IF feed.onError = "empty" THEN Nothing ELSE shown
            /\ loading' = FALSE /\ failed' = (feed.onError # "silent")
       ELSE UNCHANGED <<shown, loading, failed>>
    /\ UNCHANGED <<screen, mounted, input, dialog, server, confirmed, moves>>
-----------------------------------------------------------------------------
Held(i) == The(i).lock \notin {"none", "each"}

(* Mutant: the button is disabled for the row that is busy only. *)
IdleElsewhere(i, r) == held[LockOf(i)] # <<i, r>>

(* The busy state is free, or it is held for another row. *)
Idle(i, r) ==
    IF The(i).lock = "each"
    THEN \A c \in CallSlots : calls[c] # Nothing /\ calls[c].act = i /\ calls[c].row = r
                                  => ~calls[c].holds
    ELSE held[LockOf(i)] = Nothing \/ (The(i).row /\ held[LockOf(i)] # <<i, r>>)

Answering(i) == \E c \in CallSlots : calls[c] # Nothing /\ calls[c].act = i
                                     /\ calls[c].at # "closing"
(* Mutant: the close button of a dialog is not disabled while it is busy. *)
MayCloseBusy(i, how) == TRUE

MayClose(i, how) == Answering(i) => The(i).offer.closable \in how

OpenDialog(i, r) ==
    /\ mounted /\ The(i).offer.dialog # "none" /\ dialog[i] # r /\ ~ModalOpen
    /\ "content" \in The(i).offer.where => Visible
    /\ dialog[i] # Nothing => MayClose(i, {"switch", "yes"})
    /\ dialog' = [dialog EXCEPT ![i] = r]
    /\ UNCHANGED <<screen, mounted, input, shown, loading, failed, loads, calls, held,
                   server, confirmed, moves>>

CloseDialog(i) ==
    /\ mounted /\ dialog[i] # Nothing /\ MayClose(i, {"yes"})
    /\ dialog' = [dialog EXCEPT ![i] = Nothing]
    /\ UNCHANGED <<screen, mounted, input, shown, loading, failed, loads, calls, held,
                   server, confirmed, moves>>

Submit(i, r) ==
    /\ Gesture
    /\ The(i).offer.dialog = "modal" \/ ~ModalOpen
    /\ The(i).offer.dialog = "none" \/ dialog[i] = r
    /\ "content" \in The(i).offer.where /\ The(i).offer.dialog # "modal" => Visible
    /\ "idle" \in The(i).offer.where => Idle(i, r)
    /\ \E c \in CallSlots :
          /\ Free(calls, c)
          /\ calls' = [calls EXCEPT ![c] = [act |-> i, row |-> r, at |-> "sent", ver |-> 0,
                                            holds |-> The(i).lock # "none"]]
    /\ held' = IF Held(i) THEN [held EXCEPT ![LockOf(i)] = <<i, r>>] ELSE held
    /\ failed' = (failed /\ The(i).tells # "page")
    /\ UNCHANGED <<screen, mounted, input, shown, loading, loads, dialog, server, confirmed>>

ServeCall(c) ==
    /\ calls[c] # Nothing /\ calls[c].at = "sent"
    /\ LET r == calls[c].row IN
          /\ server' = [server EXCEPT ![r] = @ + 1]
          /\ calls' = [calls EXCEPT ![c].at = "done", ![c].ver = server[r] + 1]
    /\ UNCHANGED <<screen, mounted, input, shown, loading, failed, loads, held, dialog,
                   confirmed, moves>>

Latest(a, b) == IF a < b THEN b ELSE a

(* What the success handler leaves of its call: it waits for its reload, a
   timer will close its dialog, or nothing.                                 *)
Remains(c) ==
    LET a == The(calls[c].act) IN
        IF a.reloads /\ a.spans = "reload" THEN [calls[c] EXCEPT !.at = "reloading"]
        ELSE IF a.closes = "later" THEN [calls[c] EXCEPT !.at = "closing", !.holds = FALSE]
        ELSE Nothing

AnswerCall(c) ==
    /\ calls[c] # Nothing /\ calls[c].at = "done" /\ mounted
    /\ LET i == calls[c].act
           r == calls[c].row
           rest == [calls EXCEPT ![c] = Remains(c)]
           waits == rest[c] # Nothing /\ rest[c].at = "reloading"
           freed == IF waits \/ The(i).frees = "failure" THEN held ELSE Freed(c) IN
          /\ mounted' = ~The(i).leaves
          /\ confirmed' = [confirmed EXCEPT ![r] = Latest(@, calls[c].ver)]
          /\ dialog' = IF The(i).closes = "now" THEN [dialog EXCEPT ![i] = Nothing]
                       ELSE dialog
          /\ shown' = IF The(i).replaces /\ shown # Nothing
                      THEN [shown EXCEPT !.rows[r] = calls[c].ver] ELSE shown
          /\ IF The(i).reloads
             THEN /\ input' = IF The(i).rewinds THEN First ELSE input
                  /\ Issue(input', IF waits THEN c ELSE Nothing,
                           IF The(i).quiet THEN "quiet" ELSE "handler")
                  /\ held' = Forgotten(freed) /\ calls' = Orphaned(rest)
             ELSE /\ held' = freed /\ calls' = rest
                  /\ UNCHANGED <<input, loads, loading, failed>>
    /\ UNCHANGED <<screen, server, moves>>

FailCall(c) ==
    /\ calls[c] # Nothing /\ calls[c].at \in {"sent", "done"} /\ mounted
    /\ held' = Freed(c)
    /\ failed' = (failed \/ The(calls[c].act).tells = "page")
    /\ calls' = [calls EXCEPT ![c] = Nothing]
    /\ UNCHANGED <<screen, mounted, input, shown, loading, loads, dialog, server,
                   confirmed, moves>>

(* "setTimeout(() => setShow...(false), ...)" *)
CloseLater(c) ==
    /\ calls[c] # Nothing /\ calls[c].at = "closing" /\ mounted
    /\ dialog' = [dialog EXCEPT ![calls[c].act] = Nothing]
    /\ calls' = [calls EXCEPT ![c] = Nothing]
    /\ UNCHANGED <<screen, mounted, input, shown, loading, failed, loads, held, server,
                   confirmed, moves>>
-----------------------------------------------------------------------------
Answer(s) == ServeLoad(s) \/ AnswerLoad(s) \/ FailLoad(s)
Return(c) == ServeCall(c) \/ AnswerCall(c) \/ FailCall(c) \/ CloseLater(c)

Network == (\E s \in LoadSlots : Answer(s)) \/ (\E c \in CallSlots : Return(c))
User ==
    \/ \E i \in Inputs : ChangeInput(i)
    \/ Refresh
    \/ \E i \in Acts, r \in Rows : OpenDialog(i, r) \/ Submit(i, r)
    \/ \E i \in Acts : CloseDialog(i)

ScreenNext == Network \/ User

(* The backend answers, or the browser gives up; the user owes nothing. *)
ScreenFairness ==
    /\ \A s \in LoadSlots : WF_screenVars(Answer(s))
    /\ \A c \in CallSlots : WF_screenVars(Return(c))

ScreenSpec == ScreenInit /\ [][ScreenNext]_screenVars
-----------------------------------------------------------------------------
ScreenTypeOK ==
    /\ mounted \in BOOLEAN /\ moves \in 0..MaxMoves
    /\ input \in Inputs
    /\ shown \in [input : Inputs, rows : [Rows -> Nat]] \cup {Nothing}
    /\ loading \in BOOLEAN /\ failed \in BOOLEAN
    /\ loads \in [LoadSlots -> Load \cup {Nothing}]
    /\ calls \in [CallSlots -> Call \cup {Nothing}]
    /\ held \in [Locks -> (Acts \X Rows) \cup {Nothing}]
    /\ dialog \in [Acts -> Rows \cup {Nothing}]
    /\ server \in [Rows -> Nat] /\ confirmed \in [Rows -> Nat]

(* Nothing but the feed's own loads sets the error of the page or clears it,
   no reload is silent, and the content is on the display only when its last
   load has succeeded.                                                      *)
Candid == /\ feed.onError # "silent"
          /\ \A i \in Acts : The(i).tells # "page" /\ ~The(i).quiet

(* A screen whose loads are effects with a cancelled flag ("return () => {
   cancelled = true; }") never shows the rows of one filter, page or tab under
   another.  While the new rows are loading, or when they could not be loaded,
   that holds only where the display is covered.                            *)
DisplayGuarded == /\ feed.stale = "ignored" /\ Candid
                  /\ "loading" \in feed.covers \/ ~loading
                  /\ "failed" \in feed.covers \/ ~failed
ShownAnswersInput == DisplayGuarded /\ Visible => shown.input = input

(* A button that waits for the busy state of its handler, which no button
   takes that does not wait for it.                                         *)
Gated(i) == /\ The(i).lock \in {"own", "shared"}
            /\ \A j \in Acts : LockOf(j) = LockOf(i) =>
                  ~The(j).row /\ "idle" \in The(j).offer.where

(* Loads of this screen never overlap: only its acts start them, under one
   busy state that lasts until the reload has been answered, and none is
   offered before the first load has been answered.                         *)
Serialized ==
    /\ feed.reissue = {}
    /\ \A i \in Acts : /\ Gated(i) /\ "content" \in The(i).offer.where
                       /\ \A j \in Acts : LockOf(j) = LockOf(i)
                       /\ The(i).spans = "reload" /\ ~The(i).quiet

(* Once the screen has come to rest, what was reported as saved is shown: the
   reload after the change was served after it, and no older answer has
   replaced it.  ("re-fetching keeps this component from ever drifting from
   server state": so it does on the screens that ignore overtaken answers or
   never have two loads under way.)                                         *)
Calm == /\ \A s \in LoadSlots : loads[s] = Nothing
        /\ \A c \in CallSlots : calls[c] = Nothing
SavedIsShown ==
    (/\ (feed.stale = "ignored" /\ Candid) \/ Serialized
     /\ feed.onError # "silent" /\ \A i \in Acts : The(i).reloads
     /\ Calm /\ ~failed /\ shown # Nothing) =>
       \A r \in Rows : shown.rows[r] >= confirmed[r]

(* Buttons that wait for one busy state never have two calls unanswered: what
   has been sent is not sent again, nor is another change sent beside it.   *)
Waiting(c) == calls[c] # Nothing /\ calls[c].at # "closing"
OneAtATime ==
    \A c, d \in CallSlots :
        c # d /\ Waiting(c) /\ Waiting(d) /\ Gated(calls[c].act)
           => LockOf(calls[c].act) # LockOf(calls[d].act)

(* The answer to what was sent from a dialog that cannot be closed meanwhile
   finds it open for the same row: it neither closes nor reports into the
   dialog of another.  (A dialog that a timer closes gives no such promise.) *)
Persistent(i) == /\ The(i).offer.dialog # "none" /\ The(i).offer.closable = "no"
                 /\ The(i).closes # "later" /\ Gated(i)
DialogWaits ==
    \A c \in CallSlots :
        calls[c] # Nothing /\ calls[c].at \in {"sent", "done"} /\ Persistent(calls[c].act)
           => dialog[calls[c].act] = calls[c].row
=============================================================================
