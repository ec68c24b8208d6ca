---------------------------- MODULE ScreenForms ----------------------------
(* The vocabulary in which the screen modules describe the web client.  A
   screen is a React component with
     feeds    what it loads from the backend and keeps in its state,
     display  what its JSX shows in place of the content of a feed,
     acts     the handlers that send a change to the backend,
     offers   what its JSX lets the user press, and when.
   Feed, Act and the offers below are the usual case; a description states
   with EXCEPT where its component differs.                                 *)
EXTENDS TLC

(* stale    an answer that a newer load has overtaken is "ignored" (every load
            is an effect with a cancelled flag), "applied", or ignored only
            among the loads of the "effect", not those its handlers start;
   reissue  what lets the user load again: "input" (filter, page, tab) or
            "refresh"; "idle input", "idle refresh" wait for loading to end;
   onError  the failure of a load leaves the rows ("keep"), drops them, or
            leaves them and is not shown ("silent");
   clears   a load that starts clears the error of the one before;
   mount    the component loads when it appears, or waits for the user.     *)
Feed(name) == [name |-> name, stale |-> "applied", reissue |-> {}, onError |-> "keep",
               clears |-> TRUE, mount |-> "loads"]

(* What replaces the content of a feed on the display: components/states/
   RealDataPanel covers it while loading and after a failure.               *)
Panel == {"loading", "failed"}
Spinner == {"loading"}
Always == {}

(* lock     "own" or "shared" busy state of the handler, that of a "child"
            which forgets it when its content is covered, of such a child
            for "each" row, or "none";
   row      the busy state holds the id of the row, not a flag;
   spans    busy until the "answer", or until the "reload" after it;
   frees    busy is reset "always" (finally) or on "failure" only;
   closes   success closes the dialog of the act "now", "later" (by a timer),
            when the feed has been "reloaded", or "never": the user does;
   reloads  the feeds it loads again, replaces those it patches with the
            answer, leaves: it navigates away;
   rewinds  its reload is for the first input (page one);
   quiet    its reload neither shows as loading nor sets the page's error;
   tells    a failure goes to its "own" message, to the error of the "page",
            or to "nobody".                                                 *)
Act(name) == [name |-> name, lock |-> "own", row |-> FALSE, spans |-> "answer",
              frees |-> "always", closes |-> "now", reloads |-> {}, replaces |-> {},
              rewinds |-> FALSE, quiet |-> FALSE, leaves |-> FALSE, tells |-> "own"]

(* An act is pressed on the page, or in a dialog opened for a row: a modal one
   covers the page, an inline one does not.  It needs the "content" on the
   display, or its busy state to be "idle", or both.  While an answer is
   outstanding the dialog stays ("no"), can be opened for another row
   ("switch"), or be closed ("yes").                                        *)
Button(where) == [dialog |-> "none", closable |-> "no", where |-> where]
Modal(where) == [dialog |-> "modal", closable |-> "no", where |-> where]
ClosableModal(where) == [dialog |-> "modal", closable |-> "yes", where |-> where]
Inline(where) == [dialog |-> "inline", closable |-> "no", where |-> where]
SwitchableInline(where) == [dialog |-> "inline", closable |-> "switch", where |-> where]
ClosableInline(where) == [dialog |-> "inline", closable |-> "yes", where |-> where]

NoFeed == [Feed("") EXCEPT !.mount = "waits"]

(* What concerns one feed in an act: the loads of the other feeds are of no
   consequence, the feeds of a component do not read each other.            *)
ActOn(f, a, offer) ==
    [lock |-> a.lock, row |-> a.row, spans |-> a.spans, frees |-> a.frees,
     closes |-> IF a.closes = "reloaded" /\ f.name \notin a.reloads THEN "now" ELSE a.closes,
     rewinds |-> a.rewinds, quiet |-> a.quiet, reloads |-> f.name \in a.reloads,
     replaces |-> f.name \in a.replaces, leaves |-> a.leaves, tells |-> a.tells,
     offer |-> offer]

FeedShape(f, covers) ==
    [stale |-> f.stale, reissue |-> f.reissue, onError |-> f.onError,
     clears |-> f.clears, mount |-> f.mount, covers |-> covers]

(* A screen seen through each of its feeds: the feed and its acts. *)
Screen(feeds, display, acts, offers) ==
    { [feed |-> FeedShape(f, display[f.name]),
       acts |-> { ActOn(f, a, offers[a.name]) : a \in acts }] : f \in feeds }

ReadOnly(feeds, display) == Screen(feeds, display, {}, <<>>)

(* A form that loads nothing. *)
Form(acts, offers) == Screen({NoFeed}, [n \in {""} |-> Always], acts, offers)
=============================================================================
