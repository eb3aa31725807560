--------------------------- MODULE WindowManager ---------------------------
(***************************************************************************)
(* ui/WindowManager.cpp over the display server's EventQueue, and its      *)
(* widgets with the focus flag a text box keeps (ui/TextBox.hpp).          *)
(*                                                                         *)
(* One thread runs the window manager; windows call it back from their     *)
(* handlers, so every operation may also run between two steps of          *)
(* processEvents and of handleResize.  An operation that moves elements of *)
(* windows under a range-for is undefined, and nothing is modelled after   *)
(* it.  The code treats the two axes alike, and one stands for both.       *)
(*                                                                         *)
(* handleBlur runs the widget's onBlur handler in the middle of            *)
(* setFocusedWidget, and the handler may call any operation on widgets, so *)
(* setFocusedWidget is two steps with anything in between.  Windows and    *)
(* widgets share no state.                                                 *)
(***************************************************************************)
EXTENDS Integers, FiniteSets, SequencesExt

CONSTANTS
    Window,          \* the objects that can be made
    None,                    \* nullptr
    UI,                      \* the thread
    Positions, Widths, ScreenWidths,
    MaxEvents,               \* bound: events pushed
    Widget,                  \* the widgets that can be made
    NoWidget,                \* nullptr
    MaxDepth                 \* bound: calls of setFocusedWidget inside one another

VARIABLES
    events, shutdown, pc, pushed, delivered, discarded,    \* see EventQueue
    sent,            \* what event n is
    isInitialized,
    server,          \* displayServer is there
    windows,         \* back to front
    bounds,          \* [Window -> [x, width]], Unmade for one not made yet
    activeWindow,
    dragged,         \* windows startDrag was called for: endDrag never is
    flagged,         \* windows focused and not unfocused since
    at,              \* where processEvents is
    i,               \* the element of windows a range-for is at
    screen, placed,  \* history: the last resize, and the windows it put in place and no drag has moved since
    strayed,         \* history: windows made or left active while not in windows
    undefined,
    widgets,         \* the map
    madeWidgets,
    focusedWidget,
    lit,             \* the widgets focused and not blurred since
    focusing,        \* the calls inside handleBlur: the widget each is going to set
    nested           \* history: a call finished inside another

queueVars  == <<events, shutdown, pc, pushed, delivered, discarded, sent>>
windowVars == <<windows, bounds, activeWindow, dragged, flagged, strayed>>
walkVars   == <<at, i, screen, placed>>
managerVars == <<queueVars, isInitialized, server, windowVars, walkVars, undefined>>
widgetVars == <<widgets, madeWidgets, focusedWidget, lit, focusing, nested>>
vars == <<managerVars, widgetVars>>

Queue == INSTANCE EventQueue WITH Consumer <- {UI}, stage <- pc

Unmade == [x |-> 0, width |-> 0]

Made == {w \in Window : bounds[w] # Unmade}

Event ==
    [type : {"button", "move"}, x : Positions] \cup [type : {"resize"}, x : ScreenWidths]
        \cup [type : {"key"}]

Init ==
    /\ Queue!EventInit /\ sent = <<>>
    /\ isInitialized = FALSE /\ server = FALSE
    /\ windows = <<>> /\ bounds = [w \in Window |-> Unmade]
    /\ activeWindow = None /\ dragged = {} /\ flagged = {} /\ strayed = {}
    /\ at = "idle" /\ i = 1 /\ screen = 0 /\ placed = {}
    /\ undefined = FALSE
    /\ widgets = {} /\ madeWidgets = {} /\ focusedWidget = NoWidget /\ lit = {}
    /\ focusing = <<>> /\ nested = FALSE

-----------------------------------------------------------------------------
\* Life cycle

Initialize ==
    /\ IF isInitialized THEN UNCHANGED <<isInitialized, server, events, discarded>>
       ELSE /\ isInitialized' \in BOOLEAN /\ server' = TRUE
            /\ Queue!Clear
    /\ UNCHANGED <<shutdown, pc, pushed, delivered, sent, windowVars, walkVars, undefined>>

\* The active window is not reset.  Under processEvents the
\* queue it pops from is gone.
Shutdown ==
    /\ windows' = <<>> /\ server' = FALSE /\ isInitialized' = FALSE
    /\ Queue!Clear
    /\ strayed' = strayed \cup ({activeWindow} \ {None}) /\ placed' = {}
    /\ undefined' = (at # "idle")
    /\ UNCHANGED <<sent, bounds, activeWindow, dragged, flagged, at, i, screen>>

-----------------------------------------------------------------------------
\* Windows

\* windows gets the value s; it is moved under a range-for when one is running.
Restack(s) ==
    /\ windows' = s
    /\ undefined' = (at \in {"resize", "each"})

CreateWindow(w, x, width) ==
    /\ w \notin Made
    /\ bounds' = [bounds EXCEPT ![w] = [x |-> x, width |-> width]]
    /\ Restack(Append(windows, w))
    /\ UNCHANGED <<queueVars, isInitialized, server, activeWindow, dragged, flagged, strayed, walkVars>>

\* Mutant: the active window is not reset.
DestroyWindowActive(w) ==
    /\ IF Contains(windows, w) THEN Restack(Remove(windows, w)) ELSE UNCHANGED <<windows, undefined>>
    /\ UNCHANGED <<queueVars, isInitialized, server, bounds, activeWindow, dragged, flagged, strayed, walkVars>>

DestroyWindow(w) ==
    /\ activeWindow' = IF w = activeWindow THEN None ELSE activeWindow
    /\ IF Contains(windows, w) THEN Restack(Remove(windows, w)) ELSE UNCHANGED <<windows, undefined>>
    /\ UNCHANGED <<queueVars, isInitialized, server, bounds, dragged, flagged, strayed, walkVars>>

\* Mutant: the window is not erased from its old place.
ToFrontTwice(w) ==
    IF Contains(windows, w) THEN Restack(Append(windows, w)) ELSE UNCHANGED <<windows, undefined>>

ToFront(w) ==
    IF Contains(windows, w) THEN Restack(Append(Remove(windows, w), w))
    ELSE UNCHANGED <<windows, undefined>>

BringToFront(w) ==
    /\ ToFront(w)
    /\ UNCHANGED <<queueVars, isInitialized, server, bounds, activeWindow, dragged, flagged, strayed, walkVars>>

SendToBack(w) ==
    /\ IF Contains(windows, w) THEN Restack(<<w>> \o Remove(windows, w))
       ELSE UNCHANGED <<windows, undefined>>
    /\ UNCHANGED <<queueVars, isInitialized, server, bounds, activeWindow, dragged, flagged, strayed, walkVars>>

\* Mutant: the window active before keeps its flag.
FocusKeeps(w) ==
    /\ flagged' = flagged \cup ({w} \ {None})
    /\ activeWindow' = w
    /\ strayed' = strayed \cup ({w} \ ({None} \cup ToSet(windows)))
    /\ ToFront(w)

\* What focusWindow does to the windows: it takes one that was destroyed too.
Focus(w) ==
    /\ flagged' = (flagged \ {activeWindow}) \cup ({w} \ {None})
    /\ activeWindow' = w
    /\ strayed' = strayed \cup ({w} \ ({None} \cup ToSet(windows)))
    /\ ToFront(w)

FocusWindow(w) ==
    /\ Focus(w)
    /\ UNCHANGED <<queueVars, isInitialized, server, bounds, dragged, walkVars>>

-----------------------------------------------------------------------------
\* Events

\* The display server's thread.
PushEvent(e) ==
    /\ server
    /\ Queue!Push
    /\ sent' = Append(sent, e)
    /\ UNCHANGED <<isInitialized, server, windowVars, walkVars, undefined>>

ProcessEvents ==
    /\ at = "idle" /\ isInitialized
    /\ at' = "events"
    /\ UNCHANGED <<queueVars, isInitialized, server, windowVars, i, screen, placed, undefined>>

\* The topmost window at x, which a click goes to, or None.
WindowAt(x) ==
    LET over == {k \in DOMAIN windows :
                    LET b == bounds[windows[k]] IN b.x <= x /\ x < b.x + b.width}
    IN  IF over = {} THEN None ELSE windows[Max(over)]

\* handleMouseMove: the window at x may be dragged along, by its own code, to anywhere.
HandleMouseMove(x) ==
    LET w == WindowAt(x)
    IN  /\ IF w \in dragged
             THEN /\ \E to \in Positions : bounds' = [bounds EXCEPT ![w].x = to]
                  /\ placed' = placed \ {w}
             ELSE UNCHANGED <<bounds, placed>>
        /\ UNCHANGED <<windows, activeWindow, dragged, flagged, strayed, at, i, screen, undefined>>

\* handleMouseButton: every button event counts as a press, so endDrag is never called; a
\* drag starts when the button is the left one.
HandleMouseButton(x) ==
    /\ IF WindowAt(x) = None
         THEN UNCHANGED <<windows, activeWindow, dragged, flagged, strayed, undefined>>
         ELSE Focus(WindowAt(x)) /\ dragged' \in {dragged, dragged \cup {WindowAt(x)}}
    /\ UNCHANGED <<bounds, walkVars>>

\* handleKeyEvent up to the active window's handler, or the hotkey that took the key.
HandleKeyEvent ==
    /\ at' \in IF activeWindow = None THEN {"events"} ELSE {"events", "widget"}
    /\ UNCHANGED <<windowVars, i, screen, placed, undefined>>

HandleResize(width) ==
    /\ screen' = width /\ placed' = {} /\ at' = "resize" /\ i' = 1
    /\ UNCHANGED <<windowVars, undefined>>

Handle(e) ==
    \/ e.type = "move"   /\ HandleMouseMove(e.x)
    \/ e.type = "button" /\ HandleMouseButton(e.x)
    \/ e.type = "key"    /\ HandleKeyEvent
    \/ e.type = "resize" /\ HandleResize(e.x)

NextEvent ==
    /\ at = "events"
    /\ Queue!TryPop(UI)
    /\ IF events = <<>>
         THEN /\ at' = "each" /\ i' = 1
              /\ UNCHANGED <<windowVars, screen, placed, undefined>>
         ELSE Handle(sent[Head(events)])
    /\ UNCHANGED <<sent, isInitialized, server>>

\* The rest of handleKeyEvent: the widget focused by now, if any, gets the key too.
KeyToWidget ==
    /\ at = "widget"
    /\ at' = "events"
    /\ UNCHANGED <<queueVars, isInitialized, server, windowVars, i, screen, placed, undefined>>

\* Mutant: the size of the window is left out.
ClampedLeft(b) == [b EXCEPT !.x = Max({0, Min({b.x, screen})})]

Clamped(b) == [b EXCEPT !.x = Max({0, Min({b.x, screen - b.width})})]

ResizeNext ==
    /\ at = "resize"
    /\ IF i <= Len(windows)
         THEN /\ bounds' = [bounds EXCEPT ![windows[i]] = Clamped(@)]
              /\ placed' = placed \cup {windows[i]}
              /\ i' = i + 1 /\ UNCHANGED at
         ELSE at' = "events" /\ UNCHANGED <<bounds, placed, i>>
    /\ UNCHANGED <<queueVars, isInitialized, server, windows, activeWindow, dragged, flagged, strayed, screen,
                   undefined>>

\* The windows' own processEvents.
EachNext ==
    /\ at = "each"
    /\ IF i <= Len(windows) THEN i' = i + 1 /\ UNCHANGED at ELSE at' = "idle" /\ i' = 1
    /\ UNCHANGED <<queueVars, isInitialized, server, windowVars, screen, placed, undefined>>

-----------------------------------------------------------------------------

Operation ==
    \/ Initialize \/ Shutdown
    \/ \E w \in Window, x \in Positions, n \in Widths : CreateWindow(w, x, n)
    \/ \E w \in Made \cup {None} : DestroyWindow(w) \/ FocusWindow(w)
    \/ \E w \in Made : BringToFront(w) \/ SendToBack(w)

WindowNext ==
    /\ ~ undefined
    /\ \/ Operation
       \/ \E e \in Event : PushEvent(e)
       \/ ProcessEvents \/ NextEvent \/ KeyToWidget \/ ResizeNext \/ EachNext

-----------------------------------------------------------------------------
\* Widgets

CreateWidget(k) ==
    /\ k \notin madeWidgets
    /\ widgets' = widgets \cup {k} /\ madeWidgets' = madeWidgets \cup {k}
    /\ UNCHANGED <<focusedWidget, lit, focusing, nested>>

\* widgets[widgetId] makes an empty entry for an unknown id, and the erase takes it out.
DestroyWidget(k) ==
    /\ focusedWidget' = IF k \in widgets /\ k = focusedWidget THEN NoWidget ELSE focusedWidget
    /\ widgets' = widgets \ {k}
    /\ UNCHANGED <<madeWidgets, lit, focusing, nested>>

\* shutdown empties the map and keeps the focused widget.
ClearWidgets ==
    /\ widgets' = {}
    /\ UNCHANGED <<madeWidgets, focusedWidget, lit, focusing, nested>>

\* The second half of setFocusedWidget, with handleFocus.
FocusOn(k) ==
    /\ focusedWidget' = k
    /\ lit' = (lit \cup {k}) \ {NoWidget}
    /\ nested' = (nested \/ Len(focusing) > 1 \/ (focusing # <<>> /\ focusedWidget = NoWidget))

\* setFocusedWidget up to the handler of the old widget, or whole when there is none.
\* It takes a widget that was destroyed too.
SetFocusedWidget(k) ==
    /\ Len(focusing) < MaxDepth
    /\ IF focusedWidget # NoWidget
         THEN /\ lit' = lit \ {focusedWidget}
              /\ focusing' = Append(focusing, k)
              /\ UNCHANGED <<focusedWidget, nested>>
         ELSE FocusOn(k) /\ UNCHANGED focusing
    /\ UNCHANGED <<widgets, madeWidgets>>

\* The handler of the old widget is done.
Blurred ==
    /\ focusing # <<>>
    /\ FocusOn(Last(focusing))
    /\ focusing' = Front(focusing)
    /\ UNCHANGED <<widgets, madeWidgets>>

WidgetNext ==
    \/ \E k \in Widget : CreateWidget(k) \/ DestroyWidget(k)
    \/ ClearWidgets
    \/ \E k \in madeWidgets \cup {NoWidget} : SetFocusedWidget(k)
    \/ Blurred

-----------------------------------------------------------------------------

Next ==
    \/ WindowNext /\ UNCHANGED widgetVars
    \/ WidgetNext /\ UNCHANGED managerVars

Spec == Init /\ [][Next]_vars

-----------------------------------------------------------------------------
\* Properties

TypeOK ==
    /\ Queue!EventTypeOK
    /\ sent \in Seq(Event) /\ Len(sent) = pushed
    /\ windows \in Seq(Made) /\ activeWindow \in Window \cup {None}
    /\ dragged \subseteq Made /\ flagged \subseteq Made /\ strayed \subseteq Made /\ placed \subseteq Made
    /\ at \in {"idle", "events", "widget", "resize", "each"} /\ i \in Nat \ {0}
    /\ isInitialized => server
    /\ widgets \subseteq madeWidgets /\ madeWidgets \subseteq Widget
    /\ lit \subseteq madeWidgets /\ focusedWidget \in madeWidgets \cup {NoWidget}
    /\ focusing \in Seq(madeWidgets \cup {NoWidget}) /\ Len(focusing) <= MaxDepth

\* However windows are made, destroyed, restacked and clicked on: none is twice in the
\* stack (so none outlives its erase there), the flag of those in it is the active
\* window's alone, and the keys go to a window of the stack, except for one focused
\* after its destruction, or left active by shutdown (30-38).
StackAgrees ==
    /\ IsInjective(windows)
    /\ \A w \in ToSet(windows) : w \in flagged <=> w = activeWindow
    /\ activeWindow # None => activeWindow \in ToSet(windows) \cup strayed

\* A window that fits is inside the screen from the last resize (228-242) until it is
\* dragged.
OnScreen ==
    \A w \in placed : bounds[w].width <= screen =>
        bounds[w].x >= 0 /\ bounds[w].x + bounds[w].width <= screen

\* Between calls of setFocusedWidget (95-104) the focused widget shows a focus, and of
\* those in the map it alone - unless an onBlur handler moved the focus itself: the
\* outer call goes on from the widget it had read, and two show a focus.
FocusAgrees ==
    focusing = <<>> =>
        /\ focusedWidget # NoWidget => focusedWidget \in lit
        /\ ~ nested => lit \cap widgets \subseteq {focusedWidget}
=============================================================================
