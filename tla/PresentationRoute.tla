-------------------------- MODULE PresentationRoute --------------------------
(***************************************************************************)
(* The projector as a second display.  The media router tells the activity *)
(* which display to use, mMediaRouterCallback and onResume bring the       *)
(* Presentation there (updatePresentation), onStop takes it away, and      *)
(* showNextColor paints mBitmap on it.  Displays come and go at any        *)
(* moment; the router, the Presentation's own listener and Dialog's        *)
(* dismiss message reach the UI thread later, as messages of its looper.   *)
(*                                                                         *)
(* AcquireActivity and GammaCalibActivity have the same code but for one   *)
(* line: only the second one removes its callback in onPause.              *)
(*                                                                         *)
(* External, from how the activities use it: MediaRouter, Display,         *)
(* Presentation.  A display that is plugged in again is a new one, because *)
(* the code compares Display objects.                                      *)
(***************************************************************************)
EXTENDS Integers, Sequences, FiniteSets, SequencesExt

CONSTANTS
    Activities,    \* which of "Acquire" and "GammaCalib" may run
    MaxEvents      \* bound: what the user and the cable do

ASSUME RouteAssumption ==
    /\ Activities \subseteq {"Acquire", "GammaCalib"}
    /\ MaxEvents \in Nat

VARIABLES
    activity,       \* the activity that runs
    visible,        \* "resumed", "paused" or "stopped"
    registered,     \* mMediaRouterCallback is registered
    mPresentation,  \* the activity's Presentation, or None
    mBitmap,        \* the number of the last pattern drawn
    displays,       \* the displays plugged in
    plugged,        \* how many there were
    route,          \* the presentation display of the selected route, or 0
    windows,        \* the Presentations on a display, with their pictures
    created,        \* how many there were
    uiQueue,        \* messages for the UI thread
    published,      \* history: the last pattern a worker published
    events          \* what the user and the cable have done

system == <<displays, plugged>>
shown == <<mPresentation, windows, created>>
counts == <<published, events>>
vars == <<activity, visible, registered, mBitmap, route, system, shown, uiQueue, counts>>

(* Each event plugs in at most one display and draws at most one pattern.  *)
Display == 1..(MaxEvents + 1)
Window == [id : Nat \ {0}, display : Display]
None == [id |-> 0, display |-> 0]

Message == [kind : {"displays", "progress"}]
           \cup [kind : {"gone", "dismissed"}, window : Window]

SystemType ==
    /\ activity \in Activities
    /\ visible \in {"resumed", "paused", "stopped"}
    /\ registered \in BOOLEAN
    /\ mBitmap \in 0..MaxEvents
    /\ displays \subseteq Display
    /\ plugged \in 0..(MaxEvents + 1)
    /\ route \in Display \cup {0}
    /\ published \in 0..mBitmap
    /\ events \in 0..MaxEvents

ShownType ==
    /\ mPresentation \in Window \cup {None}
    /\ DOMAIN windows \subseteq Window
    /\ \A w \in DOMAIN windows : windows[w] \in 0..MaxEvents
    /\ created \in Nat
    /\ uiQueue \in Seq(Message)

TypeOK == SystemType /\ ShownType

(* Before onResume, with the projector there or not.                       *)
Init ==
    /\ activity \in Activities
    /\ visible = "paused"
    /\ registered = FALSE
    /\ mPresentation = None
    /\ mBitmap = 0
    /\ plugged \in {0, 1}
    /\ displays = 1..plugged
    /\ route = plugged
    /\ windows = <<>>
    /\ created = 0
    /\ uiQueue = <<>>
    /\ published = 0
    /\ events = 0

------------------------------------------------------------------------------
(* The system: displays, and who is told of them.                          *)

Happens == events < MaxEvents /\ events' = events + 1

Post(messages) == uiQueue' = uiQueue \o messages

plugIn ==
    /\ Happens
    /\ plugged' = plugged + 1
    /\ displays' = displays \cup {plugged'}
    /\ Post(<<[kind |-> "displays"]>>)
    /\ UNCHANGED <<activity, visible, registered, mBitmap, route, shown, published>>

(* The router's listener and the one of a Presentation that is on the      *)
(* display are both told, in either order.                                 *)
unplug ==
    /\ Happens
    /\ \E d \in displays :
        /\ displays' = displays \ {d}
        /\ LET gone == {[kind |-> "gone", window |-> w] :
                            w \in {v \in DOMAIN windows : v.display = d}}
           IN \E told \in SetToSeqs(gone \cup {[kind |-> "displays"]}) : Post(told)
    /\ UNCHANGED <<activity, visible, registered, mBitmap, plugged, route, shown, published>>

------------------------------------------------------------------------------
(* updatePresentation.                                                     *)

Without(w) == [v \in DOMAIN windows \ {w} |-> windows[v]]

(* Variant: dismiss without the test for null.                            *)
DismissedUnchecked(w) == <<[kind |-> "dismissed", window |-> w]>>

(* Dialog.dismiss takes the window away and posts the dismiss message;     *)
(* a dialog that is not showing has nothing to dismiss.                    *)
Dismissed(w) == IF w \in DOMAIN windows THEN <<[kind |-> "dismissed", window |-> w]>> ELSE <<>>

(* Variant: setBitmap is forgotten after show().                          *)
showUnpainted(selectedDisplay, bitmap, remaining) ==
    LET fresh == [id |-> created + 1, display |-> selectedDisplay]
    IN /\ created' = fresh.id
       /\ \/ /\ selectedDisplay \in displays
             /\ mPresentation' = fresh
             /\ windows' = [w \in DOMAIN remaining \cup {fresh} |->
                              IF w = fresh THEN 0 ELSE remaining[w]]
          \/ /\ selectedDisplay \notin displays
             /\ mPresentation' = None
             /\ windows' = remaining

(* Show a new Presentation on a display: an InvalidDisplayException, when  *)
(* the display has gone away in the mean time, leaves mPresentation null.  *)
show(selectedDisplay, bitmap, remaining) ==
    LET fresh == [id |-> created + 1, display |-> selectedDisplay]
    IN /\ created' = fresh.id
       /\ \/ /\ selectedDisplay \in displays
             /\ mPresentation' = fresh
             /\ windows' = [w \in DOMAIN remaining \cup {fresh} |->
                              IF w = fresh THEN bitmap ELSE remaining[w]]
          \/ /\ selectedDisplay \notin displays
             /\ mPresentation' = None
             /\ windows' = remaining

(* queue: the messages left when the handler that calls it has taken its.  *)
updatePresentation(selectedDisplay, bitmap, queue) ==
    LET stays == mPresentation # None /\ mPresentation.display = selectedDisplay
        remaining == IF stays THEN windows ELSE Without(mPresentation)
    IN /\ uiQueue' = IF stays THEN queue ELSE queue \o Dismissed(mPresentation)
       /\ \/ stays /\ UNCHANGED shown
          \/ /\ ~stays /\ selectedDisplay = 0
             /\ mPresentation' = None
             /\ windows' = remaining
             /\ UNCHANGED created
          \/ ~stays /\ selectedDisplay # 0 /\ show(selectedDisplay, bitmap, remaining)

------------------------------------------------------------------------------
(* The UI thread's messages.                                               *)

Received(kind) == uiQueue # <<>> /\ Head(uiQueue).kind = kind

(* The router keeps its display while that is there and then takes         *)
(* another; its callback is onRoutePresentationDisplayChanged.             *)
Chosen == IF route \in displays THEN {route}
          ELSE IF displays = {} THEN {0} ELSE displays

(* Variant: the display change does not update the presentation.          *)
onDisplayChangedIgnored ==
    /\ Received("displays")
    /\ route' \in Chosen
    /\ uiQueue' = Tail(uiQueue)
    /\ UNCHANGED shown
    /\ UNCHANGED <<activity, visible, registered, mBitmap, system, counts>>

onRoutePresentationDisplayChanged ==
    /\ Received("displays")
    /\ route' \in Chosen
    /\ \/ /\ registered /\ route' # route
          /\ updatePresentation(route', mBitmap, Tail(uiQueue))
       \/ /\ ~registered \/ route' = route
          /\ uiQueue' = Tail(uiQueue)
          /\ UNCHANGED shown
    /\ UNCHANGED <<activity, visible, registered, mBitmap, system, counts>>

(* What the router offers: as long as it has not been told of the latest   *)
(* change, a display that has gone may still be among it.                  *)
Offered == IF Contains(uiQueue, [kind |-> "displays"]) THEN 1..plugged ELSE displays

(* The user selects another display, whatever messages are waiting:        *)
(* onRouteUnselected with the old route, which changes nothing, then       *)
(* onRouteSelected.                                                        *)
onRouteSelected ==
    /\ Happens
    /\ route' \in Offered \ {route}
    /\ \/ registered /\ updatePresentation(route', mBitmap, uiQueue)
       \/ ~registered /\ UNCHANGED <<uiQueue, shown>>
    /\ UNCHANGED <<activity, visible, registered, mBitmap, system, published>>

(* Presentation's own listener: its display was removed, it cancels itself.*)
onDisplayRemoved ==
    /\ Received("gone")
    /\ LET w == Head(uiQueue).window
       IN windows' = Without(w) /\ uiQueue' = Tail(uiQueue) \o Dismissed(w)
    /\ UNCHANGED <<activity, visible, registered, mPresentation, created, mBitmap, route,
                   system, counts>>

(* Variant: any dismissal clears mPresentation.                           *)
onDismissAny ==
    /\ Received("dismissed")
    /\ mPresentation' = None
    /\ uiQueue' = Tail(uiQueue)
    /\ UNCHANGED <<activity, visible, registered, windows, created, mBitmap, route, system,
                   counts>>

onDismiss ==
    /\ Received("dismissed")
    /\ mPresentation' = IF Head(uiQueue).window = mPresentation THEN None ELSE mPresentation
    /\ uiQueue' = Tail(uiQueue)
    /\ UNCHANGED <<activity, visible, registered, windows, created, mBitmap, route, system,
                   counts>>

(* A worker draws a pattern and publishes it.                              *)
publishProgress ==
    /\ Happens
    /\ mBitmap' = mBitmap + 1
    /\ published' = mBitmap'
    /\ Post(<<[kind |-> "progress"]>>)
    /\ UNCHANGED <<activity, visible, registered, route, system, shown>>

showNextColor ==
    /\ Received("progress")
    /\ windows' = [w \in DOMAIN windows |->
                     IF w = mPresentation THEN mBitmap ELSE windows[w]]
    /\ uiQueue' = Tail(uiQueue)
    /\ UNCHANGED <<activity, visible, registered, mPresentation, created, mBitmap, route,
                   system, counts>>

(* setAcqMethod draws the pattern of the mode and updates the presentation.*)
setAcqMethod ==
    /\ activity = "Acquire"
    /\ visible = "resumed"
    /\ Happens
    /\ mBitmap' = mBitmap + 1
    /\ updatePresentation(route, mBitmap', uiQueue)
    /\ UNCHANGED <<activity, visible, registered, route, system, published>>

------------------------------------------------------------------------------
(* The activity's life.                                                    *)

onResume ==
    /\ visible \in {"paused", "stopped"}
    /\ visible' = "resumed"
    /\ registered' = TRUE
    /\ updatePresentation(route, mBitmap, uiQueue)
    /\ UNCHANGED <<activity, mBitmap, route, system, counts>>

(* AcquireActivity only asks for the router once more.                     *)
onPause ==
    /\ visible = "resumed"
    /\ Happens
    /\ visible' = "paused"
    /\ registered' = (activity = "Acquire")
    /\ UNCHANGED <<activity, mBitmap, route, system, shown, uiQueue, published>>

onStop ==
    /\ visible = "paused"
    /\ visible' = "stopped"
    /\ Post(Dismissed(mPresentation))
    /\ windows' = Without(mPresentation)
    /\ mPresentation' = None
    /\ UNCHANGED <<activity, registered, created, mBitmap, route, system, counts>>

Messages == onRoutePresentationDisplayChanged \/ onDisplayRemoved \/ onDismiss
            \/ showNextColor

Next == plugIn \/ unplug \/ Messages \/ onRouteSelected \/ publishProgress
        \/ setAcqMethod \/ onResume \/ onPause \/ onStop

Spec == Init /\ [][Next]_vars

(* The looper delivers its messages; nobody else has to do anything.       *)
FairSpec == Spec /\ WF_vars(Messages)

------------------------------------------------------------------------------
(* What the presentation promises.                                         *)

(* Every window on a display is the one mPresentation refers to: none is   *)
(* left behind where nobody can dismiss it or paint on it, although        *)
(* dismiss messages arrive after mPresentation has moved on (onDismiss,    *)
(* updatePresentation).                                                    *)
NoOrphanWindow == DOMAIN windows \subseteq {mPresentation}

(* When the looper has nothing left to deliver, a resumed activity has its *)
(* window on the router's display, or none if there is no display, with    *)
(* a picture no older than the last pattern published: a display that goes *)
(* away between the router's decision and show() is made good.             *)
SettledOnTheRoute ==
    visible = "resumed" /\ uiQueue = <<>> =>
        /\ mPresentation.display = route
        /\ route # 0 => mPresentation \in DOMAIN windows /\ windows[mPresentation] >= published
        /\ route = 0 <=> displays = {}

(* A stopped activity whose callback is removed shows nothing.             *)
HiddenOnceRemoved == visible = "stopped" /\ ~registered => DOMAIN windows = {}

(* A projector that stays plugged in is used in the end.                   *)
ProjectorLit ==
    visible = "resumed" /\ displays # {}
        ~> DOMAIN windows # {} \/ visible # "resumed" \/ displays = {}

(* "Dismiss the presentation when the activity is not visible" (onStop).   *)
HiddenWhenStopped == visible = "stopped" => DOMAIN windows = {}

------------------------------------------------------------------------------
(* The inductive invariant behind these three.                             *)

Pending(queue) == {queue[i] : i \in 1..Len(queue)}

(* Displays and Presentations are new when they come, and what refers to   *)
(* one refers to one that has come.                                        *)
SystemInStep ==
    /\ plugged <= events + 1
    /\ mBitmap <= events
    /\ displays \subseteq 1..plugged
    /\ route <= plugged

ShownInStep ==
    /\ mPresentation.id <= created
    /\ mPresentation.display <= plugged
    /\ \A m \in Pending(uiQueue) :
        m.kind \in {"gone", "dismissed"} => m.window.id <= created /\ m.window.display <= plugged

(* A message about a window comes after the fact: a dismissed window is    *)
(* away, the display of a "gone" one is.  A Presentation without a window  *)
(* has lost its display.                                                   *)
WindowsInStep ==
    /\ \A m \in Pending(uiQueue) :
        /\ m.kind = "dismissed" => m.window \notin DOMAIN windows
        /\ m.kind = "gone" => m.window.display \notin displays
    /\ mPresentation # None /\ mPresentation \notin DOMAIN windows
        => mPresentation.display \notin displays

(* The router has a display if there is one, or will look again.           *)
RouteInStep ==
    \/ route \in displays
    \/ route = 0 /\ displays = {}
    \/ [kind |-> "displays"] \in Pending(uiQueue)

(* A resumed activity follows the route, unless that is about to change.   *)
FollowsRoute ==
    visible = "resumed" =>
        /\ registered
        /\ mPresentation.display = route \/ (route # 0 /\ route \notin displays)

(* What is shown is as new as the last pattern published, or will be.      *)
PictureInStep ==
    \/ \A w \in DOMAIN windows : windows[w] >= published
    \/ [kind |-> "progress"] \in Pending(uiQueue)

RouteInv ==
    /\ TypeOK
    /\ SystemInStep
    /\ ShownInStep
    /\ NoOrphanWindow
    /\ WindowsInStep
    /\ RouteInStep
    /\ FollowsRoute
    /\ PictureInStep
    /\ HiddenOnceRemoved

==============================================================================
