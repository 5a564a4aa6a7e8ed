---------------------- MODULE PresentationRouteProofs -----------------------
(***************************************************************************)
(* What holds of the Presentation for every number of displays, patterns   *)
(* and visits to the activity: no window is left behind, and a resumed     *)
(* activity with nothing left to deliver shows its picture on the route.   *)
(***************************************************************************)
EXTENDS PresentationRoute, FiniteSetTheorems, TLAPS

LEMMA Bound == MaxEvents \in Nat
  BY RouteAssumption

(* What is pending when messages are taken from a queue or added to it.    *)
LEMMA PendingEmpty == Pending(<<>>) = {}
  BY DEF Pending

LEMMA PendingOne == ASSUME NEW m PROVE Pending(<<m>>) = {m}
  BY DEF Pending

LEMMA PendingAdded ==
    ASSUME NEW S, NEW s \in Seq(S), NEW t \in Seq(S)
    PROVE  s \o t \in Seq(S) /\ Pending(s \o t) = Pending(s) \cup Pending(t)
  <1>1. /\ s \o t \in Seq(S) /\ Len(s \o t) = Len(s) + Len(t)
        /\ \A i \in 1..Len(s) : (s \o t)[i] = s[i]
        /\ \A i \in 1..Len(t) : (s \o t)[Len(s) + i] = t[i]
    OBVIOUS
  <1>2. Len(s) \in Nat /\ Len(t) \in Nat
    OBVIOUS
  <1>3. ASSUME NEW i \in 1..Len(s \o t)
        PROVE  (s \o t)[i] \in Pending(s) \cup Pending(t)
    <2>1. CASE i <= Len(s)
      BY <1>1, <1>2, <2>1 DEF Pending
    <2>2. CASE i > Len(s)
      <3>1. i - Len(s) \in 1..Len(t) /\ Len(s) + (i - Len(s)) = i
        BY <1>1, <1>2, <2>2
      <3>2. (s \o t)[i] = t[i - Len(s)]
        BY <1>1, <3>1
      <3> QED BY <3>1, <3>2 DEF Pending
    <2> QED BY <1>1, <1>2, <2>1, <2>2
  <1>4. ASSUME NEW i \in 1..Len(s) PROVE s[i] \in Pending(s \o t)
    <2>1. i \in 1..Len(s \o t) /\ (s \o t)[i] = s[i]
      BY <1>1, <1>2
    <2> QED BY <2>1 DEF Pending
  <1>5. ASSUME NEW i \in 1..Len(t) PROVE t[i] \in Pending(s \o t)
    <2>1. Len(s) + i \in 1..Len(s \o t) /\ (s \o t)[Len(s) + i] = t[i]
      BY <1>1, <1>2
    <2> QED BY <2>1 DEF Pending
  <1>6. Pending(s \o t) \subseteq Pending(s) \cup Pending(t)
    BY <1>3 DEF Pending
  <1>7. Pending(s) \subseteq Pending(s \o t)
    BY <1>4 DEF Pending
  <1>8. Pending(t) \subseteq Pending(s \o t)
    BY <1>5 DEF Pending
  <1> QED BY <1>1, <1>6, <1>7, <1>8

LEMMA PendingTaken ==
    ASSUME NEW S, NEW s \in Seq(S), s # <<>>
    PROVE  /\ Head(s) \in S /\ Tail(s) \in Seq(S)
           /\ Pending(s) = {Head(s)} \cup Pending(Tail(s))
  <1>1. /\ Head(s) \in S /\ Tail(s) \in Seq(S) /\ Len(s) \in Nat \ {0}
        /\ Len(Tail(s)) = Len(s) - 1 /\ Head(s) = s[1]
        /\ \A i \in 1..Len(Tail(s)) : Tail(s)[i] = s[i + 1]
    OBVIOUS
  <1>2. ASSUME NEW i \in 1..Len(s) PROVE s[i] \in {Head(s)} \cup Pending(Tail(s))
    <2>1. CASE i = 1
      BY <1>1, <2>1
    <2>2. CASE i # 1
      <3>1. i - 1 \in 1..Len(Tail(s)) /\ (i - 1) + 1 = i
        BY <1>1, <2>2
      <3>2. Tail(s)[i - 1] = s[i]
        BY <1>1, <3>1
      <3> QED BY <3>1, <3>2 DEF Pending
    <2> QED BY <2>1, <2>2
  <1>3. ASSUME NEW i \in 1..Len(Tail(s)) PROVE Tail(s)[i] \in Pending(s)
    <2>1. i + 1 \in 1..Len(s) /\ Tail(s)[i] = s[i + 1]
      BY <1>1
    <2> QED BY <2>1 DEF Pending
  <1>4. Head(s) \in Pending(s)
    BY <1>1 DEF Pending
  <1>5. Pending(s) \subseteq {Head(s)} \cup Pending(Tail(s))
    BY <1>2 DEF Pending
  <1>6. Pending(Tail(s)) \subseteq Pending(s)
    BY <1>3 DEF Pending
  <1> QED BY <1>1, <1>4, <1>5, <1>6

LEMMA PendingTyped == ASSUME NEW S, NEW s \in Seq(S) PROVE Pending(s) \subseteq S
  BY DEF Pending

(* Messages sent in any order are all sent.                                *)
LEMMA AnyOrder ==
    ASSUME NEW S, IsFiniteSet(S), NEW told \in SetToSeqs(S)
    PROVE  told \in Seq(S) /\ Pending(told) = S
  <1> DEFINE n == Cardinality(S)
  <1>1. n \in Nat
    BY FS_CardinalityType
  <1>2. told \in [1..n -> S] /\ \A i, j \in 1..n : i # j => told[i] # told[j]
    BY DEF SetToSeqs
  <1> HIDE DEF n
  <1>3. told \in Seq(S) /\ Len(told) = n
    BY <1>1, <1>2
  <1>4. told \in Injection(1..n, S)
    BY <1>2 DEF Injection, IsInjective
  <1>5. IsFiniteSet(1..n) /\ Cardinality(1..n) = n
    BY <1>1, FS_Interval
  <1>6. told \in Surjection(1..n, S)
    BY <1>4, <1>5, FS_Injection DEF n
  <1>7. \A m \in S : \E i \in 1..n : told[i] = m
    BY <1>6 DEF Surjection
  <1> QED BY <1>2, <1>3, <1>7 DEF Pending

------------------------------------------------------------------------------
(* What updatePresentation comes to: the Presentation stays, or it goes    *)
(* and there is none, or it goes and there is one on the display asked for.*)
Fresh(selectedDisplay) == [id |-> created + 1, display |-> selectedDisplay]

LEMMA UpdateEffect ==
    ASSUME TypeOK, NoOrphanWindow, NEW selectedDisplay, NEW bitmap, NEW queue,
           updatePresentation(selectedDisplay, bitmap, queue)
    PROVE  \/ /\ mPresentation # None /\ mPresentation.display = selectedDisplay
              /\ uiQueue' = queue /\ UNCHANGED shown
           \/ /\ uiQueue' = queue \o Dismissed(mPresentation)
              /\ selectedDisplay \notin displays /\ mPresentation' = None
              /\ DOMAIN windows' = {} /\ created' \in {created, created + 1}
           \/ /\ uiQueue' = queue \o Dismissed(mPresentation)
              /\ selectedDisplay \in displays /\ mPresentation' = Fresh(selectedDisplay)
              /\ DOMAIN windows' = {Fresh(selectedDisplay)}
              /\ windows'[Fresh(selectedDisplay)] = bitmap /\ created' = created + 1
  <1> DEFINE stays == mPresentation # None /\ mPresentation.display = selectedDisplay
  <1>0. 0 \notin displays
    BY Bound DEF TypeOK, SystemType, Display
  <1>1. CASE stays
    BY <1>1 DEF updatePresentation
  <1>2. CASE ~stays
    <2>1. DOMAIN Without(mPresentation) = {}
      BY DEF Without, NoOrphanWindow
    <2>2. uiQueue' = queue \o Dismissed(mPresentation)
      BY <1>2 DEF updatePresentation
    <2>3. CASE selectedDisplay = 0
      <3>1. mPresentation' = None /\ windows' = Without(mPresentation) /\ created' = created
        BY <1>2, <2>3 DEF updatePresentation
      <3> QED BY <1>0, <2>1, <2>2, <2>3, <3>1
    <2>4. CASE selectedDisplay # 0
      <3>1. show(selectedDisplay, bitmap, Without(mPresentation))
        BY <1>2, <2>4 DEF updatePresentation
      <3>2. created' = created + 1
        BY <3>1 DEF show
      <3>3. CASE selectedDisplay \notin displays
        <4>1. mPresentation' = None /\ windows' = Without(mPresentation)
          BY <3>1, <3>3 DEF show
        <4> QED BY <2>1, <2>2, <3>2, <3>3, <4>1
      <3>4. CASE selectedDisplay \in displays
        <4>1. /\ mPresentation' = Fresh(selectedDisplay)
              /\ windows' = [w \in DOMAIN Without(mPresentation) \cup {Fresh(selectedDisplay)} |->
                              IF w = Fresh(selectedDisplay) THEN bitmap
                              ELSE Without(mPresentation)[w]]
          BY <3>1, <3>4 DEF show, Fresh
        <4>2. /\ DOMAIN windows' = {Fresh(selectedDisplay)}
              /\ windows'[Fresh(selectedDisplay)] = bitmap
          BY <2>1, <4>1
        <4> QED BY <2>2, <3>2, <3>4, <4>1, <4>2
      <3> QED BY <3>3, <3>4
    <2> QED BY <2>3, <2>4
  <1> QED BY <1>1, <1>2

(* The types and bounds the steps use.                                     *)
LEMMA RouteFacts ==
    ASSUME RouteInv
    PROVE  /\ MaxEvents \in Nat /\ TypeOK /\ SystemType /\ ShownType /\ NoOrphanWindow
           /\ plugged \in Nat /\ events \in Nat /\ created \in Nat /\ mBitmap \in Nat
           /\ published \in Nat /\ published <= mBitmap
           /\ mPresentation.id \in Nat /\ mPresentation.display \in Nat
           /\ None.id = 0 /\ None.display = 0
           /\ mPresentation # None => mPresentation \in Window
           /\ \A w \in Window : w.id \in Nat \ {0} /\ w.display \in Nat \ {0} /\ w # None
           /\ Pending(uiQueue) \subseteq Message
           /\ \A m \in Message : m.kind \in {"gone", "dismissed"} => m.window \in Window
           /\ displays \subseteq Nat \ {0}
  <1>1. TypeOK /\ SystemType /\ ShownType /\ NoOrphanWindow
    BY DEF RouteInv, TypeOK
  <1>2. None.id = 0 /\ None.display = 0
    BY DEF None
  <1>3. \A w \in Window : w.id \in Nat \ {0} /\ w.display \in Nat \ {0}
    BY Bound DEF Window, Display
  <1>4. mPresentation \in Window \cup {None}
    BY <1>1 DEF ShownType
  <1>5. Pending(uiQueue) \subseteq Message
    BY <1>1, PendingTyped DEF ShownType
  <1>6. \A m \in Message : m.kind \in {"gone", "dismissed"} => m.window \in Window
    BY DEF Message
  <1>7. displays \subseteq Nat \ {0}
    BY <1>1, Bound DEF SystemType, Display
  <1>8. /\ plugged \in Nat /\ events \in Nat /\ created \in Nat /\ mBitmap \in Nat
        /\ published \in Nat /\ published <= mBitmap
    BY <1>1, Bound DEF SystemType, ShownType
  <1> QED BY <1>1, <1>2, <1>3, <1>4, <1>5, <1>6, <1>7, <1>8, Bound

(* One message is posted.                                                  *)
LEMMA PostedOne ==
    ASSUME NEW queue \in Seq(Message), NEW m \in Message
    PROVE  /\ queue \o <<m>> \in Seq(Message)
           /\ Pending(queue \o <<m>>) = Pending(queue) \cup {m}
  <1> DEFINE posted == <<m>>
  <1>1. posted \in Seq(Message) /\ Pending(posted) = {m}
    BY PendingOne
  <1> HIDE DEF posted
  <1>2. /\ queue \o posted \in Seq(Message)
        /\ Pending(queue \o posted) = Pending(queue) \cup Pending(posted)
    BY <1>1, PendingAdded
  <1> QED BY <1>1, <1>2 DEF posted

(* Dismissing the Presentation posts at most its dismiss message.          *)
LEMMA DismissedPosts ==
    ASSUME RouteInv, NEW queue \in Seq(Message), Pending(queue) \subseteq Pending(uiQueue)
    PROVE  LET posted == queue \o Dismissed(mPresentation)
           IN  /\ posted \in Seq(Message)
               /\ Pending(queue) \subseteq Pending(posted)
               /\ \A m \in Pending(posted) :
                    \/ m \in Pending(uiQueue)
                    \/ /\ m = [kind |-> "dismissed", window |-> mPresentation]
                       /\ mPresentation \in Window
  <1> DEFINE message == [kind |-> "dismissed", window |-> mPresentation]
  <1>1. CASE mPresentation \in DOMAIN windows
    <2>1. mPresentation \in Window
      BY <1>1, RouteFacts DEF ShownType
    <2>2. Dismissed(mPresentation) = <<message>>
      BY <1>1 DEF Dismissed
    <2>3. message \in Message
      BY <2>1 DEF Message
    <2> HIDE DEF message
    <2>4. /\ queue \o <<message>> \in Seq(Message)
          /\ Pending(queue \o <<message>>) = Pending(queue) \cup {message}
      BY <2>3, PostedOne
    <2> QED BY <2>1, <2>2, <2>4 DEF message
  <1>2. CASE mPresentation \notin DOMAIN windows
    <2>1. Dismissed(mPresentation) = <<>>
      BY <1>2 DEF Dismissed
    <2>2. queue \o <<>> = queue
      OBVIOUS
    <2> QED BY <2>1, <2>2
  <1> QED BY <1>1, <1>2

LEMMA UpdateKeeps ==
    ASSUME RouteInv, UNCHANGED system, NEW selectedDisplay \in 0..plugged,
           NEW bitmap \in 0..MaxEvents,
           NEW queue \in Seq(Message), Pending(queue) \subseteq Pending(uiQueue),
           updatePresentation(selectedDisplay, bitmap, queue)
    PROVE  /\ ShownType' /\ ShownInStep' /\ NoOrphanWindow' /\ WindowsInStep'
           /\ Pending(queue) \subseteq Pending(uiQueue')
           /\ \/ mPresentation'.display = selectedDisplay
              \/ selectedDisplay # 0 /\ selectedDisplay \notin displays
           /\ \/ \A w \in DOMAIN windows' : windows'[w] = bitmap
              \/ windows' = windows
  <1> USE RouteFacts
  <1>1. UNCHANGED <<displays, plugged>>
    BY DEF system
  <1>2. /\ ShownInStep /\ WindowsInStep /\ SystemInStep
    BY DEF RouteInv
  <1>3. CASE /\ mPresentation # None /\ mPresentation.display = selectedDisplay
             /\ uiQueue' = queue /\ UNCHANGED shown
    <2>1. UNCHANGED <<mPresentation, windows, created>>
      BY <1>3 DEF shown
    <2>2. ShownType'
      BY <1>3, <2>1 DEF ShownType
    <2>3. ShownInStep'
      BY <1>1, <1>2, <1>3, <2>1 DEF ShownInStep
    <2>4. NoOrphanWindow' /\ WindowsInStep'
      BY <1>1, <1>2, <1>3, <2>1 DEF NoOrphanWindow, WindowsInStep
    <2> QED BY <1>3, <2>1, <2>2, <2>3, <2>4
  <1>4. ASSUME uiQueue' = queue \o Dismissed(mPresentation),
               created' \in {created, created + 1},
               \/ mPresentation' = None /\ DOMAIN windows' = {}
               \/ /\ selectedDisplay \in displays
                  /\ mPresentation' = Fresh(selectedDisplay) /\ created' = created + 1
                  /\ DOMAIN windows' = {Fresh(selectedDisplay)}
                  /\ windows'[Fresh(selectedDisplay)] = bitmap
        PROVE  /\ ShownType' /\ ShownInStep' /\ NoOrphanWindow' /\ WindowsInStep'
               /\ Pending(queue) \subseteq Pending(uiQueue')
    <2>1. /\ uiQueue' \in Seq(Message)
          /\ Pending(queue) \subseteq Pending(uiQueue')
          /\ \A m \in Pending(uiQueue') :
               \/ m \in Pending(uiQueue)
               \/ m = [kind |-> "dismissed", window |-> mPresentation] /\ mPresentation \in Window
      BY <1>4, DismissedPosts
    <2>2. /\ Fresh(selectedDisplay).id = created + 1
          /\ Fresh(selectedDisplay).display = selectedDisplay
          /\ selectedDisplay \in displays => Fresh(selectedDisplay) \in Window
      BY DEF Fresh, Window, SystemType
    <2>3. ShownType'
      BY <1>4, <2>1, <2>2, SMTT(30) DEF ShownType
    <2>4. ASSUME NEW m \in Pending(uiQueue'), m.kind \in {"gone", "dismissed"}
          PROVE  /\ m.window.id <= created /\ m.window.display <= plugged
                 /\ m.window \in Window /\ m.window.id \in Nat
                 /\ m.kind = "gone" => m.window.display \notin displays
      <3>1. CASE m \in Pending(uiQueue)
        BY <1>2, <2>4, <3>1 DEF ShownInStep, WindowsInStep
      <3>2. CASE m = [kind |-> "dismissed", window |-> mPresentation] /\ mPresentation \in Window
        <4>1. m.kind = "dismissed" /\ m.window = mPresentation
          BY <3>2
        <4> QED BY <1>2, <3>2, <4>1 DEF ShownInStep
      <3> QED BY <2>1, <3>1, <3>2
    <2>5. ShownInStep'
      <3>1. mPresentation'.id <= created' /\ mPresentation'.display <= plugged'
        BY <1>1, <1>4, <2>2
      <3>2. created <= created' /\ created' \in Nat
        BY <1>4
      <3>3. \A m \in Pending(uiQueue') : m.kind \in {"gone", "dismissed"}
                => m.window.id <= created' /\ m.window.display <= plugged'
        BY <1>1, <2>4, <3>2
      <3> QED BY <3>1, <3>3 DEF ShownInStep
    <2>6. NoOrphanWindow'
      BY <1>4 DEF NoOrphanWindow
    <2>7. WindowsInStep'
      <3>1. ASSUME NEW m \in Pending(uiQueue')
            PROVE  /\ m.kind = "dismissed" => m.window \notin DOMAIN windows'
                   /\ m.kind = "gone" => m.window.display \notin displays'
        <4>1. m.kind = "dismissed" => m.window # Fresh(selectedDisplay)
          BY <2>2, <2>4
        <4> QED BY <1>1, <1>4, <2>4, <4>1
      <3>2. mPresentation' # None => mPresentation' \in DOMAIN windows'
        BY <1>4
      <3> QED BY <3>1, <3>2 DEF WindowsInStep
    <2> QED BY <2>1, <2>3, <2>5, <2>6, <2>7
  <1>5. CASE /\ uiQueue' = queue \o Dismissed(mPresentation)
             /\ selectedDisplay \notin displays /\ mPresentation' = None
             /\ DOMAIN windows' = {} /\ created' \in {created, created + 1}
    BY <1>4, <1>5
  <1>6. CASE /\ uiQueue' = queue \o Dismissed(mPresentation)
             /\ selectedDisplay \in displays /\ mPresentation' = Fresh(selectedDisplay)
             /\ DOMAIN windows' = {Fresh(selectedDisplay)}
             /\ windows'[Fresh(selectedDisplay)] = bitmap /\ created' = created + 1
    <2>1. mPresentation'.display = selectedDisplay
      BY <1>6 DEF Fresh
    <2> QED BY <1>4, <1>6, <2>1
  <1> QED BY <1>3, <1>5, <1>6, UpdateEffect

------------------------------------------------------------------------------
(* A message is delivered.                                                 *)
LEMMA Delivered ==
    ASSUME RouteInv, NEW kind, Received(kind)
    PROVE  /\ Head(uiQueue) \in Pending(uiQueue) /\ Head(uiQueue).kind = kind
           /\ Tail(uiQueue) \in Seq(Message) /\ Pending(Tail(uiQueue)) \subseteq Pending(uiQueue)
           /\ \A m \in Pending(uiQueue) : m.kind # kind => m \in Pending(Tail(uiQueue))
  <1>1. uiQueue # <<>> /\ Head(uiQueue).kind = kind /\ uiQueue \in Seq(Message)
    BY RouteFacts DEF Received, ShownType
  <1>2. /\ Tail(uiQueue) \in Seq(Message)
        /\ Pending(uiQueue) = {Head(uiQueue)} \cup Pending(Tail(uiQueue))
    BY <1>1, PendingTaken
  <1> QED BY <1>1, <1>2

LEMMA Kinds ==
    /\ [kind |-> "displays"] \in Message /\ [kind |-> "displays"].kind = "displays"
    /\ [kind |-> "progress"] \in Message /\ [kind |-> "progress"].kind = "progress"
  BY DEF Message

(* The cable.                                                              *)
LEMMA PlugInKeeps == ASSUME RouteInv, plugIn PROVE RouteInv'
  <1> USE RouteFacts, Kinds
  <1>1. /\ events < MaxEvents /\ events' = events + 1 /\ plugged' = plugged + 1
        /\ displays' = displays \cup {plugged + 1}
        /\ uiQueue' = uiQueue \o <<[kind |-> "displays"]>>
        /\ UNCHANGED <<activity, visible, registered, mBitmap, route, mPresentation, windows,
                       created, published>>
    BY DEF plugIn, Happens, Post, shown
  <1>2. uiQueue' \in Seq(Message) /\ Pending(uiQueue') = Pending(uiQueue) \cup {[kind |-> "displays"]}
    BY <1>1, PostedOne DEF ShownType
  <1>3. SystemInStep /\ ShownInStep /\ WindowsInStep /\ FollowsRoute /\ PictureInStep
    BY DEF RouteInv
  <1>4. SystemType' /\ SystemInStep'
    <2>1. plugged + 1 \in 1..(MaxEvents + 1) /\ plugged <= events + 1 /\ events + 1 \in 0..MaxEvents
      BY <1>1, <1>3 DEF SystemType, SystemInStep
    <2>2. displays' \subseteq Display /\ displays' \subseteq 1..(plugged + 1)
      <3>1. displays \subseteq 1..plugged /\ displays \subseteq 1..(MaxEvents + 1)
        BY <1>3 DEF SystemType, SystemInStep, Display
      <3>2. \A x \in 1..plugged : x \in 1..(plugged + 1)
        OBVIOUS
      <3>3. plugged + 1 \in 1..(plugged + 1)
        OBVIOUS
      <3> QED BY <1>1, <2>1, <3>1, <3>2, <3>3 DEF Display
    <2>3. SystemType'
      BY <1>1, <2>1, <2>2 DEF SystemType
    <2>4. SystemInStep'
      <3>1. route <= plugged /\ route \in Nat /\ mBitmap <= events
        BY <1>3 DEF SystemInStep, SystemType, Display
      <3> QED BY <1>1, <2>1, <2>2, <3>1, SMTT(30) DEF SystemInStep
    <2> QED BY <2>3, <2>4
  <1>5. ShownType'
    BY <1>1, <1>2 DEF ShownType
  <1>6. ShownInStep'
    BY <1>1, <1>2, <1>3, SMTT(30) DEF ShownInStep
  <1>7. NoOrphanWindow' /\ HiddenOnceRemoved'
    BY <1>1 DEF RouteInv, NoOrphanWindow, HiddenOnceRemoved
  <1>8. WindowsInStep'
    <2>1. \A m \in Pending(uiQueue) :
            m.kind = "gone" => m.window.display \in Nat /\ m.window.display <= plugged
      BY <1>3 DEF ShownInStep
    <2> QED BY <1>1, <1>2, <1>3, <2>1, SMTT(30) DEF WindowsInStep, ShownInStep
  <1>9. RouteInStep' /\ PictureInStep'
    BY <1>1, <1>2, <1>3 DEF RouteInStep, PictureInStep
  <1>10. FollowsRoute'
    BY <1>1, <1>3 DEF FollowsRoute, SystemInStep, SystemType
  <1> QED BY <1>4, <1>5, <1>6, <1>7, <1>8, <1>9, <1>10 DEF RouteInv, TypeOK

LEMMA UnplugKeeps == ASSUME RouteInv, unplug PROVE RouteInv'
  <1> USE RouteFacts, Kinds
  <1> DEFINE On(d) == {v \in DOMAIN windows : v.display = d}
             Gone(d) == {[kind |-> "gone", window |-> w] : w \in On(d)}
             All(d) == Gone(d) \cup {[kind |-> "displays"]}
  <1>1. PICK d \in displays :
            displays' = displays \ {d} /\ \E told \in SetToSeqs(All(d)) : uiQueue' = uiQueue \o told
    BY DEF unplug, Post
  <1>2. /\ events < MaxEvents /\ events' = events + 1
        /\ UNCHANGED <<activity, visible, registered, mBitmap, plugged, route, mPresentation,
                       windows, created, published>>
    BY DEF unplug, Happens, shown
  <1>3. SystemInStep /\ ShownInStep /\ WindowsInStep /\ RouteInStep /\ FollowsRoute /\ PictureInStep
    BY DEF RouteInv
  <1>4. Gone(d) \in SUBSET {[kind |-> "gone", window |-> mPresentation]}
    BY DEF NoOrphanWindow
  <1>5. IsFiniteSet(Gone(d))
    <2>1. Gone(d) = {} \/ Gone(d) = {[kind |-> "gone", window |-> mPresentation]}
      BY <1>4
    <2> HIDE DEF Gone
    <2>2. IsFiniteSet({}) /\ IsFiniteSet({[kind |-> "gone", window |-> mPresentation]})
      BY FS_EmptySet, FS_Singleton
    <2> QED BY <2>1, <2>2
  <1>6. IsFiniteSet(All(d))
    BY <1>5, FS_AddElement
  <1>7. Gone(d) \subseteq Message
    BY DEF Message, ShownType
  <1>8. PICK told : told \in Seq(All(d)) /\ Pending(told) = All(d) /\ uiQueue' = uiQueue \o told
    BY <1>1, <1>6, AnyOrder
  <1>9. \A m \in Gone(d) : /\ m.kind = "gone" /\ m.window \in DOMAIN windows
                           /\ m.window = mPresentation /\ m.window.display = d
    BY DEF NoOrphanWindow
  <1>10. told \in Seq(Message)
    BY <1>7, <1>8
  <1> HIDE DEF Gone, On
  <1>11. uiQueue' \in Seq(Message) /\ Pending(uiQueue') = Pending(uiQueue) \cup All(d)
    BY <1>8, <1>10, PendingAdded DEF ShownType
  <1>12. SystemType' /\ SystemInStep'
    BY <1>1, <1>2, <1>3, SMTT(30) DEF SystemType, SystemInStep, Display
  <1>13. ShownType'
    BY <1>2, <1>11 DEF ShownType
  <1>14. ShownInStep'
    BY <1>2, <1>3, <1>9, <1>11 DEF ShownInStep
  <1>15. NoOrphanWindow' /\ HiddenOnceRemoved'
    BY <1>2 DEF RouteInv, NoOrphanWindow, HiddenOnceRemoved
  <1>16. WindowsInStep'
    BY <1>1, <1>2, <1>3, <1>9, <1>11 DEF WindowsInStep
  <1>17. RouteInStep' /\ PictureInStep'
    BY <1>2, <1>3, <1>11 DEF RouteInStep, PictureInStep
  <1>18. FollowsRoute'
    BY <1>1, <1>2, <1>3 DEF FollowsRoute
  <1> QED BY <1>12, <1>13, <1>14, <1>15, <1>16, <1>17, <1>18 DEF RouteInv, TypeOK

------------------------------------------------------------------------------
(* A handler that ends in updatePresentation for the route as it then is.  *)
LEMMA UpdateRestores ==
    ASSUME RouteInv, SystemType', SystemInStep', UNCHANGED <<system, published>>, registered' = TRUE,
           NEW selectedDisplay \in 0..plugged, NEW bitmap \in 0..MaxEvents,
           NEW queue \in Seq(Message), Pending(queue) \subseteq Pending(uiQueue),
           updatePresentation(selectedDisplay, bitmap, queue),
           route' = selectedDisplay, mBitmap' = bitmap,
           [kind |-> "progress"] \in Pending(uiQueue) => [kind |-> "progress"] \in Pending(queue),
           \/ selectedDisplay \in displays
           \/ selectedDisplay = 0 /\ displays = {}
           \/ [kind |-> "displays"] \in Pending(queue)
    PROVE  RouteInv'
  <1>0. UNCHANGED <<displays, plugged>>
    BY DEF system
  <1>1. /\ ShownType' /\ ShownInStep' /\ NoOrphanWindow' /\ WindowsInStep'
        /\ Pending(queue) \subseteq Pending(uiQueue')
        /\ \/ mPresentation'.display = selectedDisplay
           \/ selectedDisplay # 0 /\ selectedDisplay \notin displays
        /\ \/ \A w \in DOMAIN windows' : windows'[w] = bitmap
           \/ windows' = windows
    BY UpdateKeeps
  <1>2. RouteInStep'
    BY <1>0, <1>1 DEF RouteInStep
  <1>3. FollowsRoute'
    BY <1>0, <1>1 DEF FollowsRoute
  <1>4. PictureInStep'
    <2>1. bitmap >= published
      BY DEF SystemType
    <2> QED BY <1>1, <2>1 DEF RouteInv, PictureInStep
  <1>5. HiddenOnceRemoved'
    BY DEF HiddenOnceRemoved
  <1> QED BY <1>1, <1>2, <1>3, <1>4, <1>5 DEF RouteInv, TypeOK

LEMMA DisplayChangedKeeps == ASSUME RouteInv, onRoutePresentationDisplayChanged PROVE RouteInv'
  <1> USE RouteFacts, Kinds
  <1>1. PICK d \in Chosen : route' = d
    BY DEF onRoutePresentationDisplayChanged
  <1>2. UNCHANGED <<activity, visible, registered, mBitmap, displays, plugged, published, events>>
    BY DEF onRoutePresentationDisplayChanged, system, counts
  <1>3. /\ SystemInStep /\ ShownInStep /\ WindowsInStep /\ RouteInStep /\ FollowsRoute
        /\ PictureInStep /\ HiddenOnceRemoved
    BY DEF RouteInv
  <1>4. PICK queue : queue = Tail(uiQueue)
    OBVIOUS
  <1>5. /\ queue \in Seq(Message) /\ Pending(queue) \subseteq Pending(uiQueue)
        /\ [kind |-> "progress"] \in Pending(uiQueue) => [kind |-> "progress"] \in Pending(queue)
    BY <1>4, Delivered DEF onRoutePresentationDisplayChanged
  <1>6. d \in displays \/ (d = 0 /\ displays = {})
    BY DEF Chosen
  <1>7. d \in 0..plugged /\ d \in Display \cup {0}
    <2>1. displays \subseteq 1..plugged /\ displays \subseteq Display
      BY <1>3 DEF SystemInStep, SystemType
    <2>2. plugged \in Nat
      BY DEF SystemType
    <2>3. 0 \in 0..plugged /\ 1..plugged \subseteq 0..plugged
      BY <2>2
    <2> QED BY <1>6, <2>1, <2>3, Zenon
  <1>8. SystemType' /\ SystemInStep'
    BY <1>1, <1>2, <1>3, <1>7 DEF SystemType, SystemInStep
  <1>9. CASE registered /\ route' # route /\ updatePresentation(route', mBitmap, Tail(uiQueue))
    <2>1. PICK bitmap : bitmap = mBitmap
      OBVIOUS
    <2>2. updatePresentation(d, bitmap, queue)
      BY <1>1, <1>4, <1>9, <2>1
    <2>3. bitmap \in 0..MaxEvents /\ mBitmap' = bitmap
      BY <1>2, <2>1 DEF SystemType
    <2>4. UNCHANGED <<system, published>> /\ registered' = TRUE
      BY <1>2, <1>9 DEF system, SystemType
    <2> QED BY <1>1, <1>5, <1>6, <1>7, <1>8, <2>2, <2>3, <2>4, UpdateRestores
  <1>10. CASE (~registered \/ route' = route) /\ uiQueue' = Tail(uiQueue) /\ UNCHANGED shown
    <2>1. uiQueue' = queue /\ UNCHANGED <<mPresentation, windows, created>>
      BY <1>4, <1>10 DEF shown
    <2>2. ShownType'
      BY <1>5, <2>1 DEF ShownType
    <2>3. ShownInStep' /\ WindowsInStep'
      BY <1>2, <1>3, <1>5, <2>1 DEF ShownInStep, WindowsInStep
    <2>4. NoOrphanWindow' /\ HiddenOnceRemoved'
      BY <1>2, <1>3, <2>1 DEF NoOrphanWindow, HiddenOnceRemoved
    <2>5. RouteInStep'
      BY <1>1, <1>2, <1>6 DEF RouteInStep
    <2>6. FollowsRoute'
      BY <1>2, <1>3, <1>10, <2>1 DEF FollowsRoute
    <2>7. PictureInStep'
      BY <1>2, <1>3, <1>5, <2>1 DEF PictureInStep
    <2> QED BY <1>8, <2>2, <2>3, <2>4, <2>5, <2>6, <2>7 DEF RouteInv, TypeOK
  <1> QED BY <1>9, <1>10 DEF onRoutePresentationDisplayChanged

LEMMA RouteSelectedKeeps == ASSUME RouteInv, onRouteSelected PROVE RouteInv'
  <1> USE RouteFacts, Kinds
  <1>1. PICK d \in 1..plugged :
          /\ route' = d
          /\ d \in displays \/ [kind |-> "displays"] \in Pending(uiQueue)
    <2>1. displays \subseteq 1..plugged /\ uiQueue \in Seq(Message)
      BY DEF RouteInv, SystemInStep, ShownType
    <2>2. Contains(uiQueue, [kind |-> "displays"])
            => [kind |-> "displays"] \in Pending(uiQueue)
      BY <2>1 DEF Contains, Pending
    <2> QED BY <2>1, <2>2 DEF onRouteSelected, Offered
  <1>2. /\ events < MaxEvents /\ events' = events + 1
        /\ UNCHANGED <<activity, visible, registered, mBitmap, displays, plugged, published>>
    BY DEF onRouteSelected, Happens, system
  <1>3. /\ SystemInStep /\ ShownInStep /\ WindowsInStep /\ FollowsRoute
        /\ PictureInStep /\ HiddenOnceRemoved
    BY DEF RouteInv
  <1>4. d \in 0..plugged /\ d \in Display \cup {0}
    BY <1>1, <1>3, Bound DEF SystemInStep, SystemType, Display
  <1>5. SystemType' /\ SystemInStep'
    BY <1>1, <1>2, <1>3, <1>4 DEF SystemType, SystemInStep
  <1>6. CASE registered /\ updatePresentation(route', mBitmap, uiQueue)
    <2>1. PICK bitmap, queue : bitmap = mBitmap /\ queue = uiQueue
      OBVIOUS
    <2>2. updatePresentation(d, bitmap, queue)
      BY <1>1, <1>6, <2>1
    <2>3. bitmap \in 0..MaxEvents /\ mBitmap' = bitmap /\ queue \in Seq(Message)
      BY <1>2, <2>1 DEF SystemType, ShownType
    <2>4. UNCHANGED <<system, published>> /\ registered' = TRUE
      BY <1>2, <1>6 DEF system, SystemType
    <2> QED BY <1>1, <1>4, <1>5, <2>1, <2>2, <2>3, <2>4, UpdateRestores
  <1>7. CASE ~registered /\ UNCHANGED <<uiQueue, shown>>
    <2>1. UNCHANGED <<uiQueue, mPresentation, windows, created>>
      BY <1>7 DEF shown
    <2>2. ShownType' /\ NoOrphanWindow'
      BY <2>1 DEF ShownType, NoOrphanWindow
    <2>3. ShownInStep' /\ WindowsInStep' /\ PictureInStep'
      BY <1>2, <1>3, <2>1 DEF ShownInStep, WindowsInStep, PictureInStep
    <2>4. RouteInStep' /\ FollowsRoute' /\ HiddenOnceRemoved'
      BY <1>1, <1>2, <1>3, <1>7, <2>1 DEF RouteInStep, FollowsRoute, HiddenOnceRemoved
    <2> QED BY <1>5, <2>2, <2>3, <2>4 DEF RouteInv, TypeOK
  <1> QED BY <1>6, <1>7 DEF onRouteSelected

LEMMA AcqMethodKeeps == ASSUME RouteInv, setAcqMethod PROVE RouteInv'
  <1> USE RouteFacts, Kinds
  <1>1. /\ visible = "resumed" /\ events < MaxEvents /\ events' = events + 1
        /\ mBitmap' = mBitmap + 1 /\ updatePresentation(route, mBitmap', uiQueue)
        /\ UNCHANGED <<activity, visible, registered, route, displays, plugged, published>>
    BY DEF setAcqMethod, Happens, system
  <1>2. SystemInStep /\ RouteInStep /\ FollowsRoute
    BY DEF RouteInv
  <1>3. mBitmap + 1 \in 0..MaxEvents
    BY <1>1, <1>2 DEF SystemInStep, SystemType
  <1>4. SystemType' /\ SystemInStep'
    BY <1>1, <1>2, <1>3 DEF SystemType, SystemInStep
  <1>5. PICK d, bitmap, queue : d = route /\ bitmap = mBitmap' /\ queue = uiQueue
    OBVIOUS
  <1>6. updatePresentation(d, bitmap, queue)
    BY <1>1, <1>5
  <1>7. d \in 0..plugged /\ bitmap \in 0..MaxEvents /\ queue \in Seq(Message)
    BY <1>1, <1>2, <1>3, <1>5 DEF SystemInStep, SystemType, ShownType, Display
  <1>8. UNCHANGED <<system, published>> /\ registered' = TRUE
    BY <1>1, <1>2 DEF system, SystemType, FollowsRoute
  <1>9. \/ d \in displays \/ (d = 0 /\ displays = {})
        \/ [kind |-> "displays"] \in Pending(queue)
    BY <1>2, <1>5 DEF RouteInStep
  <1> QED BY <1>1, <1>4, <1>5, <1>6, <1>7, <1>8, <1>9, UpdateRestores

LEMMA ResumeKeeps == ASSUME RouteInv, onResume PROVE RouteInv'
  <1> USE RouteFacts, Kinds
  <1>1. /\ visible' = "resumed" /\ registered' = TRUE
        /\ updatePresentation(route, mBitmap, uiQueue)
        /\ UNCHANGED <<activity, mBitmap, route, displays, plugged, published, events>>
    BY DEF onResume, system, counts
  <1>2. SystemInStep /\ RouteInStep
    BY DEF RouteInv
  <1>4. SystemType' /\ SystemInStep'
    BY <1>1, <1>2 DEF SystemType, SystemInStep
  <1>5. PICK d, bitmap, queue : d = route /\ bitmap = mBitmap /\ queue = uiQueue
    OBVIOUS
  <1>6. updatePresentation(d, bitmap, queue)
    BY <1>1, <1>5
  <1>7. d \in 0..plugged /\ bitmap \in 0..MaxEvents /\ queue \in Seq(Message)
    BY <1>2, <1>5 DEF SystemInStep, SystemType, ShownType, Display
  <1>8. UNCHANGED <<system, published>>
    BY <1>1 DEF system
  <1>9. \/ d \in displays \/ (d = 0 /\ displays = {})
        \/ [kind |-> "displays"] \in Pending(queue)
    BY <1>2, <1>5 DEF RouteInStep
  <1> QED BY <1>1, <1>4, <1>5, <1>6, <1>7, <1>8, <1>9, UpdateRestores

------------------------------------------------------------------------------
(* The other messages and the rest of the activity's life.                 *)
LEMMA RemovedKeeps == ASSUME RouteInv, onDisplayRemoved PROVE RouteInv'
  <1> USE RouteFacts, Kinds
  <1>1. PICK w, queue : w = Head(uiQueue).window /\ queue = Tail(uiQueue)
    OBVIOUS
  <1>2. /\ Received("gone") /\ windows' = Without(w) /\ uiQueue' = queue \o Dismissed(w)
        /\ UNCHANGED <<activity, visible, registered, mPresentation, created, mBitmap, route,
                       displays, plugged, published, events>>
    BY <1>1 DEF onDisplayRemoved, system, counts
  <1>3. /\ SystemInStep /\ ShownInStep /\ WindowsInStep /\ RouteInStep /\ FollowsRoute
        /\ PictureInStep /\ HiddenOnceRemoved
    BY DEF RouteInv
  <1>4. /\ queue \in Seq(Message) /\ Pending(queue) \subseteq Pending(uiQueue)
        /\ \A m \in Pending(uiQueue) : m.kind # "gone" => m \in Pending(queue)
        /\ Head(uiQueue) \in Pending(uiQueue) /\ Head(uiQueue).kind = "gone"
    BY <1>1, <1>2, Delivered
  <1>5. /\ w \in Window /\ w.id <= created /\ w.display <= plugged /\ w.display \notin displays
    BY <1>1, <1>3, <1>4 DEF ShownInStep, WindowsInStep
  <1>6. DOMAIN windows' = DOMAIN windows \ {w} /\ \A v \in DOMAIN windows' : windows'[v] = windows[v]
    BY <1>2 DEF Without
  <1> DEFINE message == [kind |-> "dismissed", window |-> w]
  <1>7. message \in Message /\ message.kind = "dismissed" /\ message.window = w
    BY <1>5 DEF Message
  <1>8. /\ uiQueue' \in Seq(Message) /\ Pending(queue) \subseteq Pending(uiQueue')
        /\ \A m \in Pending(uiQueue') : m \in Pending(uiQueue) \/ m = message
    <2> HIDE DEF message
    <2>1. CASE w \in DOMAIN windows
      <3>1. uiQueue' = queue \o <<message>>
        BY <1>2, <2>1 DEF Dismissed, message
      <3>2. /\ queue \o <<message>> \in Seq(Message)
            /\ Pending(queue \o <<message>>) = Pending(queue) \cup {message}
        BY <1>4, <1>7, PostedOne
      <3> QED BY <1>4, <3>1, <3>2
    <2>2. CASE w \notin DOMAIN windows
      <3>1. uiQueue' = queue
        BY <1>2, <1>4, <2>2 DEF Dismissed
      <3> QED BY <1>4, <3>1
    <2> QED BY <2>1, <2>2
  <1> HIDE DEF message
  <1>9. SystemType' /\ SystemInStep'
    BY <1>2, <1>3 DEF SystemType, SystemInStep
  <1>10. ShownType' /\ NoOrphanWindow'
    BY <1>2, <1>6, <1>8 DEF ShownType, NoOrphanWindow
  <1>11. ShownInStep'
    BY <1>2, <1>3, <1>5, <1>7, <1>8 DEF ShownInStep
  <1>12. WindowsInStep'
    <2>1. ASSUME NEW m \in Pending(uiQueue')
          PROVE  /\ m.kind = "dismissed" => m.window \notin DOMAIN windows'
                 /\ m.kind = "gone" => m.window.display \notin displays'
      BY <1>2, <1>3, <1>6, <1>7, <1>8 DEF WindowsInStep
    <2>2. mPresentation' # None /\ mPresentation' \notin DOMAIN windows'
            => mPresentation'.display \notin displays'
      BY <1>2, <1>3, <1>5, <1>6 DEF WindowsInStep
    <2> QED BY <2>1, <2>2 DEF WindowsInStep
  <1>13. RouteInStep' /\ FollowsRoute'
    BY <1>2, <1>3, <1>4, <1>8 DEF RouteInStep, FollowsRoute
  <1>14. PictureInStep' /\ HiddenOnceRemoved'
    BY <1>2, <1>3, <1>4, <1>6, <1>8 DEF PictureInStep, HiddenOnceRemoved
  <1> QED BY <1>9, <1>10, <1>11, <1>12, <1>13, <1>14 DEF RouteInv, TypeOK

LEMMA DismissKeeps == ASSUME RouteInv, onDismiss PROVE RouteInv'
  <1> USE RouteFacts, Kinds
  <1>1. PICK w, queue : w = Head(uiQueue).window /\ queue = Tail(uiQueue)
    OBVIOUS
  <1>2. /\ Received("dismissed") /\ uiQueue' = queue
        /\ mPresentation' = (IF w = mPresentation THEN None ELSE mPresentation)
        /\ UNCHANGED <<activity, visible, registered, windows, created, mBitmap, route,
                       displays, plugged, published, events>>
    BY <1>1 DEF onDismiss, system, counts
  <1>3. /\ SystemInStep /\ ShownInStep /\ WindowsInStep /\ RouteInStep /\ FollowsRoute
        /\ PictureInStep /\ HiddenOnceRemoved
    BY DEF RouteInv
  <1>4. /\ queue \in Seq(Message) /\ Pending(queue) \subseteq Pending(uiQueue)
        /\ \A m \in Pending(uiQueue) : m.kind # "dismissed" => m \in Pending(queue)
        /\ Head(uiQueue) \in Pending(uiQueue) /\ Head(uiQueue).kind = "dismissed"
    BY <1>1, <1>2, Delivered
  <1>5. w \in Window /\ w \notin DOMAIN windows
    BY <1>1, <1>3, <1>4 DEF WindowsInStep
  <1>6. SystemType' /\ SystemInStep'
    BY <1>2, <1>3 DEF SystemType, SystemInStep
  <1>7. ShownType' /\ NoOrphanWindow'
    BY <1>2, <1>4, <1>5 DEF ShownType, NoOrphanWindow
  <1>8. ShownInStep' /\ WindowsInStep'
    BY <1>2, <1>3, <1>4 DEF ShownInStep, WindowsInStep
  <1>9. FollowsRoute'
    <2>1. CASE w = mPresentation
      <3>1. mPresentation.display \notin displays /\ mPresentation.display # 0
        BY <1>3, <1>5, <2>1 DEF WindowsInStep
      <3> QED BY <1>2, <1>3, <3>1 DEF FollowsRoute
    <2>2. CASE w # mPresentation
      BY <1>2, <1>3, <2>2 DEF FollowsRoute
    <2> QED BY <2>1, <2>2
  <1>10. RouteInStep' /\ PictureInStep' /\ HiddenOnceRemoved'
    BY <1>2, <1>3, <1>4 DEF RouteInStep, PictureInStep, HiddenOnceRemoved
  <1> QED BY <1>6, <1>7, <1>8, <1>9, <1>10 DEF RouteInv, TypeOK

LEMMA NextColorKeeps == ASSUME RouteInv, showNextColor PROVE RouteInv'
  <1> USE RouteFacts, Kinds
  <1>1. PICK queue : queue = Tail(uiQueue)
    OBVIOUS
  <1>2. /\ Received("progress") /\ uiQueue' = queue
        /\ windows' = [w \in DOMAIN windows |-> IF w = mPresentation THEN mBitmap ELSE windows[w]]
        /\ UNCHANGED <<activity, visible, registered, mPresentation, created, mBitmap, route,
                       displays, plugged, published, events>>
    BY <1>1 DEF showNextColor, system, counts
  <1>3. /\ SystemInStep /\ ShownInStep /\ WindowsInStep /\ RouteInStep /\ FollowsRoute
        /\ PictureInStep /\ HiddenOnceRemoved
    BY DEF RouteInv
  <1>4. /\ queue \in Seq(Message) /\ Pending(queue) \subseteq Pending(uiQueue)
        /\ \A m \in Pending(uiQueue) : m.kind # "progress" => m \in Pending(queue)
    BY <1>1, <1>2, Delivered
  <1>5. DOMAIN windows' = DOMAIN windows /\ \A w \in DOMAIN windows' : windows'[w] = mBitmap
    BY <1>2 DEF NoOrphanWindow
  <1>6. SystemType' /\ SystemInStep'
    BY <1>2, <1>3 DEF SystemType, SystemInStep
  <1>7. ShownType' /\ NoOrphanWindow'
    BY <1>2, <1>4, <1>5 DEF ShownType, NoOrphanWindow, SystemType
  <1>8. ShownInStep' /\ WindowsInStep'
    BY <1>2, <1>3, <1>4, <1>5 DEF ShownInStep, WindowsInStep
  <1>9. RouteInStep' /\ FollowsRoute' /\ HiddenOnceRemoved'
    BY <1>2, <1>3, <1>4, <1>5 DEF RouteInStep, FollowsRoute, HiddenOnceRemoved
  <1>10. PictureInStep'
    BY <1>2, <1>5 DEF PictureInStep
  <1> QED BY <1>6, <1>7, <1>8, <1>9, <1>10 DEF RouteInv, TypeOK

LEMMA PublishKeeps == ASSUME RouteInv, publishProgress PROVE RouteInv'
  <1> USE RouteFacts, Kinds
  <1>1. /\ events < MaxEvents /\ events' = events + 1
        /\ mBitmap' = mBitmap + 1 /\ published' = mBitmap + 1
        /\ uiQueue' = uiQueue \o <<[kind |-> "progress"]>>
        /\ UNCHANGED <<activity, visible, registered, route, displays, plugged, mPresentation,
                       windows, created>>
    BY DEF publishProgress, Happens, Post, system, shown
  <1>2. uiQueue' \in Seq(Message) /\ Pending(uiQueue') = Pending(uiQueue) \cup {[kind |-> "progress"]}
    BY <1>1, PostedOne DEF ShownType
  <1>3. /\ SystemInStep /\ ShownInStep /\ WindowsInStep /\ RouteInStep /\ FollowsRoute
        /\ HiddenOnceRemoved
    BY DEF RouteInv
  <1>4. SystemType' /\ SystemInStep'
    BY <1>1, <1>3, SMTT(30) DEF SystemType, SystemInStep
  <1>5. ShownType' /\ NoOrphanWindow'
    BY <1>1, <1>2 DEF ShownType, NoOrphanWindow
  <1>6. ShownInStep' /\ WindowsInStep'
    BY <1>1, <1>2, <1>3 DEF ShownInStep, WindowsInStep
  <1>7. RouteInStep' /\ FollowsRoute' /\ HiddenOnceRemoved' /\ PictureInStep'
    BY <1>1, <1>2, <1>3 DEF RouteInStep, FollowsRoute, HiddenOnceRemoved, PictureInStep
  <1> QED BY <1>4, <1>5, <1>6, <1>7 DEF RouteInv, TypeOK

LEMMA PauseKeeps == ASSUME RouteInv, onPause PROVE RouteInv'
  <1> USE RouteFacts
  <1>1. /\ visible' = "paused" /\ registered' = (activity = "Acquire")
        /\ events < MaxEvents /\ events' = events + 1
        /\ UNCHANGED <<activity, mBitmap, route, displays, plugged, mPresentation, windows, created,
                       uiQueue, published>>
    BY DEF onPause, Happens, system, shown
  <1>2. SystemInStep /\ ShownInStep /\ WindowsInStep /\ RouteInStep /\ PictureInStep
    BY DEF RouteInv
  <1>3. registered' \in BOOLEAN
    BY <1>1, Zenon
  <1>4. SystemType' /\ SystemInStep'
    BY <1>1, <1>2, <1>3 DEF SystemType, SystemInStep
  <1>5. ShownType' /\ NoOrphanWindow' /\ ShownInStep' /\ WindowsInStep'
    BY <1>1, <1>2 DEF ShownType, NoOrphanWindow, ShownInStep, WindowsInStep
  <1>6. RouteInStep' /\ FollowsRoute' /\ HiddenOnceRemoved' /\ PictureInStep'
    BY <1>1, <1>2 DEF RouteInStep, FollowsRoute, HiddenOnceRemoved, PictureInStep
  <1> QED BY <1>4, <1>5, <1>6 DEF RouteInv, TypeOK

LEMMA StopKeeps == ASSUME RouteInv, onStop PROVE RouteInv'
  <1> USE RouteFacts, Kinds
  <1>1. /\ visible' = "stopped" /\ uiQueue' = uiQueue \o Dismissed(mPresentation)
        /\ windows' = Without(mPresentation) /\ mPresentation' = None
        /\ UNCHANGED <<activity, registered, created, mBitmap, route, displays, plugged, published,
                       events>>
    BY DEF onStop, Post, system, counts
  <1>2. SystemInStep /\ ShownInStep /\ WindowsInStep /\ RouteInStep
    BY DEF RouteInv
  <1>3. DOMAIN windows' = {}
    BY <1>1 DEF Without, NoOrphanWindow
  <1>4. PICK queue : queue = uiQueue
    OBVIOUS
  <1>5. /\ uiQueue' \in Seq(Message) /\ Pending(uiQueue) \subseteq Pending(uiQueue')
        /\ \A m \in Pending(uiQueue') :
             \/ m \in Pending(uiQueue)
             \/ m = [kind |-> "dismissed", window |-> mPresentation] /\ mPresentation \in Window
    <2>1. queue \in Seq(Message) /\ Pending(queue) \subseteq Pending(uiQueue)
      BY <1>4 DEF ShownType
    <2> QED BY <1>1, <1>4, <2>1, DismissedPosts
  <1>6. ASSUME NEW m \in Pending(uiQueue'), m.kind \in {"gone", "dismissed"}
        PROVE  /\ m.window.id <= created /\ m.window.display <= plugged
               /\ m.kind = "gone" => m.window.display \notin displays
    <2>1. CASE m \in Pending(uiQueue)
      BY <1>2, <1>6, <2>1 DEF ShownInStep, WindowsInStep
    <2>2. CASE m = [kind |-> "dismissed", window |-> mPresentation] /\ mPresentation \in Window
      <3>1. m.kind = "dismissed" /\ m.window = mPresentation
        BY <2>2
      <3> QED BY <1>2, <3>1 DEF ShownInStep
    <2> QED BY <1>5, <2>1, <2>2
  <1>7. SystemType' /\ SystemInStep'
    BY <1>1, <1>2 DEF SystemType, SystemInStep
  <1>8. ShownType' /\ NoOrphanWindow'
    BY <1>1, <1>3, <1>5 DEF ShownType, NoOrphanWindow
  <1>9. ShownInStep' /\ WindowsInStep'
    BY <1>1, <1>3, <1>6 DEF ShownInStep, WindowsInStep
  <1>10. RouteInStep' /\ FollowsRoute' /\ HiddenOnceRemoved' /\ PictureInStep'
    BY <1>1, <1>2, <1>3, <1>5 DEF RouteInStep, FollowsRoute, HiddenOnceRemoved, PictureInStep
  <1> QED BY <1>7, <1>8, <1>9, <1>10 DEF RouteInv, TypeOK

------------------------------------------------------------------------------
LEMMA InitiallyRoute == ASSUME Init PROVE RouteInv
  <1>1. /\ visible = "paused" /\ registered = FALSE /\ mPresentation = None /\ mBitmap = 0
        /\ plugged \in {0, 1} /\ displays = 1..plugged /\ route = plugged /\ created = 0
        /\ uiQueue = <<>> /\ published = 0 /\ events = 0 /\ activity \in Activities
    BY DEF Init
  <1>2. DOMAIN windows = {}
    BY DEF Init
  <1>3. Pending(uiQueue) = {}
    BY <1>1, PendingEmpty
  <1>4. SystemType /\ SystemInStep
    <2>1. displays \subseteq Display /\ route \in Display \cup {0}
      BY <1>1, Bound DEF Display
    <2>2. plugged \in 0..(MaxEvents + 1) /\ published \in 0..mBitmap /\ events \in 0..MaxEvents
      BY <1>1, Bound
    <2>3. SystemType
      BY <1>1, <2>1, <2>2 DEF SystemType
    <2> QED BY <1>1, <2>3 DEF SystemInStep
  <1>5. ShownType
    BY <1>1, <1>2 DEF ShownType
  <1>6. ShownInStep /\ WindowsInStep
    BY <1>1, <1>3 DEF ShownInStep, WindowsInStep, None
  <1>7. RouteInStep
    <2>1. plugged = 1 => 1 \in displays
      BY <1>1
    <2>2. plugged = 0 => displays = {}
      BY <1>1
    <2> QED BY <1>1, <2>1, <2>2 DEF RouteInStep
  <1>8. NoOrphanWindow /\ FollowsRoute /\ PictureInStep /\ HiddenOnceRemoved
    BY <1>1, <1>2 DEF NoOrphanWindow, FollowsRoute, PictureInStep, HiddenOnceRemoved
  <1> QED BY <1>4, <1>5, <1>6, <1>7, <1>8 DEF RouteInv, TypeOK

LEMMA RouteInvariant == Spec => []RouteInv
  <1>1. Init => RouteInv
    BY InitiallyRoute
  <1>2. RouteInv /\ [Next]_vars => RouteInv'
    <2> SUFFICES ASSUME RouteInv, [Next]_vars PROVE RouteInv'
      OBVIOUS
    <2>1. CASE Next
      BY <2>1, PlugInKeeps, UnplugKeeps, DisplayChangedKeeps, RemovedKeeps, DismissKeeps,
         NextColorKeeps, RouteSelectedKeeps, PublishKeeps, AcqMethodKeeps, ResumeKeeps,
         PauseKeeps, StopKeeps DEF Next, Messages
    <2>2. CASE UNCHANGED vars
      BY <2>2 DEF vars, system, shown, counts, RouteInv, TypeOK, SystemType, ShownType,
         SystemInStep, ShownInStep, NoOrphanWindow, WindowsInStep, RouteInStep, FollowsRoute,
         PictureInStep, HiddenOnceRemoved
    <2> QED BY <2>1, <2>2
  <1>3. QED BY <1>1, <1>2, PTL DEF Spec

------------------------------------------------------------------------------
(* Every field and every message of the UI thread keeps its type, however  *)
(* many displays, patterns and visits there are; no dismiss message is     *)
(* posted for a Presentation that is null.                                 *)
THEOREM RouteTypeCorrect == Spec => []TypeOK
  <1>1. RouteInv => TypeOK
    BY DEF RouteInv
  <1> QED BY <1>1, RouteInvariant, PTL

(* No window is left on a display without mPresentation referring to it:   *)
(* mOnDismissListener clears mPresentation only for a window that is away, *)
(* since the dialogs it hears of late are never shown again.               *)
THEOREM NoWindowLeftBehind == Spec => []NoOrphanWindow
  <1>1. RouteInv => NoOrphanWindow
    BY DEF RouteInv
  <1> QED BY <1>1, RouteInvariant, PTL

(* Once its messages are delivered, a resumed activity has its window on   *)
(* the display of the selected route, with a picture as new as the last    *)
(* one published: show() fails only for a display whose removal the router *)
(* has yet to hear of, and then calls updatePresentation again.            *)
THEOREM SettlesOnTheRoute == Spec => []SettledOnTheRoute
  <1>1. RouteInv => SettledOnTheRoute
    <2> SUFFICES ASSUME RouteInv, visible = "resumed", uiQueue = <<>>
                 PROVE  /\ mPresentation.display = route
                        /\ route # 0 => /\ mPresentation \in DOMAIN windows
                                        /\ windows[mPresentation] >= published
                        /\ route = 0 <=> displays = {}
      BY DEF SettledOnTheRoute
    <2>1. Pending(uiQueue) = {}
      BY PendingEmpty
    <2>2. /\ route \in displays \/ (route = 0 /\ displays = {})
          /\ \A w \in DOMAIN windows : windows[w] >= published
      BY <2>1 DEF RouteInv, RouteInStep, PictureInStep
    <2>3. 0 \notin displays
      BY RouteFacts
    <2>4. mPresentation.display = route
      BY <2>2 DEF RouteInv, FollowsRoute
    <2>5. route # 0 => mPresentation \in DOMAIN windows
      BY <2>2, <2>4, RouteFacts DEF RouteInv, WindowsInStep
    <2> QED BY <2>2, <2>3, <2>4, <2>5
  <1> QED BY <1>1, RouteInvariant, PTL

(* A stopped activity that has removed its router callback shows nothing:  *)
(* onStop dismisses the one window, and nothing is left that calls         *)
(* updatePresentation.                                                     *)
THEOREM StaysHidden == Spec => []HiddenOnceRemoved
  <1>1. RouteInv => HiddenOnceRemoved
    BY DEF RouteInv
  <1> QED BY <1>1, RouteInvariant, PTL

=============================================================================
