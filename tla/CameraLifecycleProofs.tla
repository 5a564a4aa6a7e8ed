------------------------ MODULE CameraLifecycleProofs ------------------------
(***************************************************************************)
(* What holds of CameraLifecycle for every set of devices and every number *)
(* of lost ones: its types, the accounting of the permits of               *)
(* mCameraOpenCloseLock, the mutual exclusion it gives, and that onPause   *)
(* releases the camera.                                                    *)
(***************************************************************************)
EXTENDS CameraLifecycle, FiniteSetTheorems, TLAPS

(* The death of the process leaves well-typed state.                       *)
LEMMA DeathTyped == ProcessDies => TypeOK'
  <1> SUFFICES ASSUME ProcessDies PROVE TypeOK'
    OBVIOUS
  <1>1. inbox' \in [Thread -> Seq(Message)]
    BY DEF ProcessDies
  <1>2. pc' \in [Thread -> HandlerPC \cup LifecyclePC] /\ \A t \in Thread : pc'[t] = "idle"
    BY DEF ProcessDies, HandlerPC
  <1>3. pc'["bg"] \in HandlerPC
    BY <1>2 DEF Thread, HandlerPC
  <1>4. /\ arg' \in [Thread -> OptDev]
        /\ hw' \in [Dev -> {"free", "opening", "open", "lost", "closed"}]
        /\ looper' \in [Dev -> {"ui", "bg", "dead"}]
    BY DEF ProcessDies, OptDev
  <1> QED BY <1>1, <1>2, <1>3, <1>4 DEF ProcessDies, TypeOK, OptDev

(* What Take does to the inboxes, and the type of the message it takes.    *)
LEMMA TakeTyped ==
    ASSUME TypeOK, NEW t \in Thread, NEW cb, Take(t, cb)
    PROVE  /\ Head(inbox[t]) \in Message
           /\ Head(inbox[t]).dev \in Dev
           /\ inbox' \in [Thread -> Seq(Message)]
  <1>1. inbox[t] \in Seq(Message) /\ inbox[t] # <<>>
    BY DEF TypeOK, Take
  <1>2. Head(inbox[t]) \in Message /\ Tail(inbox[t]) \in Seq(Message)
    BY <1>1
  <1>3. Head(inbox[t]).dev \in Dev
    BY <1>2 DEF Message
  <1>4. inbox' \in [Thread -> Seq(Message)]
    BY <1>2 DEF TypeOK, Take
  <1> QED BY <1>2, <1>3, <1>4

(* What Post does to the inboxes.                                          *)
LEMMA PostTyped ==
    ASSUME TypeOK, NEW l \in {"ui", "bg", "dead"}, NEW m \in Message, Post(l, m)
    PROVE  inbox' \in [Thread -> Seq(Message)]
  <1>1. CASE l = "dead" \/ (l = "bg" /\ bg # "running")
    BY <1>1 DEF TypeOK, Post
  <1>2. CASE ~(l = "dead" \/ (l = "bg" /\ bg # "running"))
    <2>1. l \in Thread /\ inbox' = [inbox EXCEPT ![l] = Append(@, m)]
      BY <1>2 DEF Post, Thread
    <2>2. Append(inbox[l], m) \in Seq(Message)
      BY <2>1 DEF TypeOK
    <2> QED BY <2>1, <2>2 DEF TypeOK
  <1> QED BY <1>1, <1>2

(* The part of TypeOK that speaks of the threads' places.                  *)
PlacesTyped ==
    /\ pc \in [Thread -> HandlerPC \cup LifecyclePC]
    /\ pc["bg"] \in HandlerPC
    /\ arg \in [Thread -> OptDev]
    /\ \A t \in Thread : pc[t] \in HandlerPC \ {"idle"} => arg[t] \in Dev

(* A lifecycle method that moves on leaves the places typed.               *)
LEMMA UiMoved ==
    ASSUME TypeOK, NEW l \in LifecyclePC, pc' = [pc EXCEPT !["ui"] = l], arg' = arg
    PROVE  PlacesTyped'
  <1>1. l \notin HandlerPC
    BY DEF LifecyclePC, HandlerPC
  <1>2. pc \in [Thread -> HandlerPC \cup LifecyclePC] /\ "ui" \in Thread /\ "bg" \in Thread
    BY DEF TypeOK, Thread
  <1>3. pc' \in [Thread -> HandlerPC \cup LifecyclePC]
    BY <1>2
  <1>4. pc'["bg"] \in HandlerPC
    BY <1>2 DEF TypeOK
  <1>5. arg' \in [Thread -> OptDev]
    BY DEF TypeOK
  <1>6. ASSUME NEW t \in Thread, pc'[t] \in HandlerPC \ {"idle"} PROVE arg'[t] \in Dev
    <2>1. t # "ui" /\ pc'[t] = pc[t]
      BY <1>1, <1>2, <1>6
    <2> QED BY <1>6, <2>1 DEF TypeOK
  <1> QED BY <1>3, <1>4, <1>5, <1>6 DEF PlacesTyped

(* A step that leaves the places alone.                                    *)
LEMMA PlacesSame ==
    ASSUME TypeOK, UNCHANGED <<pc, arg>>
    PROVE  PlacesTyped'
  BY DEF TypeOK, PlacesTyped

(* Every step of the UI thread's lifecycle methods keeps the types.        *)
LEMMA LifecycleTyped == TypeOK /\ Lifecycle => TypeOK'
  <1> SUFFICES ASSUME TypeOK, Lifecycle PROVE TypeOK'
    OBVIOUS
  <1> USE LifecycleAssumption DEF TypeOK, Thread, OptDev, HandlerPC, LifecyclePC, Goto, history
  <1>o. ASSUME openCameraEntry \/ UNCHANGED <<pc, mImageReader>>, arg' = arg
        PROVE  PlacesTyped' /\ mImageReader' \in BOOLEAN
    <2>1. CASE UNCHANGED <<pc, mImageReader>>
      BY <1>o, <2>1, PlacesSame
    <2>2. CASE mImageReader' = TRUE /\ pc' = [pc EXCEPT !["ui"] = "tryAcquire"]
      BY <1>o, <2>2, UiMoved
    <2> QED BY <1>o, <2>1, <2>2 DEF openCameraEntry
  <1>1. CASE onResume
    <2>1. PlacesTyped' /\ mImageReader' \in BOOLEAN
      BY <1>1, <1>o DEF onResume
    <2>2. surface' \in {"gone", "awaited", "ready"}
      BY <1>1 DEF onResume
    <2> QED BY <1>1, <2>1, <2>2 DEF onResume, PlacesTyped
  <1>2. CASE onSurfaceTextureAvailable
    <2>1. PlacesTyped' /\ mImageReader' \in BOOLEAN
      BY <1>2, <1>o DEF onSurfaceTextureAvailable
    <2> QED BY <1>2, <2>1 DEF onSurfaceTextureAvailable, PlacesTyped
  <1>3. CASE onSurfaceTextureDestroyed
    BY <1>3 DEF onSurfaceTextureDestroyed
  <1>4. CASE openCamera
    BY <1>4 DEF openCamera
  <1>5. CASE openCameraAccessException
    BY <1>5 DEF openCameraAccessException
  <1>6. CASE openCameraTimeout
    BY <1>6, DeathTyped DEF openCameraTimeout
  <1>7. CASE onPause
    BY <1>7 DEF onPause
  <1> QED BY <1>1, <1>2, <1>3, <1>4, <1>5, <1>6, <1>7 DEF Lifecycle

(* Every step of closeCamera and stopBackgroundThread keeps the types.     *)
LEMMA CloseTyped == TypeOK /\ closeCamera => TypeOK'
  <1> SUFFICES ASSUME TypeOK, closeCamera PROVE TypeOK'
    OBVIOUS
  <1> USE LifecycleAssumption DEF TypeOK, Thread, OptDev, HandlerPC, LifecyclePC, Goto, history
  <1>1. CASE closeCameraAcquire
    BY <1>1 DEF closeCameraAcquire
  <1>2. CASE closeCameraSession
    BY <1>2 DEF closeCameraSession
  <1>3. CASE closeCameraDevice
    BY <1>3 DEF closeCameraDevice
  <1>4. CASE closeCameraDeviceUse
    <2>1. CASE ProcessDies
      BY <2>1, DeathTyped
    <2>2. CASE ~ProcessDies
      <3>1. PlacesTyped'
        BY <1>4, <2>2, UiMoved DEF closeCameraDeviceUse
      <3>2. hw' \in [Dev -> {"free", "opening", "open", "lost", "closed"}]
            /\ mCameraDevice' = NoDev
        BY <1>4, <2>2 DEF closeCameraDeviceUse
      <3> QED BY <1>4, <2>2, <3>1, <3>2 DEF closeCameraDeviceUse, PlacesTyped
    <2> QED BY <2>1, <2>2
  <1>5. CASE closeCameraReader
    <2>1. permits' \in Nat
      BY <1>5 DEF closeCameraReader
    <2>2. PlacesTyped'
      BY <1>5, UiMoved DEF closeCameraReader
    <2> QED BY <1>5, <2>1, <2>2 DEF closeCameraReader, PlacesTyped
  <1>6. CASE stopBackgroundThread
    BY <1>6 DEF stopBackgroundThread
  <1>7. CASE stopBackgroundThreadJoin
    BY <1>7 DEF stopBackgroundThreadJoin
  <1> QED BY <1>1, <1>2, <1>3, <1>4, <1>5, <1>6, <1>7 DEF closeCamera

(* Every step of a callback keeps the types.                               *)
LEMMA HandlerTyped == ASSUME TypeOK, NEW t \in Thread, Handler(t) PROVE TypeOK'
  <1> USE LifecycleAssumption DEF OptDev, HandlerPC, LifecyclePC, Goto, history
  <1>1. CASE onOpened(t)
    <2>1. Take(t, "onOpened") BY <1>1 DEF onOpened
    <2> DEFINE d == Head(inbox[t]).dev
    <2>2. d \in Dev /\ inbox' \in [Thread -> Seq(Message)] BY <2>1, TakeTyped
    <2> HIDE DEF d
    <2>3. /\ Release(d)
          /\ arg' = [arg EXCEPT ![t] = d]
          /\ pc' = [pc EXCEPT ![t] = "openedDevice"]
          /\ UNCHANGED <<granted, activity, surface, bg, mCameraDevice, mCaptureSession,
                         mImageReader, hw, looper, leaked, torn>>
      BY <1>1 DEF onOpened, d
    <2> QED BY <2>2, <2>3 DEF TypeOK, Thread, Release
  <1>2. CASE onOpenedDevice(t)
    BY <1>2 DEF onOpenedDevice, TypeOK, Thread
  <1>3. CASE createCameraPreviewSession(t)
    <2>1. CASE ProcessDies BY <2>1, DeathTyped
    <2>2. CASE ~ProcessDies
      <3>1. /\ mCameraDevice # NoDev
            /\ \/ Post(t, [cb |-> "onConfigured", dev |-> mCameraDevice])
               \/ UNCHANGED inbox
            /\ arg' = [arg EXCEPT ![t] = NoDev]
            /\ pc' = [pc EXCEPT ![t] = "idle"]
            /\ UNCHANGED <<granted, activity, surface, bg, permits, mCameraDevice,
                           mCaptureSession, mImageReader, hw, looper, history>>
        BY <1>3, <2>2 DEF createCameraPreviewSession
      <3>2. [cb |-> "onConfigured", dev |-> mCameraDevice] \in Message
        BY <3>1 DEF TypeOK, Message, Callback
      <3>3. inbox' \in [Thread -> Seq(Message)]
        BY <3>1, <3>2, PostTyped DEF TypeOK, Thread
      <3> QED BY <3>1, <3>3 DEF TypeOK, Thread
    <2> QED BY <2>1, <2>2
  <1>4. CASE onConfigured(t)
    <2>1. Take(t, "onConfigured") BY <1>4 DEF onConfigured
    <2> DEFINE d == Head(inbox[t]).dev
    <2>2. d \in Dev /\ inbox' \in [Thread -> Seq(Message)] BY <2>1, TakeTyped
    <2> HIDE DEF d
    <2>3. /\ \/ UNCHANGED <<pc, arg>>
             \/ pc' = [pc EXCEPT ![t] = "configuredSet"] /\ arg' = [arg EXCEPT ![t] = d]
          /\ UNCHANGED <<granted, activity, surface, bg, permits, mCameraDevice,
                         mCaptureSession, mImageReader, hw, looper, history>>
      BY <1>4 DEF onConfigured, d
    <2> QED BY <2>2, <2>3 DEF TypeOK, Thread
  <1>5. CASE onConfiguredSet(t)
    BY <1>5, DeathTyped DEF onConfiguredSet, TypeOK, Thread
  <1>6. CASE onLost(t)
    <2>1. Take(t, "onLost") BY <1>6 DEF onLost
    <2> DEFINE d == Head(inbox[t]).dev
    <2>2. d \in Dev /\ inbox' \in [Thread -> Seq(Message)] BY <2>1, TakeTyped
    <2> HIDE DEF d
    <2>3. /\ \/ UNCHANGED <<pc, arg, permits, owed, late>>
             \/ /\ Release(d)
                /\ pc' = [pc EXCEPT ![t] = "lostClose"]
                /\ arg' = [arg EXCEPT ![t] = d]
          /\ UNCHANGED <<granted, activity, surface, bg, mCameraDevice, mCaptureSession,
                         mImageReader, hw, looper, leaked, torn>>
      BY <1>6 DEF onLost, d
    <2> QED BY <2>2, <2>3 DEF TypeOK, Thread, Release
  <1>7. CASE onLostClose(t)
    BY <1>7 DEF onLostClose, TypeOK, Thread
  <1> QED BY <1>1, <1>2, <1>3, <1>4, <1>5, <1>6, <1>7 DEF Handler

(* Every step of the camera service keeps the types.                       *)
LEMMA ServiceTyped ==
    ASSUME TypeOK, NEW d \in Dev, serviceAnswers(d) \/ serviceLoses(d)
    PROVE  TypeOK'
  <1>1. looper[d] \in {"ui", "bg", "dead"} BY DEF TypeOK
  <1>2. /\ [cb |-> "onOpened", dev |-> d] \in Message
        /\ [cb |-> "onLost", dev |-> d] \in Message
    BY DEF Message, Callback
  <1>3. /\ \/ Post(looper[d], [cb |-> "onOpened", dev |-> d])
           \/ Post(looper[d], [cb |-> "onLost", dev |-> d])
        /\ \/ hw' = [hw EXCEPT ![d] = "open"]
           \/ hw' = [hw EXCEPT ![d] = "lost"]
        /\ UNCHANGED <<granted, activity, surface, pc, arg, bg, permits, mCameraDevice,
                       mCaptureSession, mImageReader, looper, history>>
    BY DEF serviceAnswers, serviceLoses
  <1>4. inbox' \in [Thread -> Seq(Message)]
    BY <1>1, <1>2, <1>3, PostTyped
  <1> QED BY <1>3, <1>4 DEF TypeOK, Thread, history

(* TypeOK is kept by every step.                                           *)
LEMMA NextTyped == TypeOK /\ [Next]_vars => TypeOK'
  <1> SUFFICES ASSUME TypeOK, [Next]_vars PROVE TypeOK'
    OBVIOUS
  <1>1. CASE systemKills
    BY <1>1, DeathTyped DEF systemKills
  <1>2. CASE UNCHANGED vars
    BY <1>2 DEF TypeOK, vars, appVars, history
  <1> QED
    BY <1>1, <1>2, LifecycleTyped, CloseTyped, HandlerTyped, ServiceTyped DEF Next

(* The types hold initially.                                              *)
LEMMA InitiallyTyped == Init => TypeOK
  <1> SUFFICES ASSUME Init PROVE TypeOK
    OBVIOUS
  <1>1. inbox \in [Thread -> Seq(Message)]
    BY DEF Init
  <1>2. pc \in [Thread -> HandlerPC \cup LifecyclePC] /\ \A t \in Thread : pc[t] = "idle"
    BY DEF Init, HandlerPC
  <1>3. pc["bg"] \in HandlerPC
    BY <1>2 DEF Thread, HandlerPC
  <1>4. /\ arg \in [Thread -> OptDev]
        /\ hw \in [Dev -> {"free", "opening", "open", "lost", "closed"}]
        /\ looper \in [Dev -> {"ui", "bg", "dead"}]
    BY DEF Init, OptDev
  <1> QED BY <1>1, <1>2, <1>3, <1>4 DEF Init, TypeOK, OptDev

(* The state of the camera's lifecycle is well typed in every behaviour.   *)
THEOREM TypeCorrect == Spec => []TypeOK
  BY InitiallyTyped, NextTyped, PTL DEF Spec

------------------------------------------------------------------------------
(* The accounting of the permits.                                          *)

(* The opens in flight are finitely many.                                  *)
LEMMA OwedFinite ==
    ASSUME TypeOK PROVE IsFiniteSet(owed) /\ Cardinality(owed) \in Nat
  <1>1. IsFiniteSet(owed)
    BY LifecycleAssumption, FS_Subset DEF TypeOK
  <1> QED BY <1>1, FS_CardinalityType

(* A release pays back an open in flight or is counted as late.            *)
LEMMA ReleaseAccounting ==
    ASSUME TypeOK, NEW d \in Dev, Release(d)
    PROVE  permits' + Cardinality(owed') + late = permits + Cardinality(owed) + late'
  <1>1. IsFiniteSet(owed) /\ Cardinality(owed) \in Nat
    BY OwedFinite
  <1>2. CASE d \in owed
    <2>1. Cardinality(owed \ {d}) = Cardinality(owed) - 1
      BY <1>1, <1>2, FS_RemoveElement
    <2>2. owed' = owed \ {d} /\ permits' = permits + 1 /\ late' = late
      BY <1>2 DEF Release
    <2> QED BY <1>1, <2>1, <2>2 DEF TypeOK
  <1>3. CASE d \notin owed
    <2>1. owed' = owed /\ permits' = permits + 1 /\ late' = late + 1
      BY <1>3 DEF Release
    <2> QED BY <1>1, <2>1 DEF TypeOK
  <1> QED BY <1>2, <1>3

(* A new process starts with the accounts in order.                        *)
LEMMA DeathAccounted == ProcessDies => PermitAccounting'
  <1> SUFFICES ASSUME ProcessDies PROVE PermitAccounting'
    OBVIOUS
  <1>1. permits' = 1 /\ owed' = {} /\ late' = 0 /\ leaked' = 0 /\ pc'["ui"] = "idle"
    BY DEF ProcessDies, Thread
  <1>2. ~Closing'
    BY <1>1 DEF Closing, CloseSection
  <1>3. Cardinality(owed') = 0
    BY <1>1, FS_EmptySet
  <1> QED BY <1>1, <1>2, <1>3 DEF PermitAccounting

(* A callback's step, unless it kills the process, releases the permit of  *)
(* one device or leaves the lock alone, and never enters or leaves         *)
(* closeCamera.                                                            *)
LEMMA HandlerStep ==
    ASSUME TypeOK, NEW t \in Thread, Handler(t), ~ProcessDies
    PROVE  /\ UNCHANGED <<activity, surface, bg, looper, leaked>>
           /\ UNCHANGED <<permits, owed, late>> \/ \E d \in Dev : Release(d)
           /\ \/ pc'["ui"] = pc["ui"]
              \/ pc["ui"] \in HandlerPC /\ pc'["ui"] \in HandlerPC
  <1> USE DEF Goto, history
  <1>1. UNCHANGED <<activity, surface, bg, looper, leaked>>
    BY DEF Handler, onOpened, onOpenedDevice, createCameraPreviewSession, onConfigured,
           onConfiguredSet, onLost, onLostClose
  <1>2. /\ pc[t] \in HandlerPC
        /\ pc' = pc \/ \E l \in HandlerPC : pc' = [pc EXCEPT ![t] = l]
    BY DEF Handler, onOpened, onOpenedDevice, createCameraPreviewSession, onConfigured,
           onConfiguredSet, onLost, onLostClose, Take, HandlerPC
  <1>3. pc'["ui"] = pc["ui"] \/ (pc["ui"] \in HandlerPC /\ pc'["ui"] \in HandlerPC)
    BY <1>2 DEF TypeOK, Thread
  <1>4. UNCHANGED <<permits, owed, late>> \/ \E d \in Dev : Release(d)
    <2>1. CASE onOpened(t)
      BY <2>1, TakeTyped DEF onOpened
    <2>2. CASE onLost(t)
      BY <2>2, TakeTyped DEF onLost
    <2>3. CASE ~onOpened(t) /\ ~onLost(t)
      BY <2>3 DEF Handler, onOpenedDevice, createCameraPreviewSession, onConfigured,
                  onConfiguredSet, onLostClose
    <2> QED BY <2>1, <2>2, <2>3
  <1> QED BY <1>1, <1>3, <1>4

(* The service never touches the lock.                                     *)
LEMMA ServiceStep ==
    ASSUME NEW d \in Dev, serviceAnswers(d) \/ serviceLoses(d)
    PROVE  UNCHANGED <<activity, surface, bg, looper, pc, permits, owed, late, leaked>>
  BY DEF serviceAnswers, serviceLoses, history

(* Every step keeps the accounts.                                          *)
LEMMA NextAccounted == TypeOK /\ PermitAccounting /\ [Next]_vars => PermitAccounting'
  <1> SUFFICES ASSUME TypeOK, PermitAccounting, [Next]_vars PROVE PermitAccounting'
    OBVIOUS
  <1>0. /\ IsFiniteSet(owed) /\ Cardinality(owed) \in Nat
        /\ permits \in Nat /\ late \in Nat /\ leaked \in Nat
    BY OwedFinite DEF TypeOK
  <1>a. ASSUME UNCHANGED <<permits, owed, late, leaked>>, Closing' <=> Closing
        PROVE  PermitAccounting'
    BY <1>a DEF PermitAccounting
  <1>b. CASE ProcessDies
    BY <1>b, DeathAccounted
  <1>1. CASE Lifecycle /\ ~ProcessDies
    <2> USE DEF Goto, history, TypeOK, Thread, Closing, CloseSection
    <2>1. CASE openCamera
      <3>1. PICK d \in Dev : d \notin owed /\ owed' = owed \cup {d}
        BY <2>1 DEF openCamera, Fresh
      <3>2. Cardinality(owed') = Cardinality(owed) + 1
        BY <1>0, <3>1, FS_AddElement
      <3>3. /\ permits' = permits - 1 /\ permits > 0 /\ late' = late /\ leaked' = leaked
            /\ ~Closing /\ ~Closing'
        BY <2>1 DEF openCamera
      <3> QED BY <1>0, <3>2, <3>3 DEF PermitAccounting
    <2>2. CASE openCameraAccessException
      <3>1. /\ permits' = permits - 1 /\ permits > 0 /\ late' = late /\ leaked' = leaked + 1
            /\ owed' = owed /\ ~Closing /\ ~Closing'
        BY <2>2 DEF openCameraAccessException
      <3>2. Cardinality(owed') = Cardinality(owed)
        BY <3>1
      <3> HIDE DEF Closing, TypeOK
      <3> QED BY <1>0, <3>1, <3>2 DEF PermitAccounting
    <2>3. CASE onResume \/ onSurfaceTextureAvailable \/ onSurfaceTextureDestroyed \/ onPause
      <3>1. UNCHANGED <<permits, owed, late, leaked>>
        BY <2>3 DEF onResume, onSurfaceTextureAvailable, onSurfaceTextureDestroyed, onPause
      <3>2. ~Closing /\ ~Closing'
        BY <2>3 DEF onResume, onSurfaceTextureAvailable, onSurfaceTextureDestroyed, onPause,
                    openCameraEntry
      <3> QED BY <1>a, <3>1, <3>2
    <2> QED BY <1>1, <2>1, <2>2, <2>3 DEF Lifecycle, openCameraTimeout
  <1>2. CASE closeCamera /\ ~ProcessDies
    <2> USE DEF Goto, history, TypeOK, Thread, Closing, CloseSection
    <2>1. CASE closeCameraAcquire
      <3>1. /\ permits' = permits - 1 /\ permits > 0 /\ UNCHANGED <<owed, late, leaked>>
            /\ ~Closing /\ Closing'
        BY <2>1 DEF closeCameraAcquire
      <3> QED BY <1>0, <3>1 DEF PermitAccounting
    <2>2. CASE closeCameraReader
      <3>1. /\ permits' = permits + 1 /\ UNCHANGED <<owed, late, leaked>>
            /\ Closing /\ ~Closing'
        BY <2>2 DEF closeCameraReader
      <3> QED BY <1>0, <3>1 DEF PermitAccounting
    <2>3. CASE closeCameraSession \/ closeCameraDevice \/ closeCameraDeviceUse
      <3>1. UNCHANGED <<permits, owed, late, leaked>>
        BY <1>2, <2>3 DEF closeCameraSession, closeCameraDevice, closeCameraDeviceUse
      <3>2. Closing /\ Closing'
        BY <1>2, <2>3 DEF closeCameraSession, closeCameraDevice, closeCameraDeviceUse
      <3> QED BY <1>a, <3>1, <3>2
    <2>4. CASE stopBackgroundThread \/ stopBackgroundThreadJoin
      <3>1. UNCHANGED <<permits, owed, late, leaked>> /\ ~Closing /\ ~Closing'
        BY <2>4 DEF stopBackgroundThread, stopBackgroundThreadJoin
      <3> QED BY <1>a, <3>1
    <2> QED BY <1>2, <2>1, <2>2, <2>3, <2>4 DEF closeCamera
  <1>3. ASSUME NEW t \in Thread, Handler(t), ~ProcessDies PROVE PermitAccounting'
    <2>1. leaked' = leaked /\ (Closing' <=> Closing)
      BY <1>3, HandlerStep DEF Closing, CloseSection, HandlerPC
    <2>2. CASE UNCHANGED <<permits, owed, late>>
      BY <1>a, <2>1, <2>2
    <2>3. ASSUME NEW d \in Dev, Release(d) PROVE PermitAccounting'
      <3>1. permits' + Cardinality(owed') + late = permits + Cardinality(owed) + late'
        BY <2>3, ReleaseAccounting
      <3>2. IsFiniteSet(owed') /\ Cardinality(owed') \in Nat
        BY <1>0, <2>3, FS_RemoveElement, FS_CardinalityType, FS_Subset DEF Release
      <3>3. permits' \in Nat /\ late' \in Nat
        BY <1>0, <2>3 DEF Release
      <3> QED BY <1>0, <2>1, <3>1, <3>2, <3>3 DEF PermitAccounting
    <2> QED BY <1>3, <2>2, <2>3, HandlerStep
  <1>4. ASSUME NEW d \in Dev, serviceAnswers(d) \/ serviceLoses(d) PROVE PermitAccounting'
    BY <1>4, <1>a, ServiceStep DEF Closing
  <1>5. CASE UNCHANGED vars
    BY <1>5, <1>a DEF vars, appVars, history, Closing
  <1> QED BY <1>b, <1>1, <1>2, <1>3, <1>4, <1>5 DEF Next, systemKills

(* The accounts are in order initially.                                   *)
LEMMA InitiallyAccounted == Init => PermitAccounting
  <1> SUFFICES ASSUME Init PROVE PermitAccounting
    OBVIOUS
  <1>1. permits = 1 /\ owed = {} /\ late = 0 /\ leaked = 0 /\ pc["ui"] = "idle"
    BY DEF Init, Thread
  <1>2. ~Closing /\ Cardinality(owed) = 0
    BY <1>1, FS_EmptySet DEF Closing, CloseSection
  <1> QED BY <1>1, <1>2 DEF PermitAccounting

(* The permits of mCameraOpenCloseLock are accounted for in every          *)
(* behaviour: each is free, owed by an openCamera that waits for its       *)
(* callback, held by closeCamera or lost to an exception, and each         *)
(* callback that releases after onOpened did adds one.                     *)
THEOREM PermitsAccounted == Spec => []PermitAccounting
  BY InitiallyAccounted, TypeCorrect, NextAccounted, PTL DEF Spec

(* As long as no device is lost after it was opened, closeCamera never     *)
(* closes the device while an openCamera waits for its callback.           *)
THEOREM Exclusive == Spec => []OpenCloseExclusive
  <1>1. TypeOK /\ PermitAccounting => OpenCloseExclusive
    <2> SUFFICES ASSUME TypeOK, PermitAccounting, late = 0, Closing PROVE owed = {}
      BY DEF OpenCloseExclusive
    <2>1. IsFiniteSet(owed) /\ Cardinality(owed) \in Nat
      BY OwedFinite
    <2>2. Cardinality(owed) = 0
      BY <2>1 DEF PermitAccounting, TypeOK
    <2> QED BY <2>1, <2>2, FS_EmptySet
  <1>2. QED BY <1>1, TypeCorrect, PermitsAccounted, PTL

------------------------------------------------------------------------------
(* openCamera waits for the lock only when it waits in vain.               *)

(* The stranded opens are finitely many and no more than all opens.        *)
LEMMA StrandedFinite ==
    ASSUME TypeOK
    PROVE  /\ IsFiniteSet(Stranded) /\ Cardinality(Stranded) \in Nat
           /\ Cardinality(Stranded) <= Cardinality(owed)
  <1>1. IsFiniteSet(owed) /\ Stranded \subseteq owed
    BY OwedFinite DEF Stranded
  <1> QED BY <1>1, FS_Subset, FS_CardinalityType

(* StrandedPaidFor is kept by a step that strands no further open, forgets *)
(* no late release and does not make Unopened true.                        *)
LEMMA StrandedKept ==
    ASSUME TypeOK, StrandedPaidFor, Stranded' \subseteq Stranded,
           late' \in Nat, late' >= late, Unopened' => Unopened
    PROVE  StrandedPaidFor'
  <1>1. IsFiniteSet(Stranded) /\ Cardinality(Stranded) \in Nat
    BY StrandedFinite
  <1>2. Cardinality(Stranded') \in Nat /\ Cardinality(Stranded') <= Cardinality(Stranded)
    BY <1>1, FS_Subset, FS_CardinalityType
  <1> QED BY <1>1, <1>2 DEF StrandedPaidFor, TypeOK

(* The parts of LifecycleInv that relate the UI thread's position, the     *)
(* activity's state, the surface and the background thread.                *)
UiThreadInv ==
    /\ BackgroundWhileResumed
    /\ pc["ui"] = "tryAcquire" => surface = "ready"
    /\ pc["ui"] \in CloseSection \cup {"acquire", "quit", "join"} => activity = "paused"

(* A new process satisfies the invariant.                                  *)
LEMMA DeathUnstranded == ProcessDies => UiThreadInv' /\ StrandedPaidFor'
  <1> SUFFICES ASSUME ProcessDies PROVE UiThreadInv' /\ StrandedPaidFor'
    OBVIOUS
  <1>1. /\ activity' = "paused" /\ bg' = "none" /\ owed' = {} /\ late' = 0
        /\ pc'["ui"] = "idle"
    BY DEF ProcessDies, Thread
  <1>2. Stranded' = {}
    BY <1>1 DEF Stranded
  <1>3. Cardinality(Stranded') = 0
    BY <1>2, FS_EmptySet
  <1>4. UiThreadInv'
    BY <1>1 DEF UiThreadInv, BackgroundWhileResumed, CloseSection
  <1> QED BY <1>1, <1>3, <1>4 DEF StrandedPaidFor

(* The lifecycle methods keep both parts.                                  *)
LEMMA LifecycleUnstranded ==
    ASSUME TypeOK, UiThreadInv, StrandedPaidFor, Lifecycle, ~ProcessDies
    PROVE  UiThreadInv' /\ StrandedPaidFor'
  <1> USE DEF Goto, history, Thread, CloseSection
  <1>1. CASE onResume \/ onSurfaceTextureAvailable \/ onSurfaceTextureDestroyed
    <2>1. /\ pc["ui"] = "idle" /\ pc'["ui"] \in {"idle", "tryAcquire"}
          /\ UNCHANGED <<owed, looper, late>>
      BY <1>1 DEF onResume, onSurfaceTextureAvailable, onSurfaceTextureDestroyed,
                  openCameraEntry, TypeOK
    <2>2. activity = "paused" \/ surface = "awaited"
      BY <1>1 DEF onResume, onSurfaceTextureAvailable, onSurfaceTextureDestroyed
    <2>3. Unopened
      BY <2>1, <2>2 DEF Unopened, TypeOK
    <2>4. StrandedPaidFor'
      BY <2>1, <2>3, StrandedKept DEF Stranded, TypeOK
    <2>5. pc'["ui"] = "tryAcquire" => surface' = "ready"
      BY <1>1 DEF onResume, onSurfaceTextureAvailable, onSurfaceTextureDestroyed,
                  openCameraEntry, TypeOK
    <2>6. \/ activity' = "resumed" /\ bg' = "running"
          \/ UNCHANGED <<activity, bg>>
      BY <1>1 DEF onResume, onSurfaceTextureAvailable, onSurfaceTextureDestroyed
    <2> QED BY <2>1, <2>4, <2>5, <2>6 DEF UiThreadInv, BackgroundWhileResumed
  <1>2. CASE openCamera
    <2>1. /\ pc["ui"] = "tryAcquire" /\ pc'["ui"] = "idle"
          /\ UNCHANGED <<activity, surface, bg, late>>
      BY <1>2 DEF openCamera, TypeOK
    <2>2. UiThreadInv'
      BY <2>1 DEF UiThreadInv, BackgroundWhileResumed
    <2>3. CASE bg = "running"
      <3>1. ~Unopened'
        BY <2>1, <2>3 DEF UiThreadInv, BackgroundWhileResumed, Unopened
      <3> QED BY <2>2, <3>1 DEF StrandedPaidFor
    <2>4. CASE bg # "running"
      <3>1. PICK d \in Dev : /\ owed' = owed \cup {d}
                             /\ looper' = [looper EXCEPT ![d] = "ui"]
        BY <1>2, <2>4 DEF openCamera
      <3>2. Stranded' \subseteq Stranded
        BY <3>1 DEF Stranded, TypeOK
      <3>3. Unopened
        BY <2>1 DEF Unopened
      <3> QED BY <2>1, <2>2, <3>2, <3>3, StrandedKept DEF TypeOK
    <2> QED BY <2>3, <2>4
  <1>3. CASE openCameraAccessException
    <2>1. /\ pc["ui"] = "tryAcquire" /\ pc'["ui"] = "idle"
          /\ UNCHANGED <<activity, surface, bg, owed, looper, late>>
      BY <1>3 DEF openCameraAccessException, TypeOK
    <2>2. StrandedPaidFor'
      BY <2>1, StrandedKept DEF Stranded, Unopened, TypeOK
    <2> QED BY <2>1, <2>2 DEF UiThreadInv, BackgroundWhileResumed
  <1>4. CASE onPause
    <2>1. /\ activity = "resumed" /\ activity' = "paused" /\ pc'["ui"] = "acquire"
          /\ UNCHANGED bg
      BY <1>4 DEF onPause, TypeOK
    <2>2. ~Unopened'
      BY <2>1 DEF Unopened
    <2> QED BY <2>1, <2>2 DEF UiThreadInv, BackgroundWhileResumed, StrandedPaidFor
  <1> QED BY <1>1, <1>2, <1>3, <1>4 DEF Lifecycle, openCameraTimeout

(* closeCamera and stopBackgroundThread keep both parts: when closeCamera  *)
(* has the lock, the accounts say that every open in flight was paid for.  *)
LEMMA CloseUnstranded ==
    ASSUME TypeOK, PermitAccounting, UiThreadInv, StrandedPaidFor, closeCamera, ~ProcessDies
    PROVE  UiThreadInv' /\ StrandedPaidFor'
  <1> USE DEF Goto, history, Thread, CloseSection
  <1>1. CASE closeCameraAcquire
    <2>1. /\ pc["ui"] = "acquire" /\ permits > 0 /\ pc'["ui"] = "closeSession"
          /\ UNCHANGED <<activity, bg, owed, looper, late>>
      BY <1>1 DEF closeCameraAcquire, TypeOK
    <2>2. Cardinality(owed) \in Nat /\ Cardinality(owed) <= late
      BY <2>1, OwedFinite DEF PermitAccounting, TypeOK, Closing
    <2>3. Stranded' = Stranded
      BY <2>1 DEF Stranded
    <2>4. Cardinality(Stranded') <= late'
      BY <2>1, <2>2, <2>3, StrandedFinite DEF TypeOK
    <2> QED BY <2>1, <2>4 DEF UiThreadInv, BackgroundWhileResumed, StrandedPaidFor
  <1>2. CASE closeCameraSession \/ closeCameraDevice \/ closeCameraDeviceUse \/ closeCameraReader
    <2>1. UNCHANGED <<activity, bg, owed, looper, late>> /\ pc["ui"] \in CloseSection
      BY <1>2 DEF closeCameraSession, closeCameraDevice, closeCameraDeviceUse, closeCameraReader
    <2>2. pc'["ui"] \in CloseSection \cup {"quit"}
      BY <1>2 DEF closeCameraSession, closeCameraDevice, closeCameraDeviceUse,
                  closeCameraReader, TypeOK
    <2>3. StrandedPaidFor'
      BY <2>1, StrandedKept DEF Stranded, Unopened, TypeOK
    <2> QED BY <2>1, <2>2, <2>3 DEF UiThreadInv, BackgroundWhileResumed
  <1>3. CASE stopBackgroundThread
    <2>1. /\ pc["ui"] = "quit" /\ pc'["ui"] = "join" /\ bg' = "quitting"
          /\ UNCHANGED <<activity, owed, looper, late>>
      BY <1>3 DEF stopBackgroundThread, TypeOK
    <2>2. StrandedPaidFor'
      BY <2>1, StrandedKept DEF Stranded, Unopened, TypeOK
    <2> QED BY <2>1, <2>2 DEF UiThreadInv, BackgroundWhileResumed
  <1>4. CASE stopBackgroundThreadJoin
    <2>1. /\ pc["ui"] = "join" /\ pc'["ui"] = "idle" /\ bg' = "none"
          /\ looper' = [d \in Dev |-> IF looper[d] = "bg" THEN "dead" ELSE looper[d]]
          /\ UNCHANGED <<activity, owed, late>>
      BY <1>4 DEF stopBackgroundThreadJoin, TypeOK
    <2>2. Stranded' \subseteq Stranded
      BY <2>1 DEF Stranded, TypeOK
    <2>3. StrandedPaidFor'
      BY <2>1, <2>2, StrandedKept DEF Unopened, TypeOK
    <2> QED BY <2>1, <2>3 DEF UiThreadInv, BackgroundWhileResumed
  <1> QED BY <1>1, <1>2, <1>3, <1>4 DEF closeCamera

(* A callback's step keeps both parts.                                     *)
LEMMA HandlerUnstranded ==
    ASSUME TypeOK, UiThreadInv, StrandedPaidFor, NEW t \in Thread, Handler(t), ~ProcessDies
    PROVE  UiThreadInv' /\ StrandedPaidFor'
  <1>1. /\ UNCHANGED <<activity, surface, bg, looper>>
        /\ \/ pc'["ui"] = pc["ui"]
           \/ pc["ui"] \in HandlerPC /\ pc'["ui"] \in HandlerPC
    BY HandlerStep
  <1>2. UiThreadInv'
    BY <1>1 DEF UiThreadInv, BackgroundWhileResumed, HandlerPC, CloseSection
  <1>3. Unopened' => Unopened
    BY <1>1 DEF Unopened, HandlerPC, CloseSection
  <1>4. owed' \subseteq owed /\ late' \in Nat /\ late' >= late
    BY HandlerStep DEF Release, TypeOK
  <1>5. Stranded' \subseteq Stranded
    BY <1>1, <1>4 DEF Stranded
  <1> QED BY <1>2, <1>3, <1>4, <1>5, StrandedKept

(* LifecycleInv is inductive.                                              *)
LEMMA NextKeepsInv == LifecycleInv /\ [Next]_vars => LifecycleInv'
  <1> SUFFICES ASSUME LifecycleInv, [Next]_vars PROVE LifecycleInv'
    OBVIOUS
  <1>1. TypeOK /\ PermitAccounting /\ UiThreadInv /\ StrandedPaidFor
    BY DEF LifecycleInv, UiThreadInv
  <1>2. TypeOK' /\ PermitAccounting'
    BY <1>1, NextTyped, NextAccounted
  <1>3. ASSUME ProcessDies PROVE UiThreadInv' /\ StrandedPaidFor'
    BY <1>3, DeathUnstranded
  <1>4. ASSUME NEW d \in Dev, serviceAnswers(d) \/ serviceLoses(d)
        PROVE  UiThreadInv' /\ StrandedPaidFor'
    BY <1>1, <1>4, ServiceStep
       DEF UiThreadInv, BackgroundWhileResumed, StrandedPaidFor, Stranded, Unopened
  <1>5. ASSUME UNCHANGED vars PROVE UiThreadInv' /\ StrandedPaidFor'
    BY <1>1, <1>5 DEF vars, appVars, history, UiThreadInv, BackgroundWhileResumed,
                      StrandedPaidFor, Stranded, Unopened
  <1>6. UiThreadInv' /\ StrandedPaidFor'
    BY <1>1, <1>3, <1>4, <1>5, LifecycleUnstranded, CloseUnstranded, HandlerUnstranded
       DEF Next, systemKills
  <1> QED BY <1>2, <1>6 DEF LifecycleInv, UiThreadInv

(* LifecycleInv holds initially.                                           *)
LEMMA InitiallyInv == Init => LifecycleInv
  <1> SUFFICES ASSUME Init PROVE LifecycleInv
    OBVIOUS
  <1>1. activity = "paused" /\ bg = "none" /\ owed = {} /\ late = 0 /\ pc["ui"] = "idle"
    BY DEF Init, Thread
  <1>2. Stranded = {}
    BY <1>1 DEF Stranded
  <1>3. Cardinality(Stranded) = 0
    BY <1>2, FS_EmptySet
  <1>4. UiThreadInv
    BY <1>1 DEF UiThreadInv, BackgroundWhileResumed, CloseSection
  <1> QED BY <1>1, <1>3, <1>4, InitiallyTyped, InitiallyAccounted
          DEF StrandedPaidFor, LifecycleInv, UiThreadInv

(* openCamera finds no permit only if a permit was lost to an exception of *)
(* manager.openCamera, or if the callback that would release it is queued  *)
(* on the UI looper that is waiting.                                       *)
THEOREM WaitsOnlyOnItself == Spec => []OpenWaitsOnlyOnItself
  <1>1. LifecycleInv => OpenWaitsOnlyOnItself
    <2> SUFFICES ASSUME LifecycleInv, pc["ui"] = "tryAcquire", permits = 0, leaked = 0
                 PROVE  \E d \in owed : looper[d] = "ui"
      BY DEF OpenWaitsOnlyOnItself, WaitInVain, LifecycleInv, TypeOK
    <2>1. Cardinality(Stranded) \in Nat /\ Cardinality(Stranded) <= late
      BY StrandedFinite DEF LifecycleInv, StrandedPaidFor, Unopened
    <2>2. Cardinality(owed) \in Nat /\ Cardinality(owed) = 1 + late /\ late \in Nat
      BY OwedFinite DEF LifecycleInv, PermitAccounting, Closing, CloseSection, TypeOK
    <2>3. owed # Stranded
      BY <2>1, <2>2
    <2> QED BY <2>3 DEF Stranded
  <1>2. QED BY <1>1, InitiallyInv, NextKeepsInv, PTL DEF Spec

------------------------------------------------------------------------------
(* onPause releases the camera: ReleaseInv is inductive and implies        *)
(* CameraReleasedOnPause.                                                  *)

(* What Take does to the messages on their way.                            *)
LEMMA TakeMail ==
    ASSUME TypeOK, NEW t \in Thread, NEW cb, Take(t, cb)
    PROVE  /\ Head(inbox[t]) \in Mail(inbox[t]) /\ Head(inbox[t]).cb = cb
           /\ \A s \in Thread : Mail(inbox'[s]) \subseteq Mail(inbox[s])
           /\ \A s \in Thread : s # t => inbox'[s] = inbox[s]
           /\ inbox[t] # <<>>
  <1>1. inbox[t] \in Seq(Message) /\ inbox[t] # <<>> /\ Head(inbox[t]).cb = cb
    BY DEF TypeOK, Take
  <1>2. Head(inbox[t]) \in Mail(inbox[t])
    BY <1>1 DEF Mail
  <1>3. inbox'[t] = Tail(inbox[t]) /\ \A s \in Thread : s # t => inbox'[s] = inbox[s]
    BY DEF TypeOK, Take
  <1>4. ASSUME NEW q \in Seq(Message), q # <<>> PROVE Mail(Tail(q)) \subseteq Mail(q)
    <2> SUFFICES ASSUME NEW i \in 1..Len(Tail(q)) PROVE Tail(q)[i] \in Mail(q)
      BY DEF Mail
    <2>1. Tail(q)[i] = q[i + 1] /\ i + 1 \in 1..Len(q)
      BY <1>4
    <2> QED BY <2>1 DEF Mail
  <1>5. \A s \in Thread : Mail(inbox'[s]) \subseteq Mail(inbox[s])
    BY <1>1, <1>3, <1>4
  <1> QED BY <1>1, <1>2, <1>3, <1>5

(* What Post does to the messages on their way.                            *)
LEMMA PostMail ==
    ASSUME TypeOK, NEW l \in {"ui", "bg", "dead"}, NEW m \in Message, Post(l, m)
    PROVE  /\ \A s \in Thread : \A x \in Mail(inbox'[s]) :
                x \in Mail(inbox[s]) \/ (x = m /\ s = l)
           /\ l # "bg" => inbox'["bg"] = inbox["bg"]
  <1>1. CASE l = "dead" \/ (l = "bg" /\ bg # "running")
    BY <1>1 DEF Post
  <1>2. CASE ~(l = "dead" \/ (l = "bg" /\ bg # "running"))
    <2>1. l \in Thread /\ inbox' = [inbox EXCEPT ![l] = Append(@, m)]
      BY <1>2 DEF Post, Thread
    <2>2. inbox[l] \in Seq(Message) /\ inbox'[l] = Append(inbox[l], m)
          /\ \A s \in Thread : s # l => inbox'[s] = inbox[s]
      BY <2>1 DEF TypeOK
    <2>3. ASSUME NEW q \in Seq(Message), NEW x \in Mail(Append(q, m))
          PROVE  x \in Mail(q) \/ x = m
      <3>1. PICK i \in 1..Len(Append(q, m)) : x = Append(q, m)[i]
        BY <2>3 DEF Mail
      <3>2. (i \in 1..Len(q) /\ x = q[i]) \/ x = m
        BY <3>1
      <3> QED BY <3>2 DEF Mail
    <2>4. "bg" \in Thread
      BY DEF Thread
    <2> QED BY <2>1, <2>2, <2>3, <2>4
  <1> QED BY <1>1, <1>2

(* No message is about a device that openCamera may be given.              *)
LEMMA FreshUnmentioned ==
    ASSUME NEW d \in Dev, Fresh(d), NEW t \in Thread, NEW m \in Mail(inbox[t])
    PROVE  m.dev # d
  <1>1. PICK i \in 1..Len(inbox[t]) : m = inbox[t][i]
    BY DEF Mail
  <1> QED BY <1>1 DEF Fresh, InFlight

(* Every message is about a device.                                        *)
LEMMA MailTyped ==
    ASSUME TypeOK, NEW t \in Thread, NEW m \in Mail(inbox[t])
    PROVE  m.cb \in Callback /\ m.dev \in Dev
  <1>1. PICK i \in 1..Len(inbox[t]) : m = inbox[t][i]
    BY DEF Mail
  <1>2. inbox[t] \in Seq(Message)
    BY DEF TypeOK
  <1>3. m \in Message
    BY <1>1, <1>2
  <1> QED BY <1>3 DEF Message

(* As long as no device is lost after it was opened, an open permit means  *)
(* that no open is in flight, and so does closeCamera; and none is in      *)
(* flight on the background looper while it is Unopened.                   *)
LEMMA Paid ==
    ASSUME LifecycleInv, late = 0
    PROVE  /\ permits > 0 \/ Closing => owed = {}
           /\ Unopened => \A d \in owed : looper[d] = "ui"
  <1>1. IsFiniteSet(owed) /\ Cardinality(owed) \in Nat
    BY OwedFinite DEF LifecycleInv
  <1>2. ASSUME permits > 0 \/ Closing PROVE owed = {}
    <2>1. Cardinality(owed) = 0
      BY <1>1, <1>2 DEF LifecycleInv, PermitAccounting, TypeOK
    <2> QED BY <1>1, <2>1, FS_EmptySet
  <1>3. ASSUME Unopened PROVE \A d \in owed : looper[d] = "ui"
    <2>1. IsFiniteSet(Stranded) /\ Cardinality(Stranded) = 0
      BY <1>3, StrandedFinite DEF LifecycleInv, StrandedPaidFor
    <2>2. Stranded = {}
      BY <2>1, FS_EmptySet
    <2> QED BY <2>2 DEF Stranded
  <1> QED BY <1>2, <1>3

(* The parts of ReleaseInv beyond LifecycleInv.                            *)
ReleaseParts == CallbacksInStep /\ BackgroundInStep /\ UiLooperDone /\ DeviceInReach

(* A new process satisfies them.                                           *)
LEMMA DeathReleases == ProcessDies => ReleaseParts'
  <1> SUFFICES ASSUME ProcessDies PROVE ReleaseParts'
    OBVIOUS
  <1>1. /\ pc'["ui"] = "idle" /\ pc'["bg"] = "idle" /\ inbox'["bg"] = <<>>
        /\ \A t \in Thread : pc'[t] = "idle" /\ inbox'[t] = <<>>
        /\ \A d \in Dev : hw'[d] = "free" /\ looper'[d] = "dead"
        /\ owed' = {}
    BY DEF ProcessDies, Thread
  <1>2. \A t \in Thread : Mail(inbox'[t]) = {}
    BY <1>1 DEF Mail
  <1>3. CallbacksInStep'
    BY <1>1, <1>2 DEF CallbacksInStep
  <1>4. BackgroundInStep' /\ UiLooperDone' /\ DeviceInReach'
    BY <1>1 DEF BackgroundInStep, UiLooperDone, DeviceInReach
  <1> QED BY <1>3, <1>4 DEF ReleaseParts

(* The activity's callbacks and openCamera keep them.                      *)
LEMMA LifecycleReleases ==
    ASSUME ReleaseInv, Lifecycle, ~ProcessDies PROVE ReleaseParts'
  <1>0. TypeOK /\ LifecycleInv /\ CallbacksInStep /\ BackgroundInStep /\ UiLooperDone /\ DeviceInReach
    BY DEF ReleaseInv, LifecycleInv
  <1> "ui" \in Thread /\ "bg" \in Thread /\ Thread = {"ui", "bg"}
    BY DEF Thread
  <1> USE DEF Goto, history
  <1>1. CASE onResume \/ onSurfaceTextureAvailable \/ onSurfaceTextureDestroyed
              \/ openCameraAccessException \/ onPause
    <2>1. /\ pc["ui"] \in {"idle", "tryAcquire"} /\ pc'["ui"] \in {"idle", "tryAcquire", "acquire"}
          /\ pc'["bg"] = pc["bg"]
          /\ UNCHANGED <<owed, looper, late, torn, hw, arg, inbox, mCameraDevice>>
      BY <1>0, <1>1 DEF onResume, onSurfaceTextureAvailable, onSurfaceTextureDestroyed,
                  openCameraEntry, openCameraAccessException, onPause, TypeOK
    <2>2. Dormant' => Dormant
      <3>1. \/ Dormant
            \/ pc'["ui"] = "acquire" /\ activity' = "paused"
        BY <1>0, <1>1 DEF onResume, onSurfaceTextureAvailable, onSurfaceTextureDestroyed,
                  openCameraAccessException, onPause, TypeOK, Dormant, Unopened, CloseSection
      <3> QED BY <3>1 DEF Dormant, Unopened, CloseSection
    <2>3. CallbacksInStep'
      BY <1>0, <2>1 DEF CallbacksInStep
    <2>4. BackgroundInStep'
      BY <1>0, <2>1, <2>2 DEF BackgroundInStep
    <2>5. UiLooperDone' /\ DeviceInReach'
      BY <1>0, <2>1 DEF UiLooperDone, DeviceInReach
    <2> QED BY <2>3, <2>4, <2>5 DEF ReleaseParts
  <1>2. CASE openCamera
    <2>1. PICK d \in Dev :
            /\ Fresh(d)
            /\ hw' = [hw EXCEPT ![d] = "opening"]
            /\ looper' = [looper EXCEPT ![d] = IF bg = "running" THEN "bg" ELSE "ui"]
            /\ owed' = owed \cup {d}
      BY <1>2 DEF openCamera
    <2>2. /\ pc["ui"] = "tryAcquire" /\ permits > 0
          /\ pc' = [pc EXCEPT !["ui"] = "idle"]
          /\ UNCHANGED <<activity, surface, arg, inbox, bg, mCameraDevice, late, torn>>
      BY <1>2 DEF openCamera
    <2>3. pc'["ui"] = "idle" /\ pc'["bg"] = pc["bg"]
      BY <1>0, <2>2 DEF TypeOK
    <2>4. /\ Dormant /\ pc["bg"] = "idle" /\ inbox["bg"] = <<>>
          /\ \A e \in Dev : looper[e] # "bg"
      BY <1>0, <2>2 DEF Dormant, Unopened, CloseSection, BackgroundInStep
    <2>5. late = 0 => owed = {}
      BY <1>0, <2>2, Paid
    <2>6. /\ hw'[d] = "opening" /\ looper'[d] \in {"bg", "ui"}
          /\ looper'[d] = "bg" <=> bg = "running"
          /\ \A e \in Dev : e # d => hw'[e] = hw[e] /\ looper'[e] = looper[e]
      BY <1>0, <2>1 DEF TypeOK
    <2>7. /\ \A t \in Thread : arg[t] # d
          /\ \A t \in Thread : \A m \in Mail(inbox[t]) : m.dev # d
      BY <2>1, FreshUnmentioned DEF Fresh
    <2>8. CallbacksInStep'
      <3>1. ASSUME NEW e \in Dev, hw'[e] = "opening"
            PROVE  e \in owed' /\ \A t \in Thread : arg'[t] # e /\ \A m \in Mail(inbox'[t]) : m.dev # e
        BY <1>0, <2>1, <2>2, <2>6, <2>7, <3>1 DEF CallbacksInStep
      <3>2. ASSUME NEW t \in Thread, NEW m \in Mail(inbox'[t])
            PROVE  /\ m.cb = "onLost" => hw'[m.dev] \in {"lost", "closed"}
                   /\ m.cb \in {"onOpened", "onLost"} => looper'[m.dev] = t
        <4>1. m \in Mail(inbox[t]) /\ m.dev # d
          BY <2>2, <2>7, <3>2
        <4>2. hw'[m.dev] = hw[m.dev] /\ looper'[m.dev] = looper[m.dev]
          BY <4>1, <2>1, <1>0 DEF TypeOK
        <4> QED BY <1>0, <4>1, <4>2 DEF CallbacksInStep
      <3>3. ASSUME NEW t \in Thread
            PROVE  /\ pc'[t] = "lostClose" => hw'[arg'[t]] \in {"lost", "closed"}
                   /\ pc'[t] \in {"openedDevice", "lostClose"} => looper'[arg'[t]] = t
        BY <2>2, <2>3, <2>4
      <3> QED BY <3>1, <3>2, <3>3 DEF CallbacksInStep
    <2>9. BackgroundInStep'
      <3>1. Dormant' => bg # "running"
        BY <1>0, <2>2, <2>3 DEF Dormant, Unopened, CloseSection, LifecycleInv,
                                BackgroundWhileResumed, TypeOK
      <3> QED BY <2>2, <2>3, <2>4, <2>6, <3>1 DEF BackgroundInStep
    <2>10. UiLooperDone'
      BY <2>1, <2>2, <2>3, <2>4, <2>5, <2>6 DEF UiLooperDone
    <2>11. DeviceInReach'
      BY <1>0, <2>1, <2>2, <2>3, <2>4, <2>6 DEF DeviceInReach
    <2> QED BY <2>8, <2>9, <2>10, <2>11 DEF ReleaseParts
  <1> QED BY <1>1, <1>2 DEF Lifecycle, openCameraTimeout

(* closeCamera and stopBackgroundThread keep them: closeCamera finds the   *)
(* device in mCameraDevice, or onOpened's tail is torn.                    *)
LEMMA CloseReleases ==
    ASSUME ReleaseInv, closeCamera, ~ProcessDies PROVE ReleaseParts'
  <1>0. TypeOK /\ LifecycleInv /\ CallbacksInStep /\ BackgroundInStep /\ UiLooperDone /\ DeviceInReach
    BY DEF ReleaseInv, LifecycleInv
  <1> "ui" \in Thread /\ "bg" \in Thread /\ Thread = {"ui", "bg"}
    BY DEF Thread
  <1> USE DEF Goto, history
  <1>1. CASE closeCameraAcquire \/ closeCameraSession \/ closeCameraReader \/ stopBackgroundThread
    <2>1. /\ pc'["bg"] = pc["bg"]
          /\ \/ pc'["ui"] \in {"closeSession", "closeDevice"}
             \/ pc["ui"] \in {"closeReader", "quit"} /\ pc'["ui"] \in {"quit", "join"}
          /\ UNCHANGED <<owed, looper, late, torn, hw, arg, inbox, mCameraDevice>>
      BY <1>0, <1>1 DEF closeCameraAcquire, closeCameraSession, closeCameraReader,
                        stopBackgroundThread, TypeOK
    <2>2. ~Dormant'
      BY <2>1 DEF Dormant, CloseSection
    <2>3. CallbacksInStep'
      BY <1>0, <2>1 DEF CallbacksInStep
    <2>4. BackgroundInStep' /\ UiLooperDone' /\ DeviceInReach'
      BY <1>0, <2>1, <2>2 DEF BackgroundInStep, UiLooperDone, DeviceInReach
    <2> QED BY <2>3, <2>4 DEF ReleaseParts
  <1>2. CASE closeCameraDevice
    <2>1. /\ pc["ui"] = "closeDevice" /\ pc'["bg"] = pc["bg"]
          /\ pc'["ui"] = IF mCameraDevice = NoDev THEN "closeReader" ELSE "closeDeviceUse"
          /\ UNCHANGED <<owed, looper, late, hw, arg, inbox, mCameraDevice>>
          /\ ~torn' => ~torn /\ pc["bg"] # "openedDevice"
      BY <1>0, <1>2 DEF closeCameraDevice, TypeOK
    <2>2. late = 0 => owed = {}
      BY <1>0, <2>1, Paid DEF Closing, CloseSection
    <2>3. ~Dormant'
      BY <2>1 DEF Dormant, CloseSection
    <2>4. CallbacksInStep'
      BY <1>0, <2>1 DEF CallbacksInStep
    <2>5. BackgroundInStep' /\ UiLooperDone'
      BY <1>0, <2>1, <2>3 DEF BackgroundInStep, UiLooperDone
    <2>6. DeviceInReach'
      <3> SUFFICES ASSUME late = 0, ~torn' PROVE DeviceInReach'
        BY <2>1 DEF DeviceInReach
      <3>1. ASSUME NEW d \in Dev, mCameraDevice = NoDev, looper[d] = "bg"
            PROVE  hw[d] \notin {"opening", "open"}
        BY <1>0, <2>1, <2>2, <3>1, LifecycleAssumption DEF CallbacksInStep, DeviceInReach
      <3> QED BY <1>0, <2>1, <3>1 DEF DeviceInReach
    <2> QED BY <2>4, <2>5, <2>6 DEF ReleaseParts
  <1>3. CASE closeCameraDeviceUse
    <2>1. /\ pc["ui"] = "closeDeviceUse" /\ pc'["bg"] = pc["bg"] /\ pc'["ui"] = "closeReader"
          /\ pc' = [pc EXCEPT !["ui"] = "closeReader"]
          /\ mCameraDevice # NoDev /\ hw' = [hw EXCEPT ![mCameraDevice] = "closed"]
          /\ UNCHANGED <<owed, looper, late, torn, arg, inbox>>
      BY <1>0, <1>3 DEF closeCameraDeviceUse, TypeOK
    <2>2. \A d \in Dev : (hw'[d] = hw[d] /\ d # mCameraDevice) \/ hw'[d] = "closed"
      BY <1>0, <2>1 DEF TypeOK
    <2>3. late = 0 => owed = {}
      BY <1>0, <2>1, Paid DEF Closing, CloseSection
    <2>4. CallbacksInStep'
      <3>1. ASSUME NEW d, hw[d] \in {"lost", "closed"} PROVE hw'[d] \in {"lost", "closed"}
        BY <1>0, <2>1, <3>1 DEF TypeOK
      <3> QED BY <1>0, <2>1, <2>2, <3>1 DEF CallbacksInStep
    <2>5. ~Dormant'
      BY <2>1 DEF Dormant, CloseSection
    <2>6. BackgroundInStep' /\ UiLooperDone'
      BY <1>0, <2>1, <2>5 DEF BackgroundInStep, UiLooperDone
    <2>7. DeviceInReach'
      <3> SUFFICES ASSUME late = 0, ~torn PROVE DeviceInReach'
        BY <2>1 DEF DeviceInReach
      <3>1. ASSUME NEW d \in Dev, looper[d] = "bg"
            PROVE  hw'[d] \notin {"opening", "open"}
        BY <1>0, <2>1, <2>2, <2>3, <3>1 DEF CallbacksInStep, DeviceInReach
      <3> QED BY <1>0, <2>1, <2>2, <3>1 DEF DeviceInReach
    <2> QED BY <2>4, <2>6, <2>7 DEF ReleaseParts
  <1>4. CASE stopBackgroundThreadJoin
    <2>1. /\ pc["ui"] = "join" /\ pc["bg"] = "idle" /\ inbox["bg"] = <<>>
          /\ pc'["ui"] = "idle" /\ pc'["bg"] = "idle"
          /\ UNCHANGED <<owed, late, torn, hw, arg, inbox, mCameraDevice>>
          /\ looper' = [d \in Dev |-> IF looper[d] = "bg" THEN "dead" ELSE looper[d]]
      BY <1>0, <1>4 DEF stopBackgroundThreadJoin, TypeOK
    <2>2. \A d \in Dev : /\ looper'[d] # "bg"
                         /\ looper[d] = "ui" => looper'[d] = "ui"
                         /\ looper'[d] = "dead" => looper[d] \in {"bg", "dead"}
      BY <1>0, <2>1 DEF TypeOK
    <2>3. Mail(inbox["bg"]) = {}
      BY <2>1 DEF Mail
    <2>4. CallbacksInStep'
      <3>1. \A t \in Thread : \A m \in Mail(inbox[t]) : m.dev \in Dev
        BY <1>0, MailTyped
      <3> QED BY <1>0, <2>1, <2>2, <2>3, <3>1 DEF CallbacksInStep
    <2>5. BackgroundInStep' /\ UiLooperDone' /\ DeviceInReach'
      BY <1>0, <2>1, <2>2 DEF BackgroundInStep, UiLooperDone, DeviceInReach
    <2> QED BY <2>4, <2>5 DEF ReleaseParts
  <1> QED BY <1>1, <1>2, <1>3, <1>4 DEF closeCamera

(* A callback keeps them.  The proof names what its step changes: its own  *)
(* thread's position and argument, and what it takes from its inbox.       *)
LEMMA HandlerReleases ==
    ASSUME ReleaseInv, NEW t \in Thread, Handler(t), ~ProcessDies PROVE ReleaseParts'
  <1>0. TypeOK /\ LifecycleInv /\ CallbacksInStep /\ BackgroundInStep /\ UiLooperDone /\ DeviceInReach
    BY DEF ReleaseInv, LifecycleInv
  <1> "ui" \in Thread /\ "bg" \in Thread /\ Thread = {"ui", "bg"}
    BY DEF Thread
  <1> USE DEF Goto, history
  <1>h. /\ UNCHANGED <<activity, surface, bg, looper, torn>>
        /\ \/ pc'["ui"] = pc["ui"]
           \/ pc["ui"] \in HandlerPC /\ pc'["ui"] \in HandlerPC
    BY <1>0, HandlerStep DEF Handler, onOpened, onOpenedDevice, createCameraPreviewSession,
           onConfigured, onConfiguredSet, onLost, onLostClose
  <1>d. Dormant' => Dormant
    BY <1>h DEF Dormant, Unopened, HandlerPC, CloseSection
  <1>a. ASSUME t = "bg" PROVE ~Dormant
    <2>1. pc["bg"] # "idle" \/ inbox["bg"] # <<>>
      BY <1>a DEF Handler, onOpened, onOpenedDevice, createCameraPreviewSession,
           onConfigured, onConfiguredSet, onLost, onLostClose, Take
    <2> QED BY <1>0, <2>1 DEF BackgroundInStep
  <1>b. ASSUME t = "ui" => pc'["bg"] = pc["bg"] /\ inbox'["bg"] = inbox["bg"]
        PROVE  BackgroundInStep'
    BY <1>0, <1>h, <1>d, <1>a, <1>b DEF BackgroundInStep
  <1>1. CASE onOpened(t) \/ (onLost(t) /\ ~UNCHANGED pc)
    <2> DEFINE h == Head(inbox[t])
    <2>1. PICK cb \in {"onOpened", "onLost"} :
            /\ Take(t, cb)
            /\ Release(h.dev) /\ arg' = [arg EXCEPT ![t] = h.dev]
            /\ \/ pc' = [pc EXCEPT ![t] = "openedDevice"] /\ cb = "onOpened"
               \/ pc' = [pc EXCEPT ![t] = "lostClose"] /\ cb = "onLost"
            /\ UNCHANGED <<mCameraDevice, hw>>
      <3>1. CASE onOpened(t)
        BY <3>1 DEF onOpened
      <3>2. CASE onLost(t) /\ ~UNCHANGED pc
        BY <3>2 DEF onLost
      <3> QED BY <1>1, <3>1, <3>2
    <2>2. /\ h \in Mail(inbox[t]) /\ h.cb = cb
          /\ \A s \in Thread : Mail(inbox'[s]) \subseteq Mail(inbox[s])
          /\ t = "ui" => inbox'["bg"] = inbox["bg"]
      BY <1>0, <2>1, TakeMail
    <2>3. h.dev \in Dev /\ pc[t] = "idle"
      BY <1>0, <2>1, TakeTyped DEF Take
    <2> HIDE DEF h
    <2>4. /\ pc'[t] \in {"openedDevice", "lostClose"} /\ arg'[t] = h.dev
          /\ pc'[t] = "openedDevice" => cb = "onOpened"
          /\ pc'[t] = "lostClose" => cb = "onLost"
          /\ \A s \in Thread : s # t => pc'[s] = pc[s] /\ arg'[s] = arg[s]
      BY <1>0, <2>1, <2>3 DEF TypeOK
    <2>5. /\ hw[h.dev] # "opening" /\ looper[h.dev] = t
          /\ cb = "onLost" => hw[h.dev] \in {"lost", "closed"}
      BY <1>0, <2>2, <2>3 DEF CallbacksInStep
    <2>6. owed' = owed \ {h.dev} /\ (late' = 0 => late = 0 /\ h.dev \in owed)
      BY <1>0, <2>1, <2>3 DEF Release, TypeOK
    <2>7. CallbacksInStep'
      BY <1>0, <1>h, <2>2, <2>1, <2>3, <2>4, <2>5, <2>6 DEF CallbacksInStep
    <2>8. BackgroundInStep'
      BY <1>b, <2>2, <2>4
    <2>9. UiLooperDone'
      BY <1>0, <1>h, <2>2, <2>4, <2>5, <2>6 DEF UiLooperDone
    <2>10. DeviceInReach'
      <3> SUFFICES ASSUME late' = 0, ~torn' PROVE DeviceInReach'
        BY DEF DeviceInReach
      <3>1. late = 0 /\ ~torn /\ h.dev \in owed
        BY <1>h, <2>6
      <3>2. ASSUME NEW d \in Dev, hw'[d] = "open", looper'[d] = "bg"
            PROVE  d \in owed' \/ (pc'["bg"] = "openedDevice" /\ arg'["bg"] = d) \/ mCameraDevice' = d
        <4>1. d \in owed \/ (pc["bg"] = "openedDevice" /\ arg["bg"] = d) \/ mCameraDevice = d
          BY <1>0, <1>h, <2>1, <2>3, <3>1, <3>2 DEF DeviceInReach
        <4>2. CASE d = h.dev
          BY <1>h, <2>1, <2>3, <2>4, <2>5, <3>2, <4>2
        <4>3. CASE d # h.dev
          BY <2>1, <2>3, <2>4, <2>6, <4>1, <4>3
        <4> QED BY <4>2, <4>3
      <3>3. pc'["ui"] \in {"closeDeviceUse", "closeReader", "quit", "join"} => pc'["bg"] # "openedDevice"
        <4> SUFFICES ASSUME pc'["ui"] \in {"closeDeviceUse", "closeReader", "quit", "join"}
                     PROVE  pc'["bg"] # "openedDevice"
          OBVIOUS
        <4>1. t = "bg" /\ pc["ui"] = pc'["ui"]
          BY <2>4
        <4>2. looper[h.dev] = "ui"
          BY <1>0, <3>1, <4>1, Paid DEF Unopened, CloseSection
        <4> QED BY <2>5, <4>1, <4>2
      <3>4. pc'["ui"] \in {"closeReader", "quit", "join"} => pc["ui"] = pc'["ui"]
        BY <2>4
      <3> QED BY <1>0, <1>h, <2>1, <2>3, <3>1, <3>2, <3>3, <3>4 DEF DeviceInReach
    <2> QED BY <2>7, <2>8, <2>9, <2>10 DEF ReleaseParts
  <1>2. CASE onConfigured(t) \/ (onLost(t) /\ UNCHANGED pc)
    <2>1. PICK cb \in {"onConfigured", "onLost"} : Take(t, cb)
      BY <1>2 DEF onConfigured, onLost
    <2> DEFINE h == Head(inbox[t])
    <2>2. /\ h \in Mail(inbox[t]) /\ h.dev \in Dev
          /\ \A s \in Thread : Mail(inbox'[s]) \subseteq Mail(inbox[s])
          /\ t = "ui" => inbox'["bg"] = inbox["bg"]
      BY <1>0, <2>1, TakeMail, TakeTyped
    <2>3. /\ pc[t] = "idle"
          /\ \/ UNCHANGED <<pc, arg>>
             \/ pc' = [pc EXCEPT ![t] = "configuredSet"] /\ arg' = [arg EXCEPT ![t] = h.dev]
          /\ UNCHANGED <<mCameraDevice, hw, owed, late>>
      <3>1. CASE onConfigured(t)
        BY <3>1 DEF onConfigured, Take
      <3>2. CASE onLost(t) /\ UNCHANGED pc
        <4>1. pc'[t] = "idle"
          BY <3>2 DEF onLost, Take
        <4>2. pc' # [pc EXCEPT ![t] = "lostClose"]
          BY <1>0, <4>1 DEF TypeOK
        <4> QED BY <3>2, <4>2 DEF onLost, Take
      <3> QED BY <1>2, <3>1, <3>2
    <2> HIDE DEF h
    <2>4. /\ pc'[t] \in {"idle", "configuredSet"}
          /\ arg'[t] \in {arg[t], h.dev}
          /\ \A s \in Thread : s # t => pc'[s] = pc[s] /\ arg'[s] = arg[s]
      BY <1>0, <2>3 DEF TypeOK
    <2>5. hw[h.dev] # "opening"
      BY <1>0, <2>2 DEF CallbacksInStep
    <2>6. CallbacksInStep'
      BY <1>0, <1>h, <2>2, <2>3, <2>4, <2>5 DEF CallbacksInStep
    <2>7. BackgroundInStep'
      BY <1>b, <2>2, <2>4
    <2>8. UiLooperDone' /\ DeviceInReach'
      BY <1>0, <1>h, <2>3, <2>4 DEF UiLooperDone, DeviceInReach
    <2> QED BY <2>6, <2>7, <2>8 DEF ReleaseParts
  <1>3. CASE onOpenedDevice(t)
    <2>1. /\ pc[t] = "openedDevice" /\ pc'[t] = "openedSession"
          /\ \A s \in Thread : s # t => pc'[s] = pc[s]
          /\ mCameraDevice' = arg[t]
          /\ UNCHANGED <<arg, inbox, hw, owed, late>>
      BY <1>0, <1>3 DEF onOpenedDevice, TypeOK
    <2>2. arg[t] \in Dev /\ looper[arg[t]] = t
      BY <1>0, <2>1 DEF CallbacksInStep, TypeOK, HandlerPC
    <2>3. CallbacksInStep'
      BY <1>0, <1>h, <2>1 DEF CallbacksInStep
    <2>4. BackgroundInStep'
      BY <1>b, <2>1
    <2>5. UiLooperDone'
      BY <1>0, <1>h, <2>1 DEF UiLooperDone
    <2>6. ASSUME late = 0, NEW d \in Dev, looper[d] = "bg" PROVE mCameraDevice' = d
      <3>1. t = "bg"
        BY <1>0, <2>1, <2>6 DEF UiLooperDone
      <3> QED BY <1>0, <2>1, <2>2, <2>6, <3>1 DEF BackgroundInStep
    <2>7. DeviceInReach'
      BY <1>0, <1>h, <2>1, <2>6 DEF DeviceInReach
    <2> QED BY <2>3, <2>4, <2>5, <2>7 DEF ReleaseParts
  <1>4. CASE createCameraPreviewSession(t)
    <2>1. /\ pc[t] = "openedSession" /\ pc' = [pc EXCEPT ![t] = "idle"]
          /\ arg' = [arg EXCEPT ![t] = NoDev] /\ mCameraDevice # NoDev
          /\ \/ UNCHANGED inbox
             \/ /\ hw[mCameraDevice] = "open"
                /\ Post(t, [cb |-> "onConfigured", dev |-> mCameraDevice])
          /\ UNCHANGED <<mCameraDevice, hw, owed, late>>
      BY <1>4 DEF createCameraPreviewSession
    <2>2. /\ pc'[t] = "idle" /\ arg'[t] = NoDev
          /\ \A s \in Thread : s # t => pc'[s] = pc[s] /\ arg'[s] = arg[s]
      BY <1>0, <2>1 DEF TypeOK
    <2>3. /\ \A s \in Thread : \A x \in Mail(inbox'[s]) :
                x \in Mail(inbox[s]) \/ (x.cb = "onConfigured" /\ hw[x.dev] = "open")
          /\ t = "ui" => inbox'["bg"] = inbox["bg"]
      <3>1. CASE UNCHANGED inbox
        BY <3>1
      <3>2. CASE Post(t, [cb |-> "onConfigured", dev |-> mCameraDevice]) /\ hw[mCameraDevice] = "open"
        <4>1. PICK m : m = [cb |-> "onConfigured", dev |-> mCameraDevice]
          OBVIOUS
        <4>2. m \in Message /\ m.cb = "onConfigured" /\ m.dev = mCameraDevice
          BY <1>0, <2>1, <4>1 DEF TypeOK, OptDev, Message, Callback
        <4>3. Post(t, m) /\ t \in {"ui", "bg", "dead"}
          BY <3>2, <4>1
        <4>4. /\ \A s \in Thread : \A x \in Mail(inbox'[s]) :
                    x \in Mail(inbox[s]) \/ (x = m /\ s = t)
              /\ t # "bg" => inbox'["bg"] = inbox["bg"]
          BY <1>0, <4>2, <4>3, PostMail
        <4> QED BY <3>2, <4>2, <4>4
      <3> QED BY <2>1, <3>1, <3>2
    <2>4. CallbacksInStep'
      BY <1>0, <1>h, <2>1, <2>2, <2>3, LifecycleAssumption DEF CallbacksInStep
    <2>5. BackgroundInStep'
      BY <1>b, <2>2, <2>3
    <2>6. UiLooperDone' /\ DeviceInReach'
      BY <1>0, <1>h, <2>1, <2>2 DEF UiLooperDone, DeviceInReach
    <2> QED BY <2>4, <2>5, <2>6 DEF ReleaseParts
  <1>5. CASE onConfiguredSet(t)
    <2>1. /\ pc[t] = "configuredSet" /\ pc' = [pc EXCEPT ![t] = "idle"]
          /\ arg' = [arg EXCEPT ![t] = NoDev]
          /\ UNCHANGED <<inbox, mCameraDevice, hw, owed, late>>
      BY <1>5 DEF onConfiguredSet
    <2>2. /\ pc'[t] = "idle" /\ arg'[t] = NoDev
          /\ \A s \in Thread : s # t => pc'[s] = pc[s] /\ arg'[s] = arg[s]
      BY <1>0, <2>1 DEF TypeOK
    <2>3. CallbacksInStep'
      BY <1>0, <1>h, <2>1, <2>2, LifecycleAssumption DEF CallbacksInStep
    <2>4. BackgroundInStep'
      BY <1>b, <2>1, <2>2
    <2>5. UiLooperDone' /\ DeviceInReach'
      BY <1>0, <1>h, <2>1, <2>2 DEF UiLooperDone, DeviceInReach
    <2> QED BY <2>3, <2>4, <2>5 DEF ReleaseParts
  <1>6. CASE onLostClose(t)
    <2>1. /\ pc[t] = "lostClose" /\ pc' = [pc EXCEPT ![t] = "idle"]
          /\ hw' = [hw EXCEPT ![arg[t]] = "closed"]
          /\ arg' = [arg EXCEPT ![t] = NoDev]
          /\ UNCHANGED <<inbox, owed, late>>
      BY <1>6 DEF onLostClose
    <2>2. /\ pc'[t] = "idle" /\ arg'[t] = NoDev
          /\ \A s \in Thread : s # t => pc'[s] = pc[s] /\ arg'[s] = arg[s]
      BY <1>0, <2>1 DEF TypeOK
    <2>3. arg[t] \in Dev /\ looper[arg[t]] = t
      BY <1>0, <2>1 DEF CallbacksInStep, TypeOK, HandlerPC
    <2>4. /\ hw'[arg[t]] = "closed"
          /\ \A d \in Dev : (hw'[d] = hw[d] /\ d # arg[t]) \/ hw'[d] = "closed"
      BY <1>0, <2>1, <2>3 DEF TypeOK
    <2>5. CallbacksInStep'
      <3>1. ASSUME NEW d, hw[d] \in {"lost", "closed"} PROVE hw'[d] \in {"lost", "closed"}
        BY <1>0, <2>1, <3>1 DEF TypeOK
      <3> QED BY <1>0, <1>h, <2>1, <2>2, <2>4, <3>1, LifecycleAssumption DEF CallbacksInStep
    <2>6. BackgroundInStep'
      BY <1>b, <2>1, <2>2
    <2>7. UiLooperDone'
      BY <1>0, <1>h, <2>1, <2>2 DEF UiLooperDone
    <2>8. ASSUME late = 0, NEW d \in Dev, looper[d] = "bg" PROVE hw'[d] = "closed"
      <3>1. t = "bg"
        BY <1>0, <2>1, <2>8 DEF UiLooperDone
      <3>2. d = arg[t]
        BY <1>0, <2>3, <2>8, <3>1 DEF BackgroundInStep
      <3> QED BY <2>4, <3>2
    <2>9. DeviceInReach'
      BY <1>0, <1>h, <2>1, <2>2, <2>4, <2>8 DEF DeviceInReach
    <2> QED BY <2>5, <2>6, <2>7, <2>9 DEF ReleaseParts
  <1>7. \/ onOpened(t) \/ onLost(t) \/ onConfigured(t) \/ onOpenedDevice(t)
        \/ createCameraPreviewSession(t) \/ onConfiguredSet(t) \/ onLostClose(t)
    BY DEF Handler
  <1>8. CASE onLost(t)
    <2>1. CASE UNCHANGED pc
      BY <1>2, <1>8, <2>1
    <2>2. CASE ~UNCHANGED pc
      BY <1>1, <1>8, <2>2
    <2> QED BY <2>1, <2>2
  <1> QED BY <1>1, <1>2, <1>3, <1>4, <1>5, <1>6, <1>7, <1>8

(* The camera service keeps them.                                          *)
LEMMA ServiceReleases ==
    ASSUME ReleaseInv, NEW d \in Dev, serviceAnswers(d) \/ serviceLoses(d)
    PROVE  ReleaseParts'
  <1>0. TypeOK /\ LifecycleInv /\ CallbacksInStep /\ BackgroundInStep /\ UiLooperDone /\ DeviceInReach
    BY DEF ReleaseInv, LifecycleInv
  <1> "ui" \in Thread /\ "bg" \in Thread /\ Thread = {"ui", "bg"}
    BY DEF Thread
  <1>1. PICK to \in {"open", "lost"}, cb \in {"onOpened", "onLost"} :
          /\ hw' = [hw EXCEPT ![d] = to] /\ Post(looper[d], [cb |-> cb, dev |-> d])
          /\ to = "open" => hw[d] = "opening"
          /\ cb = "onLost" => to = "lost"
    BY DEF serviceAnswers, serviceLoses
  <1>2. UNCHANGED <<activity, surface, pc, arg, looper, mCameraDevice, owed, late, torn>>
    BY DEF serviceAnswers, serviceLoses, history
  <1>3. /\ hw'[d] = to /\ hw[d] \in {"opening", "open"}
        /\ \A e \in Dev : e # d => hw'[e] = hw[e]
    BY <1>0, <1>1 DEF TypeOK, serviceAnswers, serviceLoses
  <1>4. PICK m : m = [cb |-> cb, dev |-> d]
    OBVIOUS
  <1>5. m \in Message /\ m.cb = cb /\ m.dev = d
    BY <1>4 DEF Message, Callback
  <1>6. Post(looper[d], m) /\ looper[d] \in {"ui", "bg", "dead"}
    BY <1>0, <1>1, <1>4 DEF TypeOK
  <1>7. /\ \A s \in Thread : \A x \in Mail(inbox'[s]) :
              x \in Mail(inbox[s]) \/ (x = m /\ s = looper[d])
        /\ looper[d] # "bg" => inbox'["bg"] = inbox["bg"]
    <2>1. PICK l : l = looper[d]
      OBVIOUS
    <2>2. Post(l, m) /\ l \in {"ui", "bg", "dead"}
      BY <1>6, <2>1
    <2> QED BY <1>0, <1>5, <2>1, <2>2, PostMail
  <1>8. CallbacksInStep'
    <2>1. ASSUME NEW e \in Dev, hw'[e] = "opening"
          PROVE  e \in owed' /\ \A t \in Thread : arg'[t] # e /\ \A x \in Mail(inbox'[t]) : x.dev # e
      <3>1. e # d /\ hw[e] = "opening"
        BY <1>3, <2>1
      <3> QED BY <1>0, <1>2, <1>5, <1>7, <3>1 DEF CallbacksInStep
    <2>2. ASSUME NEW e, hw[e] \in {"lost", "closed"} PROVE hw'[e] \in {"lost", "closed"}
      BY <1>0, <1>1, <1>3, <2>2 DEF TypeOK
    <2>3. ASSUME NEW t \in Thread, NEW x \in Mail(inbox'[t])
          PROVE  /\ x.cb = "onLost" => hw'[x.dev] \in {"lost", "closed"}
                 /\ x.cb \in {"onOpened", "onLost"} => looper'[x.dev] = t
      BY <1>0, <1>1, <1>2, <1>3, <1>5, <1>7, <2>2, <2>3 DEF CallbacksInStep
    <2>4. ASSUME NEW t \in Thread
          PROVE  /\ pc'[t] = "lostClose" => hw'[arg'[t]] \in {"lost", "closed"}
                 /\ pc'[t] \in {"openedDevice", "lostClose"} => looper'[arg'[t]] = t
      BY <1>0, <1>2, <2>2 DEF CallbacksInStep
    <2> QED BY <2>1, <2>3, <2>4 DEF CallbacksInStep
  <1>9. Dormant' <=> Dormant
    BY <1>2 DEF Dormant, Unopened
  <1>10. BackgroundInStep'
    BY <1>0, <1>2, <1>7, <1>9 DEF BackgroundInStep
  <1>11. UiLooperDone'
    BY <1>0, <1>2 DEF UiLooperDone
  <1>12. DeviceInReach'
    BY <1>0, <1>1, <1>2, <1>3 DEF DeviceInReach, CallbacksInStep
  <1> QED BY <1>8, <1>10, <1>11, <1>12 DEF ReleaseParts

(* ReleaseInv is inductive.                                                *)
LEMMA NextReleases == ReleaseInv /\ [Next]_vars => ReleaseInv'
  <1> SUFFICES ASSUME ReleaseInv, [Next]_vars PROVE ReleaseInv'
    OBVIOUS
  <1>1. LifecycleInv'
    BY NextKeepsInv DEF ReleaseInv
  <1>2. CASE UNCHANGED vars
    BY <1>2, <1>1 DEF vars, appVars, history, ReleaseInv, CallbacksInStep, BackgroundInStep,
                 Dormant, Unopened, UiLooperDone, DeviceInReach
  <1>3. CASE Next
    <2>1. ReleaseParts'
      BY <1>3, DeathReleases, LifecycleReleases, CloseReleases, HandlerReleases, ServiceReleases
         DEF Next, systemKills
    <2> QED BY <1>1, <2>1 DEF ReleaseInv, ReleaseParts
  <1> QED BY <1>2, <1>3

(* Once onPause is over the camera is released: a device that is still     *)
(* open or being opened is on the UI looper, opened because the surface    *)
(* became available while the activity was paused, unless a device was     *)
(* lost after it was opened or closeCamera overtook the tail of onOpened.  *)
THEOREM ReleasedOnPause == Spec => []CameraReleasedOnPause
  <1>1. Init => ReleaseInv
    <2> SUFFICES ASSUME Init PROVE ReleaseInv
      OBVIOUS
    <2>1. /\ pc["ui"] = "idle" /\ pc["bg"] = "idle" /\ inbox["bg"] = <<>>
          /\ \A t \in Thread : pc[t] = "idle" /\ inbox[t] = <<>>
          /\ \A d \in Dev : hw[d] = "free" /\ looper[d] = "dead"
          /\ owed = {}
      BY DEF Init, Thread
    <2>2. \A t \in Thread : Mail(inbox[t]) = {}
      BY <2>1 DEF Mail
    <2>3. CallbacksInStep
      BY <2>1, <2>2 DEF CallbacksInStep
    <2>4. BackgroundInStep /\ UiLooperDone /\ DeviceInReach
      BY <2>1 DEF BackgroundInStep, UiLooperDone, DeviceInReach
    <2> QED BY <2>3, <2>4, InitiallyInv DEF ReleaseInv
  <1>2. ReleaseInv => CameraReleasedOnPause
    <2> SUFFICES ASSUME ReleaseInv, QuietlyPaused, late = 0, ~torn,
                        NEW d \in Dev, hw[d] \in {"opening", "open"}
                 PROVE  looper[d] = "ui"
      BY DEF CameraReleasedOnPause
    <2>1. Dormant
      BY DEF QuietlyPaused, Dormant, Unopened, CloseSection
    <2>2. looper[d] # "bg" /\ looper[d] # "dead"
      BY <2>1 DEF ReleaseInv, BackgroundInStep, DeviceInReach
    <2> QED BY <2>2 DEF ReleaseInv, LifecycleInv, TypeOK
  <1>3. QED BY <1>1, <1>2, NextReleases, PTL DEF Spec

==============================================================================
