--------------------------- MODULE CameraLifecycle ---------------------------
(***************************************************************************)
(* The life of the camera in AcquireActivity: the activity callbacks       *)
(* onResume and onPause on the UI thread, openCamera and closeCamera with  *)
(* mCameraOpenCloseLock, the background HandlerThread, and the callbacks   *)
(* of the camera service (onOpened, onDisconnected, onError, onConfigured).*)
(*                                                                         *)
(* Every thread is a looper with an inbox.  A handler or a lifecycle       *)
(* method that touches state shared with the other thread is split, with   *)
(* pc, at the points where the other thread can observe it; nothing else   *)
(* can happen on its thread in between.                                    *)
(***************************************************************************)
EXTENDS Naturals, Sequences, FiniteSets

CONSTANTS
    Dev,        \* CameraDevice objects the camera service hands out
    NoDev,      \* Java's null, for device and session references
    MaxLate     \* bound on devices lost after they were opened

ASSUME LifecycleAssumption ==
    /\ IsFiniteSet(Dev)
    /\ NoDev \notin Dev
    /\ MaxLate \in Nat

VARIABLES
    granted,         \* the camera and storage permissions of this process
    activity,        \* "resumed" or "paused"
    surface,         \* the TextureView's SurfaceTexture
    pc,              \* where each thread is; "idle" is its looper's loop
    arg,             \* the CameraDevice argument of the handler it runs
    inbox,           \* callbacks posted to each looper and not yet run
    bg,              \* mBackgroundThread: "none", "running" or "quitting"
    permits,         \* permits of mCameraOpenCloseLock
    mCameraDevice,   \* device reference, or NoDev
    mCaptureSession, \* the device whose session it is, or NoDev
    mImageReader,    \* mImageReader # null
    hw,              \* the camera service's view of each device
    looper,          \* the looper that runs each device's callbacks
    owed,            \* history: opens whose permit no callback has released
    late,            \* history: releases by callbacks that owed none
    leaked,          \* history: permits lost when openCamera threw
    torn             \* history: closeCamera overtook the tail of onOpened

appVars == <<activity, surface, pc, arg, inbox, bg, permits, mCameraDevice,
             mCaptureSession, mImageReader>>
history == <<owed, late, leaked, torn>>
vars == <<granted, appVars, hw, looper, history>>

Thread == {"ui", "bg"}
OptDev == Dev \cup {NoDev}
Callback == {"onOpened", "onLost", "onConfigured"}
Message == [cb : Callback, dev : Dev]

HandlerPC == {"idle", "openedDevice", "openedSession", "configuredSet", "lostClose"}
LifecyclePC == {"tryAcquire", "acquire", "closeSession", "closeDevice",
                "closeDeviceUse", "closeReader", "quit", "join"}
CloseSection == {"closeSession", "closeDevice", "closeDeviceUse", "closeReader"}

TypeOK ==
    /\ granted \in BOOLEAN
    /\ activity \in {"resumed", "paused"}
    /\ surface \in {"gone", "awaited", "ready"}
    /\ pc \in [Thread -> HandlerPC \cup LifecyclePC]
    /\ pc["bg"] \in HandlerPC
    /\ arg \in [Thread -> OptDev]
    /\ \A t \in Thread : pc[t] \in HandlerPC \ {"idle"} => arg[t] \in Dev
    /\ inbox \in [Thread -> Seq(Message)]
    /\ bg \in {"none", "running", "quitting"}
    /\ permits \in Nat
    /\ mCameraDevice \in OptDev
    /\ mCaptureSession \in OptDev
    /\ mImageReader \in BOOLEAN
    /\ hw \in [Dev -> {"free", "opening", "open", "lost", "closed"}]
    /\ looper \in [Dev -> {"ui", "bg", "dead"}]
    /\ owed \in SUBSET Dev
    /\ late \in Nat
    /\ leaked \in Nat
    /\ torn \in BOOLEAN

Init ==
    /\ granted \in BOOLEAN
    /\ activity = "paused"
    /\ surface = "gone"
    /\ pc = [t \in Thread |-> "idle"]
    /\ arg = [t \in Thread |-> NoDev]
    /\ inbox = [t \in Thread |-> <<>>]
    /\ bg = "none"
    /\ permits = 1
    /\ mCameraDevice = NoDev
    /\ mCaptureSession = NoDev
    /\ mImageReader = FALSE
    /\ hw = [d \in Dev |-> "free"]
    /\ looper = [d \in Dev |-> "dead"]
    /\ owed = {}
    /\ late = 0
    /\ leaked = 0
    /\ torn = FALSE

------------------------------------------------------------------------------
(* Helpers.  A Handler whose looper has quit drops what is posted to it.   *)

Goto(t, l) == pc' = [pc EXCEPT ![t] = l]

Post(l, m) ==
    IF l = "dead" \/ (l = "bg" /\ bg # "running")
    THEN UNCHANGED inbox
    ELSE inbox' = [inbox EXCEPT ![l] = Append(@, m)]

InFlight(d) == \E t \in Thread : \E i \in 1..Len(inbox[t]) : inbox[t][i].dev = d

(* A device object no one refers to any more can be handed out again.      *)
Fresh(d) ==
    /\ hw[d] \in {"free", "closed"}
    /\ d \notin owed
    /\ mCameraDevice # d
    /\ mCaptureSession # d
    /\ \A t \in Thread : arg[t] # d
    /\ ~InFlight(d)

(* An uncaught exception ends the process.  The service takes its devices  *)
(* back and the next start of the app finds everything as in Init.  The    *)
(* system also ends a process whose permissions it takes away.             *)
ProcessDies ==
    /\ granted' \in BOOLEAN
    /\ activity' = "paused"
    /\ surface' = "gone"
    /\ pc' = [t \in Thread |-> "idle"]
    /\ arg' = [t \in Thread |-> NoDev]
    /\ inbox' = [t \in Thread |-> <<>>]
    /\ bg' = "none"
    /\ permits' = 1
    /\ mCameraDevice' = NoDev
    /\ mCaptureSession' = NoDev
    /\ mImageReader' = FALSE
    /\ hw' = [d \in Dev |-> "free"]
    /\ looper' = [d \in Dev |-> "dead"]
    /\ owed' = {}
    /\ late' = 0
    /\ leaked' = 0
    /\ torn' = FALSE

Release(d) ==
    /\ permits' = permits + 1
    /\ owed' = owed \ {d}
    /\ late' = IF d \in owed THEN late ELSE late + 1

------------------------------------------------------------------------------
(* UI thread: the activity's callbacks and openCamera.                     *)

(* openCamera up to the lock: a missing permission makes it return before  *)
(* it does anything; otherwise setUpCameraOutputs makes the ImageReader.   *)
openCameraEntry ==
    \/ ~granted /\ UNCHANGED <<pc, mImageReader>>
    \/ granted /\ Goto("ui", "tryAcquire") /\ mImageReader' = TRUE

(* startBackgroundThread, then openCamera if the texture is there already; *)
(* otherwise the SurfaceTextureListener will call it.                      *)
onResume ==
    /\ pc["ui"] = "idle"
    /\ activity = "paused"
    /\ \E d \in Dev : Fresh(d)
    /\ activity' = "resumed"
    /\ bg' = "running"
    /\ \/ surface = "ready" /\ openCameraEntry /\ UNCHANGED surface
       \/ surface # "ready" /\ surface' = "awaited" /\ UNCHANGED <<pc, mImageReader>>
    /\ UNCHANGED <<granted, arg, inbox, permits, mCameraDevice, mCaptureSession,
                   hw, looper, history>>

(* The view is drawn as long as the activity is visible, paused or not.    *)
onSurfaceTextureAvailable ==
    /\ pc["ui"] = "idle"
    /\ surface = "awaited"
    /\ \E d \in Dev : Fresh(d)
    /\ surface' = "ready"
    /\ openCameraEntry
    /\ UNCHANGED <<granted, activity, arg, inbox, bg, permits, mCameraDevice,
                   mCaptureSession, hw, looper, history>>

onSurfaceTextureDestroyed ==
    /\ pc["ui"] = "idle"
    /\ activity = "paused"
    /\ surface = "ready"
    /\ surface' = "gone"
    /\ UNCHANGED <<granted, activity, pc, arg, inbox, bg, permits, mCameraDevice,
                   mCaptureSession, mImageReader, hw, looper, history>>

(* Variant: the result of tryAcquire is ignored.                           *)
openCameraWithoutPermit ==
    /\ pc["ui"] = "tryAcquire"
    /\ \E d \in Dev :
        /\ Fresh(d)
        /\ hw' = [hw EXCEPT ![d] = "opening"]
        /\ looper' = [looper EXCEPT ![d] = IF bg = "running" THEN "bg" ELSE "ui"]
        /\ owed' = owed \cup {d}
    /\ permits' = permits - 1
    /\ Goto("ui", "idle")
    /\ UNCHANGED <<granted, activity, surface, arg, inbox, bg, mCameraDevice,
                   mCaptureSession, mImageReader, late, leaked, torn>>

(* tryAcquire takes the permit and manager.openCamera is asked for a       *)
(* device, with mBackgroundHandler: null, hence the UI looper, when no     *)
(* background thread runs.                                                 *)
openCamera ==
    /\ pc["ui"] = "tryAcquire"
    /\ permits > 0
    /\ \E d \in Dev :
        /\ Fresh(d)
        /\ hw' = [hw EXCEPT ![d] = "opening"]
        /\ looper' = [looper EXCEPT ![d] = IF bg = "running" THEN "bg" ELSE "ui"]
        /\ owed' = owed \cup {d}
    /\ permits' = permits - 1
    /\ Goto("ui", "idle")
    /\ UNCHANGED <<granted, activity, surface, arg, inbox, bg, mCameraDevice,
                   mCaptureSession, mImageReader, late, leaked, torn>>

(* manager.openCamera throws CameraAccessException before it makes a       *)
(* device: the exception is printed and the permit is kept.                *)
openCameraAccessException ==
    /\ pc["ui"] = "tryAcquire"
    /\ permits > 0
    /\ permits' = permits - 1
    /\ leaked' = leaked + 1
    /\ Goto("ui", "idle")
    /\ UNCHANGED <<granted, activity, surface, arg, inbox, bg, mCameraDevice,
                   mCaptureSession, mImageReader, hw, looper, owed, late, torn>>

(* 2500 ms without a permit.                                               *)
openCameraTimeout ==
    /\ pc["ui"] = "tryAcquire"
    /\ permits = 0
    /\ ProcessDies

------------------------------------------------------------------------------
(* UI thread: onPause, that is closeCamera then stopBackgroundThread.      *)

onPause ==
    /\ pc["ui"] = "idle"
    /\ activity = "resumed"
    /\ activity' = "paused"
    /\ Goto("ui", "acquire")
    /\ UNCHANGED <<granted, surface, arg, inbox, bg, permits, mCameraDevice,
                   mCaptureSession, mImageReader, hw, looper, history>>

(* Variant: closeCamera goes ahead without the lock.                      *)
closeCameraUnlocked ==
    /\ pc["ui"] = "acquire"
    /\ Goto("ui", "closeSession")
    /\ UNCHANGED <<granted, activity, surface, arg, inbox, bg, permits, mCameraDevice,
                   mCaptureSession, mImageReader, hw, looper, history>>

closeCameraAcquire ==
    /\ pc["ui"] = "acquire"
    /\ permits > 0
    /\ permits' = permits - 1
    /\ Goto("ui", "closeSession")
    /\ UNCHANGED <<granted, activity, surface, arg, inbox, bg, mCameraDevice,
                   mCaptureSession, mImageReader, hw, looper, history>>

closeCameraSession ==
    /\ pc["ui"] = "closeSession"
    /\ mCaptureSession' = NoDev
    /\ Goto("ui", "closeDevice")
    /\ UNCHANGED <<granted, activity, surface, arg, inbox, bg, permits, mCameraDevice,
                   mImageReader, hw, looper, history>>

(* Variant: the device is dropped without close().                         *)
closeCameraDeviceForgets ==
    /\ pc["ui"] = "closeDeviceUse"
    /\ mCameraDevice' = NoDev
    /\ Goto("ui", "closeReader")
    /\ UNCHANGED <<granted, activity, surface, arg, inbox, bg, permits,
                   mCaptureSession, mImageReader, hw, looper, history>>

(* The test mCameraDevice != null ...                                      *)
closeCameraDevice ==
    /\ pc["ui"] = "closeDevice"
    /\ Goto("ui", IF mCameraDevice = NoDev THEN "closeReader" ELSE "closeDeviceUse")
    /\ torn' = (torn \/ pc["bg"] = "openedDevice")
    /\ UNCHANGED <<granted, activity, surface, arg, inbox, bg, permits, mCameraDevice,
                   mCaptureSession, mImageReader, hw, looper, owed, late, leaked>>

(* ... and the close() that follows it: the background thread may have     *)
(* cleared the field meanwhile.                                            *)
closeCameraDeviceUse ==
    /\ pc["ui"] = "closeDeviceUse"
    /\ \/ mCameraDevice = NoDev /\ ProcessDies
       \/ /\ mCameraDevice # NoDev
          /\ hw' = [hw EXCEPT ![mCameraDevice] = "closed"]
          /\ mCameraDevice' = NoDev
          /\ Goto("ui", "closeReader")
          /\ UNCHANGED <<granted, activity, surface, arg, inbox, bg, permits,
                         mCaptureSession, mImageReader, looper, history>>

(* Variant: no finally clause, the lock is not returned.                   *)
closeCameraReaderKeepsPermit ==
    /\ pc["ui"] = "closeReader"
    /\ mImageReader' = FALSE
    /\ Goto("ui", "quit")
    /\ UNCHANGED <<granted, activity, surface, arg, inbox, bg, permits, mCameraDevice,
                   mCaptureSession, hw, looper, history>>

(* mImageReader is closed and the finally clause releases the lock.        *)
closeCameraReader ==
    /\ pc["ui"] = "closeReader"
    /\ mImageReader' = FALSE
    /\ permits' = permits + 1
    /\ Goto("ui", "quit")
    /\ UNCHANGED <<granted, activity, surface, arg, inbox, bg, mCameraDevice,
                   mCaptureSession, hw, looper, history>>

(* quitSafely: what is already in the inbox still runs, new posts are lost.*)
stopBackgroundThread ==
    /\ pc["ui"] = "quit"
    /\ bg' = "quitting"
    /\ Goto("ui", "join")
    /\ UNCHANGED <<granted, activity, surface, arg, inbox, permits, mCameraDevice,
                   mCaptureSession, mImageReader, hw, looper, history>>

stopBackgroundThreadJoin ==
    /\ pc["ui"] = "join"
    /\ pc["bg"] = "idle"
    /\ inbox["bg"] = <<>>
    /\ bg' = "none"
    /\ looper' = [d \in Dev |-> IF looper[d] = "bg" THEN "dead" ELSE looper[d]]
    /\ Goto("ui", "idle")
    /\ UNCHANGED <<granted, activity, surface, arg, inbox, permits, mCameraDevice,
                   mCaptureSession, mImageReader, hw, history>>

------------------------------------------------------------------------------
(* mStateCallback and the session's StateCallback, on looper t.            *)

Take(t, cb) ==
    /\ pc[t] = "idle"
    /\ inbox[t] # <<>>
    /\ Head(inbox[t]).cb = cb
    /\ inbox' = [inbox EXCEPT ![t] = Tail(@)]

(* onOpened releases the lock first ...                                    *)
onOpened(t) ==
    /\ Take(t, "onOpened")
    /\ LET d == Head(inbox[t]).dev IN
        /\ Release(d)
        /\ arg' = [arg EXCEPT ![t] = d]
    /\ Goto(t, "openedDevice")
    /\ UNCHANGED <<granted, activity, surface, bg, mCameraDevice, mCaptureSession,
                   mImageReader, hw, looper, leaked, torn>>

(* ... then publishes the device ...                                       *)
onOpenedDevice(t) ==
    /\ pc[t] = "openedDevice"
    /\ mCameraDevice' = arg[t]
    /\ Goto(t, "openedSession")
    /\ UNCHANGED <<granted, activity, surface, arg, inbox, bg, permits, mCaptureSession,
                   mImageReader, hw, looper, history>>

(* ... then createCameraPreviewSession: it dereferences mCameraDevice and  *)
(* mImageReader; a lost device throws CameraAccessException, which is      *)
(* caught.  With a null handler, the session's callback comes to the       *)
(* calling looper; onConfigureFailed does nothing.                         *)
createCameraPreviewSession(t) ==
    /\ pc[t] = "openedSession"
    /\ \/ mCameraDevice = NoDev /\ ProcessDies
       \/ /\ mCameraDevice # NoDev
          /\ hw[mCameraDevice] = "open"
          /\ ~mImageReader
          /\ ProcessDies
       \/ /\ mCameraDevice # NoDev
          /\ hw[mCameraDevice] = "lost" \/ (hw[mCameraDevice] = "open" /\ mImageReader)
          /\ \/ /\ hw[mCameraDevice] = "open"
                /\ Post(t, [cb |-> "onConfigured", dev |-> mCameraDevice])
             \/ UNCHANGED inbox
          /\ arg' = [arg EXCEPT ![t] = NoDev]
          /\ Goto(t, "idle")
          /\ UNCHANGED <<granted, activity, surface, bg, permits, mCameraDevice,
                         mCaptureSession, mImageReader, hw, looper, history>>

(* onConfigured returns if the camera is already closed ...                *)
onConfigured(t) ==
    /\ Take(t, "onConfigured")
    /\ LET d == Head(inbox[t]).dev IN
        \/ /\ mCameraDevice = NoDev
           /\ UNCHANGED <<pc, arg>>
        \/ /\ mCameraDevice # NoDev
           /\ Goto(t, "configuredSet")
           /\ arg' = [arg EXCEPT ![t] = d]
    /\ UNCHANGED <<granted, activity, surface, bg, permits, mCameraDevice,
                   mCaptureSession, mImageReader, hw, looper, history>>

(* ... otherwise it keeps the session and starts the preview.              *)
onConfiguredSet(t) ==
    /\ pc[t] = "configuredSet"
    /\ \/ hw[arg[t]] = "closed" /\ ProcessDies
       \/ /\ hw[arg[t]] # "closed"
          /\ mCaptureSession' = arg[t]
          /\ arg' = [arg EXCEPT ![t] = NoDev]
          /\ Goto(t, "idle")
          /\ UNCHANGED <<granted, activity, surface, inbox, bg, permits, mCameraDevice,
                         mImageReader, hw, looper, history>>

(* Variant: onDisconnected and onError do not release the lock.            *)
onLostKeepsPermit(t) ==
    /\ Take(t, "onLost")
    /\ LET d == Head(inbox[t]).dev IN
        \/ /\ hw[d] = "closed"
           /\ UNCHANGED <<pc, arg>>
        \/ /\ hw[d] # "closed"
           /\ arg' = [arg EXCEPT ![t] = d]
           /\ Goto(t, "lostClose")
    /\ UNCHANGED <<granted, activity, surface, bg, permits, mCameraDevice, mCaptureSession,
                   mImageReader, hw, looper, history>>

(* onDisconnected and onError: the same three statements.  The service     *)
(* does not deliver them for a device the app has closed.                  *)
onLost(t) ==
    /\ Take(t, "onLost")
    /\ LET d == Head(inbox[t]).dev IN
        \/ /\ hw[d] = "closed"
           /\ UNCHANGED <<pc, arg, permits, owed, late>>
        \/ /\ hw[d] # "closed"
           /\ Release(d)
           /\ arg' = [arg EXCEPT ![t] = d]
           /\ Goto(t, "lostClose")
    /\ UNCHANGED <<granted, activity, surface, bg, mCameraDevice, mCaptureSession,
                   mImageReader, hw, looper, leaked, torn>>

onLostClose(t) ==
    /\ pc[t] = "lostClose"
    /\ hw' = [hw EXCEPT ![arg[t]] = "closed"]
    /\ mCameraDevice' = NoDev
    /\ arg' = [arg EXCEPT ![t] = NoDev]
    /\ Goto(t, "idle")
    /\ UNCHANGED <<granted, activity, surface, inbox, bg, permits, mCaptureSession,
                   mImageReader, looper, history>>

------------------------------------------------------------------------------
(* The camera service and the system.                                      *)

(* An open request is answered: the device opens, or is refused.           *)
serviceAnswers(d) ==
    /\ hw[d] = "opening"
    /\ \E r \in {[to |-> "open", cb |-> "onOpened"], [to |-> "lost", cb |-> "onLost"]} :
        /\ hw' = [hw EXCEPT ![d] = r.to]
        /\ Post(looper[d], [cb |-> r.cb, dev |-> d])
    /\ UNCHANGED <<granted, activity, surface, pc, arg, bg, permits, mCameraDevice,
                   mCaptureSession, mImageReader, looper, history>>

(* An open device is taken away or fails.                                  *)
serviceLoses(d) ==
    /\ hw[d] = "open"
    /\ late + Cardinality({e \in Dev : hw[e] = "lost"}) < MaxLate
    /\ hw' = [hw EXCEPT ![d] = "lost"]
    /\ Post(looper[d], [cb |-> "onLost", dev |-> d])
    /\ UNCHANGED <<granted, activity, surface, pc, arg, bg, permits, mCameraDevice,
                   mCaptureSession, mImageReader, looper, history>>

QuietlyPaused == activity = "paused" /\ pc["ui"] = "idle"

(* The system may end an app that is paused, or whose UI thread hangs.     *)
systemKills ==
    /\ \/ QuietlyPaused
       \/ pc["ui"] = "acquire" /\ permits = 0
    /\ ProcessDies

------------------------------------------------------------------------------
Lifecycle ==
    \/ onResume
    \/ onSurfaceTextureAvailable
    \/ onSurfaceTextureDestroyed
    \/ openCamera
    \/ openCameraAccessException
    \/ openCameraTimeout
    \/ onPause

closeCamera ==
    \/ closeCameraAcquire
    \/ closeCameraSession
    \/ closeCameraDevice
    \/ closeCameraDeviceUse
    \/ closeCameraReader
    \/ stopBackgroundThread
    \/ stopBackgroundThreadJoin

Handler(t) ==
    \/ onOpened(t)
    \/ onOpenedDevice(t)
    \/ createCameraPreviewSession(t)
    \/ onConfigured(t)
    \/ onConfiguredSet(t)
    \/ onLost(t)
    \/ onLostClose(t)

Next ==
    \/ Lifecycle
    \/ closeCamera
    \/ \E t \in Thread : Handler(t)
    \/ \E d \in Dev : serviceAnswers(d) \/ serviceLoses(d)
    \/ systemKills

Spec == Init /\ [][Next]_vars

(* A looper runs what is in its inbox, a thread that is not blocked goes   *)
(* on, and the service answers every open request.  The user and the       *)
(* faults owe nothing.                                                     *)
Fairness ==
    /\ WF_vars(closeCamera)
    /\ WF_vars(openCamera \/ openCameraTimeout)
    /\ \A t \in Thread : WF_vars(Handler(t))
    /\ \A d \in Dev : WF_vars(serviceAnswers(d))

FairSpec == Spec /\ Fairness

------------------------------------------------------------------------------
(* Properties.                                                             *)

Closing == pc["ui"] \in CloseSection

(* Every permit is somewhere: free, owed by an open in flight, held by     *)
(* closeCamera, or lost to an exception of openCamera; and there is one    *)
(* permit more than the Semaphore(1) started with for every onDisconnected *)
(* or onError that came after onOpened had already released.               *)
PermitAccounting ==
    permits + Cardinality(owed) + (IF Closing THEN 1 ELSE 0) + leaked = 1 + late

(* As long as no device is lost after it was opened, closeCamera never     *)
(* runs while an openCamera is still waiting for its callback.             *)
OpenCloseExclusive == late = 0 /\ Closing => owed = {}

WaitInVain == leaked > 0 \/ \E d \in owed : looper[d] = "ui"

(* openCamera waits for the lock only when the wait is in vain: a permit   *)
(* was lost to an exception, or the callback that would release it is      *)
(* queued on the very looper that waits.  In particular an onResume after  *)
(* an onPause never waits for the previous open.                           *)
OpenWaitsOnlyOnItself ==
    pc["ui"] = "tryAcquire" /\ permits = 0 => WaitInVain

(* The camera outlives onPause in three ways only: closeCamera overtook    *)
(* onOpened between its release and its assignment of mCameraDevice, a     *)
(* device was lost after it was opened, or the surface became available    *)
(* while the activity was paused.                                          *)
CameraReleasedOnPause ==
    QuietlyPaused /\ late = 0 /\ ~torn
        => \A d \in Dev : hw[d] \in {"opening", "open"} => looper[d] = "ui"

(* "A Semaphore to prevent the app from exiting before closing the         *)
(* camera": once onPause is over no device is held on behalf of the        *)
(* activity that was paused.                                               *)
CameraClosedBeforeExit ==
    QuietlyPaused
        => \A d \in Dev : hw[d] = "open" => looper[d] = "ui"

(* onPause is never stuck in closeCamera's acquire, except in the two ways *)
(* of OpenWaitsOnlyOnItself: the callback it waits for comes on the        *)
(* background looper, which quits only after closeCamera.                  *)
PauseCompletes ==
    (pc["ui"] = "acquire" /\ ~WaitInVain) ~> (pc["ui"] # "acquire")

------------------------------------------------------------------------------
(* The inductive invariant behind OpenWaitsOnlyOnItself.                   *)

(* The background thread runs from onResume to the end of closeCamera.     *)
BackgroundWhileResumed ==
    (bg = "running") <=> (activity = "resumed" \/ pc["ui"] \in CloseSection \cup {"acquire", "quit"})

(* No openCamera has been made on the background looper since closeCamera  *)
(* last took the lock.                                                     *)
Unopened ==
    \/ pc["ui"] \in CloseSection \cup {"quit", "join", "tryAcquire"}
    \/ activity = "paused" /\ pc["ui"] # "acquire"
    \/ activity = "resumed" /\ surface = "awaited"

(* Opens whose callback will not come on the UI looper.                    *)
Stranded == {d \in owed : looper[d] # "ui"}

(* Opens can be left without their callback only at the expense of permits *)
(* that callbacks have released in excess.                                 *)
StrandedPaidFor == Unopened => Cardinality(Stranded) <= late

LifecycleInv ==
    /\ TypeOK
    /\ PermitAccounting
    /\ BackgroundWhileResumed
    /\ pc["ui"] = "tryAcquire" => surface = "ready"
    /\ pc["ui"] \in CloseSection \cup {"acquire", "quit", "join"} => activity = "paused"
    /\ StrandedPaidFor

------------------------------------------------------------------------------
(* The inductive invariant behind CameraReleasedOnPause.                   *)

Mail(queue) == {queue[i] : i \in 1..Len(queue)}

(* A device is asked for once: no callback is on its way before it is      *)
(* answered, onLost comes for a device that is lost or closed, and the     *)
(* device's callbacks come on its own looper.                              *)
CallbacksInStep ==
    /\ \A d \in Dev : hw[d] = "opening" =>
        d \in owed /\ \A t \in Thread : arg[t] # d /\ \A m \in Mail(inbox[t]) : m.dev # d
    /\ \A t \in Thread : \A m \in Mail(inbox[t]) :
        /\ m.cb = "onLost" => hw[m.dev] \in {"lost", "closed"}
        /\ m.cb \in {"onOpened", "onLost"} => looper[m.dev] = t
    /\ \A t \in Thread :
        /\ pc[t] = "lostClose" => hw[arg[t]] \in {"lost", "closed"}
        /\ pc[t] \in {"openedDevice", "lostClose"} => looper[arg[t]] = t

(* The background looper has nothing to do until openCamera, and then only *)
(* the callbacks of one device.                                            *)
Dormant == Unopened /\ pc["ui"] \notin CloseSection \cup {"quit", "join"}

BackgroundInStep ==
    /\ Dormant => /\ pc["bg"] = "idle" /\ inbox["bg"] = <<>>
                  /\ \A d \in Dev : looper[d] # "bg"
    /\ \A d, e \in Dev : looper[d] = "bg" /\ looper[e] = "bg" => d = e

(* While a device has the background looper, the UI looper opens and loses *)
(* none (unless one is lost after it was opened).                          *)
UiLooperDone ==
    late = 0 /\ (\E d \in Dev : looper[d] = "bg") =>
        /\ \A d \in owed : looper[d] = "bg"
        /\ pc["ui"] \notin {"openedDevice", "lostClose"}

(* closeCamera finds the device of the background looper in mCameraDevice, *)
(* and when it has closed it no device without the UI looper is open.      *)
DeviceInReach ==
    late = 0 /\ ~torn =>
        /\ \A d \in Dev : hw[d] = "open" /\ looper[d] = "bg" =>
            d \in owed \/ (pc["bg"] = "openedDevice" /\ arg["bg"] = d) \/ mCameraDevice = d
        /\ \A d \in Dev : looper[d] = "dead" => hw[d] \notin {"opening", "open"}
        /\ pc["ui"] \in {"closeReader", "quit", "join"} =>
            \A d \in Dev : looper[d] = "bg" => hw[d] \notin {"opening", "open"}
        /\ pc["ui"] \in {"closeDeviceUse", "closeReader", "quit", "join"} =>
            pc["bg"] # "openedDevice"

ReleaseInv ==
    /\ LifecycleInv
    /\ CallbacksInStep
    /\ BackgroundInStep
    /\ UiLooperDone
    /\ DeviceInReach

==============================================================================
