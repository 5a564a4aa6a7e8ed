-------------------------- MODULE PausedAcquisition --------------------------
(***************************************************************************)
(* FrameCapture under the activity's life: onPause and onResume while the  *)
(* worker is in its frame loop.  closeCamera takes the session, the device *)
(* and the reader away one after the other, on the UI thread, while the    *)
(* worker and the background looper go on; nobody tells the worker.        *)
(*                                                                         *)
(* CameraLifecycle models how the camera is opened and closed; here an     *)
(* open is one step.  FrameCapture models how a picture is taken; here its *)
(* actions happen as long as the objects they use are there, and what      *)
(* happens otherwise is added: a NullPointerException or an                *)
(* IllegalStateException that nobody catches ends the process.  The        *)
(* preview stays on the background looper (the exposure slider is not      *)
(* touched), so the other looper of FrameCapture is idle.                  *)
(***************************************************************************)
EXTENDS FrameCapture

CONSTANT MaxPauses   \* bound: how often the user leaves the activity

ASSUME PauseAssumption == MaxPauses \in Nat

VARIABLES
    ui,           \* the UI thread: in front, in onPause (where), or paused
    session,      \* mCaptureSession # null
    device,       \* mCameraDevice # null
    triggered,    \* takePicture has asked this session for a focus lock
    pauses,       \* onPause calls so far
    interrupted,  \* history: the session was closed under a request
    dropped       \* history: frames whose picture went with the reader

cameraVars == <<session, device, triggered>>
history == <<pauses, interrupted, dropped>>
pausedVars == <<vars, ui, cameraVars, history>>

PausedTypeOK ==
    /\ TypeOK
    /\ ui \in {"resumed", "closeDevice", "closeReader", "stopBackground", "paused"}
    /\ {session, device, triggered, interrupted} \subseteq BOOLEAN
    /\ pauses \in 0..MaxPauses
    /\ dropped \subseteq Frame

PausedInit ==
    /\ Init
    /\ ui = "resumed"
    /\ session = TRUE
    /\ device = TRUE
    /\ triggered = FALSE
    /\ pauses = 0
    /\ interrupted = FALSE
    /\ dropped = {}

(* An exception nobody catches.                                            *)
Crash ==
    /\ dead' = TRUE
    /\ UNCHANGED <<loopVars, cameraReady, machine, images, asked, shots>>

Quiet == UNCHANGED <<ui, cameraVars, history>>

------------------------------------------------------------------------------
(* The worker.                                                             *)

(* takePicture uses mCaptureSession without looking.                       *)
workerLocks ==
    \/ /\ session
       /\ takePictureLock
       /\ triggered' = TRUE
       /\ UNCHANGED <<ui, session, device, history>>
    \/ /\ ~session
       /\ ~dead
       /\ loop = "lock"
       /\ Crash
       /\ Quiet

worker == (nameFrame \/ takePicture \/ frameReady) /\ Quiet

------------------------------------------------------------------------------
(* The background looper.                                                  *)

(* Without a trigger in this session no result shows the focus locked.     *)
bgResult ==
    /\ onCaptureResult("bg")
    /\ \/ triggered
       \/ \E af \in AfStates \ {AF_FOCUSED_LOCKED, AF_NOT_FOCUSED_LOCKED}, ae \in AeStates :
            todo'["bg"] = process(mState, af, ae)
    /\ Quiet

bgPrecapture ==
    /\ Quiet
    /\ \/ session /\ runPrecaptureSequence("bg")
       \/ ~session /\ ~dead /\ todo["bg"] = "precapture" /\ Crash

bgPrecaptureStarted == precaptureStarted("bg") /\ Quiet

(* captureStillPicture returns at once when there is no mCameraDevice;     *)
(* its caller has set mState before.                                       *)
stillWithoutDevice ==
    /\ ~dead
    /\ todo["bg"] \in {"still", "takenStill"}
    /\ mState' = IF todo["bg"] = "takenStill" THEN STATE_PICTURE_TAKEN ELSE mState
    /\ todo' = [todo EXCEPT !["bg"] = "nothing"]
    /\ UNCHANGED <<loopVars, cameraReady, repeating, results, completions, images,
                   asked, shots, dead>>

bgStill ==
    /\ Quiet
    /\ \/ device /\ session /\ captureStillPicture("bg")
       \/ device /\ ~session /\ ~dead /\ todo["bg"] \in {"still", "takenStill"} /\ Crash
       \/ ~device /\ stillWithoutDevice

(* onCaptureCompleted of the still; unlockFocus uses mCaptureSession.      *)
bgCompleted ==
    /\ Quiet
    /\ \/ session /\ stillCompleted("bg")
       \/ ~session /\ Free("bg") /\ completions["bg"] > 0 /\ Crash

(* The saver's image was closed together with its reader.                  *)
bgImages ==
    /\ Quiet
    /\ \/ ui # "stopBackground" /\ Images
       \/ ui = "stopBackground" /\ ~dead /\ bgQueue # <<>> /\ Crash

bgPreview == previewResult /\ Quiet

------------------------------------------------------------------------------
(* The UI thread.                                                          *)

(* onPause: closeCamera ends the session and clears the field ...          *)
onPause ==
    /\ ~dead
    /\ ui = "resumed"
    /\ pauses < MaxPauses
    /\ pauses' = pauses + 1
    /\ ui' = "closeDevice"
    /\ session' = FALSE
    /\ repeating' = "none"
    /\ interrupted' = (interrupted \/ (loop = "wait" /\ ~cameraReady))
    /\ UNCHANGED <<loopVars, cameraReady, mState, todo, results, completions, images,
                   asked, shots, dead, device, triggered, dropped>>

(* ... then the device, which delivers no callback any more ...            *)
closeDevice ==
    /\ ~dead
    /\ ui = "closeDevice"
    /\ ui' = "closeReader"
    /\ device' = FALSE
    /\ results' = [results EXCEPT !["bg"] = 0]
    /\ completions' = [completions EXCEPT !["bg"] = 0]
    /\ UNCHANGED <<loopVars, cameraReady, mState, todo, repeating, images, asked, shots,
                   dead, session, triggered, history>>

(* The ImageSavers of a looper's queue, in their order.                    *)
Savers(queue) ==
    LET upTo[n \in 0..Len(queue)] ==
            IF n = 0 THEN <<>>
            ELSE IF queue[n].kind = "saver" THEN Append(upTo[n - 1], queue[n])
            ELSE upTo[n - 1]
    IN  upTo[Len(queue)]

(* ... and the reader, with the images it holds.                           *)
closeReader ==
    /\ ~dead
    /\ ui = "closeReader"
    /\ ui' = "stopBackground"
    /\ exposed' = <<>>
    /\ bgQueue' = Savers(bgQueue)
    /\ dropped' = dropped \cup OnTheWay
    /\ UNCHANGED <<loopVars, cameraReady, machine, files, asked, shots, dead, cameraVars,
                   pauses, interrupted>>

(* stopBackgroundThread: quitSafely lets the looper finish what it has,    *)
(* join waits for that.                                                    *)
stopBackgroundThread ==
    /\ ~dead
    /\ ui = "stopBackground"
    /\ todo["bg"] = "nothing"
    /\ bgQueue = <<>>
    /\ ui' = "paused"
    /\ UNCHANGED <<vars, cameraVars, history>>

onResume ==
    /\ ~dead
    /\ ui = "paused"
    /\ ui' = "resumed"
    /\ UNCHANGED <<vars, cameraVars, history>>

(* Variant: a new session tells the worker to go on.                       *)
cameraOpenedReady ==
    /\ ~dead
    /\ ui = "resumed"
    /\ ~device
    /\ device' = TRUE
    /\ session' = TRUE
    /\ triggered' = FALSE
    /\ repeating' = "bg"
    /\ cameraReady' = TRUE
    /\ UNCHANGED <<loopVars, mState, todo, results, completions, images,
                   asked, shots, dead, ui, history>>

(* Variant: a new session does not start the preview.                      *)
cameraOpenedNoPreview ==
    /\ ~dead
    /\ ui = "resumed"
    /\ ~device
    /\ device' = TRUE
    /\ session' = TRUE
    /\ triggered' = FALSE
    /\ UNCHANGED <<loopVars, cameraReady, mState, todo, repeating, results, completions, images,
                   asked, shots, dead, ui, history>>

(* onOpened and onConfigured: a new session with a new request builder;    *)
(* mState and cameraReady are as the pause left them.                      *)
cameraOpened ==
    /\ ~dead
    /\ ui = "resumed"
    /\ ~device
    /\ device' = TRUE
    /\ session' = TRUE
    /\ triggered' = FALSE
    /\ repeating' = "bg"
    /\ UNCHANGED <<loopVars, cameraReady, mState, todo, results, completions, images,
                   asked, shots, dead, ui, history>>

------------------------------------------------------------------------------
uiThread == closeDevice \/ closeReader \/ stopBackgroundThread

PausedNext ==
    \/ worker \/ workerLocks
    \/ bgResult \/ bgPrecapture \/ bgPrecaptureStarted \/ bgStill \/ bgCompleted
    \/ bgImages \/ bgPreview
    \/ onPause \/ uiThread \/ onResume \/ cameraOpened

PausedSpec == PausedInit /\ [][PausedNext]_pausedVars

(* As in FrameCapture: threads that can run do, the camera answers, and    *)
(* results with the focus locked keep coming once the lock was asked for.  *)
(* onPause gets on with its work and an open camera answers; nothing is    *)
(* assumed of when the user leaves and whether he comes back.              *)
PausedFairness ==
    /\ WF_pausedVars(worker \/ workerLocks)
    /\ SF_pausedVars(bgResult /\ todo'["bg"] = process(mState, AF_FOCUSED_LOCKED, AE_CONVERGED))
    /\ WF_pausedVars(bgCompleted)
    /\ WF_pausedVars(bgPrecapture \/ bgPrecaptureStarted \/ bgStill)
    /\ WF_pausedVars(bgImages)
    /\ WF_pausedVars(bgPreview)
    /\ WF_pausedVars(uiThread)
    /\ WF_pausedVars(cameraOpened)

PausedFairSpec == PausedSpec /\ PausedFairness

------------------------------------------------------------------------------
(* Properties.                                                             *)

(* An acquisition that has survived pauses lacks no file but those whose   *)
(* picture was in the reader when closeCamera closed it: whatever else was *)
(* cut short by a pause is either taken again or never counted as done.    *)
MissingOnlyIfDropped ==
    loop = "done" /\ ~dead /\ exposed = <<>> /\ bgQueue = <<>>
        => \A f \in Frame : files[f] = f \/ f \in dropped

(* Once the user stays, the frame loop ends, unless the process died or    *)
(* closeCamera fell between takePicture and cameraReady: only the request  *)
(* that was open at a pause can leave the worker waiting for ever.         *)
HangOnlyIfInterrupted ==
    <>[]session => <>(loop = "done" \/ dead \/ interrupted)

------------------------------------------------------------------------------
(* The inductive invariant behind MissingOnlyIfDropped: a pause disturbs   *)
(* nothing of StepInv, and a picture is in its file, on its way there, or  *)
(* went with the reader.                                                   *)
PausedInv ==
    /\ PausedTypeOK
    /\ StepInv
    /\ Kept(dropped)

==============================================================================
