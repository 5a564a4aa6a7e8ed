--------------------------- MODULE InterruptedCalib ---------------------------
(***************************************************************************)
(* GammaCalib while the user leaves the activity and comes back, or moves  *)
(* the exposure slider, in the middle of a calibration.                    *)
(*                                                                         *)
(* onPause closes the session, the device and the reader one after the     *)
(* other under the worker and the background looper; what they do with a   *)
(* null mCaptureSession is not caught and ends the process.                *)
(*                                                                         *)
(* slideToExposuretime and setISO restart the preview with a null handler, *)
(* on the UI thread: from then on its results, and the completions of the  *)
(* stills taken there, come on the UI looper, until an unlockFocus puts    *)
(* the preview back.  So process() runs on two loopers over one mState; it *)
(* reads mState in one step and acts in another, as in FrameCapture.       *)
(* results and completions of GammaCalib are the background looper's here. *)
(*                                                                         *)
(* The process is not killed here, and not started again.                  *)
(***************************************************************************)
EXTENDS GammaCalib

CONSTANTS
    MaxPauses,    \* bound: how often the user leaves the activity
    MaxTouches    \* bound: how often the slider or the ISO setting is used

ASSUME InterruptAssumption == {MaxPauses, MaxTouches} \subseteq Nat

VARIABLES
    ui,             \* the activity: in front, in onPause (where), or paused
    session,        \* mCaptureSession # null
    device,         \* mCameraDevice # null
    triggered,      \* takePicture has asked this session for a focus lock
    preview,        \* the looper that the repeating request reports to
    todo,           \* what each looper's process() has decided and not done
    uiResults,      \* capture results on the UI looper
    uiCompletions,  \* onCaptureCompleted messages of stills there
    pauses,         \* onPause calls so far
    touches,        \* calls of slideToExposuretime and setISO so far
    interrupted,    \* history: the session was closed under a request
    stills,         \* history: stills since takePicture was last called (2: several)
    raced           \* history: some request got more than one still

sessionVars == <<session, device, triggered>>
uiLooperVars == <<preview, todo, uiResults, uiCompletions>>
history == <<pauses, touches, interrupted, stills, raced>>
added == <<ui, sessionVars, uiLooperVars, history>>
allVars == <<vars, added>>

Loopers == {"bg", "ui"}

Decisions == {"nothing", "still", "takenStill", "precapture", "nonPrecapture"}

InterruptedTypeOK ==
    /\ TypeOK
    /\ ui \in {"resumed", "closeDevice", "closeReader", "stopBackground", "paused"}
    /\ {session, device, triggered, interrupted, raced} \subseteq BOOLEAN
    /\ preview \in Loopers
    /\ todo \in [Loopers -> Decisions]
    /\ uiResults \in 0..Depth
    /\ uiCompletions \in Nat
    /\ stills \in 0..2
    /\ pauses \in 0..MaxPauses
    /\ touches \in 0..MaxTouches

InterruptedInit ==
    /\ Init
    /\ ui = "resumed"
    /\ session = TRUE
    /\ device = TRUE
    /\ triggered = FALSE
    /\ preview = "bg"
    /\ todo = [l \in Loopers |-> "nothing"]
    /\ uiResults = 0
    /\ uiCompletions = 0
    /\ pauses = 0
    /\ touches = 0
    /\ interrupted = FALSE
    /\ stills = 0
    /\ raced = FALSE

(* An exception nobody catches.                                            *)
Fails ==
    /\ life' = "exception"
    /\ UNCHANGED <<clicks, workerVars, uiVars, mBitmap, listVars, camera, prefs, overtaken,
                   ghosts, added>>

------------------------------------------------------------------------------
(* The worker.                                                             *)

(* The 250 ms also let a looper end the process() it is in.                *)
Calm == \A l \in Loopers : todo[l] = "nothing"

worker ==
    \/ /\ start \/ draw \/ compare \/ addPoint \/ addReads \/ addWrites \/ finish
       /\ UNCHANGED added
    \/ /\ takePicture
       /\ SleepSuffices => Calm
       /\ stills' = 0
       /\ UNCHANGED <<ui, sessionVars, uiLooperVars, pauses, touches, interrupted, raced>>

(* takePicture uses mCaptureSession without looking.                       *)
workerLocks ==
    \/ /\ session
       /\ takePictureLock
       /\ triggered' = TRUE
       /\ UNCHANGED <<ui, session, device, uiLooperVars, history>>
    \/ /\ ~session
       /\ Alive
       /\ pc = "lock"
       /\ Fails

------------------------------------------------------------------------------
(* The device and the two loopers.                                         *)

(* A looper between two messages.  The background thread ends with onPause *)
(* and begins with onResume; the UI thread is busy in onPause.             *)
Free(l) ==
    /\ Alive
    /\ todo[l] = "nothing"
    /\ IF l = "bg" THEN ui # "paused" ELSE UiFree /\ ui \in {"resumed", "paused"}

previewResults ==
    \/ preview = "bg" /\ previewResult /\ UNCHANGED added
    \/ /\ preview = "ui"
       /\ Alive
       /\ repeating
       /\ uiResults < Depth
       /\ uiResults' = uiResults + 1
       /\ UNCHANGED <<vars, ui, sessionVars, preview, todo, uiCompletions, history>>

(* Variant: mState = STATE_PICTURE_TAKEN is forgotten.                    *)
decisionForgetsTaken(af, ae) ==
    CASE mState = STATE_WAITING_LOCK /\ af = Null -> "still"
      [] mState = STATE_WAITING_LOCK /\ af \in AF_LOCKED -> "precapture"
      [] mState = STATE_WAITING_PRECAPTURE
            /\ af \in {Null, AE_PRECAPTURE, AE_FLASH_REQUIRED} -> "nonPrecapture"
      [] mState = STATE_WAITING_NON_PRECAPTURE /\ ae # AE_PRECAPTURE -> "still"
      [] OTHER -> "nothing"

(* What process() will do about a result, by the mState it reads.          *)
decision(af, ae) ==
    CASE mState = STATE_WAITING_LOCK /\ af = Null -> "still"
      [] mState = STATE_WAITING_LOCK /\ af \in AF_LOCKED -> "precapture"
      [] mState = STATE_WAITING_PRECAPTURE
            /\ af \in {Null, AE_PRECAPTURE, AE_FLASH_REQUIRED} -> "nonPrecapture"
      [] mState = STATE_WAITING_NON_PRECAPTURE /\ ae # AE_PRECAPTURE -> "takenStill"
      [] OTHER -> "nothing"

(* A result with these states reaches process() on looper l.  Without a    *)
(* trigger in this session no result shows the focus locked.               *)
decide(l, af, ae) ==
    /\ Free(l)
    /\ triggered \/ af \notin AF_LOCKED
    /\ \/ l = "bg" /\ results > 0 /\ results' = results - 1 /\ UNCHANGED uiResults
       \/ l = "ui" /\ uiResults > 0 /\ uiResults' = uiResults - 1 /\ UNCHANGED results
    /\ todo' = [todo EXCEPT ![l] = decision(af, ae)]
    /\ UNCHANGED <<mState, repeating, completions, exposed, ui, sessionVars, preview,
                   uiCompletions, history>>
    /\ ResultLeavesAlone
    /\ LooperOnly

(* The looper has done what it decided.                                    *)
Done(l) == todo' = [todo EXCEPT ![l] = "nothing"]

precapture(l) ==
    /\ Alive
    /\ todo[l] = "precapture"
    /\ \/ ~session /\ Fails
       \/ /\ session
          /\ mState' = STATE_WAITING_PRECAPTURE
          /\ results' = Queued
          /\ Done(l)
          /\ UNCHANGED <<repeating, completions, exposed, ui, sessionVars, preview, uiResults,
                         uiCompletions, history>>
          /\ ResultLeavesAlone
          /\ LooperOnly

nonPrecapture(l) ==
    /\ Alive
    /\ todo[l] = "nonPrecapture"
    /\ mState' = STATE_WAITING_NON_PRECAPTURE
    /\ Done(l)
    /\ UNCHANGED <<repeating, results, completions, exposed, ui, sessionVars, preview,
                   uiResults, uiCompletions, history>>
    /\ ResultLeavesAlone
    /\ LooperOnly

(* captureStillPicture on looper l, after its caller's mState: it returns  *)
(* at once without a mCameraDevice.  The null handler of its capture makes *)
(* the completion come on the same looper.                                 *)
stillTaken(l) ==
    /\ repeating' = FALSE
    /\ exposed' = Append(exposed, shown)
    /\ stills' = IF stills = 0 THEN 1 ELSE 2
    /\ raced' = (raced \/ stills # 0)
    /\ \/ l = "bg" /\ completions' = completions + 1 /\ UNCHANGED uiCompletions
       \/ l = "ui" /\ uiCompletions' = uiCompletions + 1 /\ UNCHANGED completions

still(l) ==
    /\ Alive
    /\ todo[l] \in {"still", "takenStill"}
    /\ \/ device /\ ~session /\ Fails
       \/ /\ device => session
          /\ mState' = IF todo[l] = "takenStill" THEN STATE_PICTURE_TAKEN ELSE mState
          /\ Done(l)
          /\ \/ device /\ stillTaken(l)
             \/ ~device /\ UNCHANGED <<repeating, exposed, stills, raced, completions,
                                     uiCompletions>>
          /\ UNCHANGED <<results, ui, sessionVars, preview, uiResults, pauses, touches,
                         interrupted>>
          /\ ResultLeavesAlone
          /\ LooperOnly

completed(l) ==
    \/ l = "bg" /\ completions > 0 /\ completions' = completions - 1 /\ UNCHANGED uiCompletions
    \/ l = "ui" /\ uiCompletions > 0 /\ uiCompletions' = uiCompletions - 1
       /\ UNCHANGED completions

(* onCaptureCompleted of a still on its looper: unlockFocus, which puts    *)
(* the preview back on the background looper.                              *)
unlock(l) ==
    /\ Free(l)
    /\ \/ /\ ~session
          /\ IF l = "bg" THEN completions > 0 ELSE uiCompletions > 0
          /\ Fails
       \/ /\ session
          /\ completed(l)
          /\ results' = Queued
          /\ mState' = STATE_PREVIEW
          /\ repeating' = TRUE
          /\ preview' = "bg"
          /\ overtaken' = (overtaken \/ OpenRequest)
          /\ UNCHANGED <<cameraReady, meanVal, exposed, reader, available, life, ui, sessionVars,
                         todo, uiResults, history>>
          /\ LooperOnly

images ==
    /\ imageReady \/ (Free("bg") /\ onImageAvailable)
    /\ UNCHANGED added

------------------------------------------------------------------------------
(* The UI thread.                                                          *)

click == ui = "resumed" /\ Free("ui") /\ btnCalibrate /\ UNCHANGED added

messages ==
    /\ save \/ (Free("ui") /\ (onProgressUpdate \/ onPostExecute))
    /\ UNCHANGED added

(* The slider, or setISO: without a session the NullPointerException is    *)
(* caught.  A preview that captureStillPicture has stopped starts again.   *)
slideToExposuretime ==
    /\ ui = "resumed"
    /\ Free("ui")
    /\ touches < MaxTouches
    /\ touches' = touches + 1
    /\ preview' = IF session THEN "ui" ELSE preview
    /\ repeating' = (repeating \/ session)
    /\ UNCHANGED <<clicks, workerVars, uiVars, mBitmap, listVars, cameraReady, meanVal, mState,
                   results, completions, exposed, reader, available, prefs, life, overtaken,
                   ghosts, ui, sessionVars, todo, uiResults, uiCompletions, pauses,
                   interrupted, stills, raced>>

(* What a step of onPause and onResume leaves alone.                       *)
LifeOnly == UNCHANGED <<clicks, workerVars, uiVars, mBitmap, listVars, prefs, life, overtaken,
                        ghosts, meanVal, mState, todo, touches, stills, raced>>

(* onPause: closeCamera ends the session and clears the field ...          *)
onPause ==
    /\ ui = "resumed"
    /\ Free("ui")
    /\ pauses < MaxPauses
    /\ pauses' = pauses + 1
    /\ ui' = "closeDevice"
    /\ session' = FALSE
    /\ repeating' = FALSE
    /\ interrupted' = (interrupted \/ (pc = "wait" /\ ~cameraReady))
    /\ UNCHANGED <<cameraReady, results, completions, exposed, reader, available, device,
                   triggered, preview, uiResults, uiCompletions>>
    /\ LifeOnly

(* ... then the device, which delivers no callback any more ...            *)
closeDevice ==
    /\ Alive
    /\ ui = "closeDevice"
    /\ ui' = "closeReader"
    /\ device' = FALSE
    /\ results' = 0 /\ uiResults' = 0
    /\ completions' = 0 /\ uiCompletions' = 0
    /\ UNCHANGED <<cameraReady, repeating, exposed, reader, available, session, triggered,
                   preview, pauses, interrupted>>
    /\ LifeOnly

(* ... and the reader with its images, also the one that onImageAvailable  *)
(* is copying at that moment.                                              *)
closeReader ==
    /\ Alive
    /\ ui = "closeReader"
    /\ \/ available > 0 /\ reader # <<>> /\ Fails
       \/ /\ ui' = "stopBackground"
          /\ exposed' = <<>>
          /\ reader' = <<>>
          /\ available' = 0
          /\ UNCHANGED <<cameraReady, repeating, results, completions, sessionVars, preview,
                         uiResults, uiCompletions, pauses, interrupted>>
          /\ LifeOnly

(* stopBackgroundThread waits for the looper to end what it is doing.      *)
stopBackgroundThread ==
    /\ Alive
    /\ ui = "stopBackground"
    /\ todo["bg"] = "nothing"
    /\ ui' = "paused"
    /\ UNCHANGED <<vars, sessionVars, uiLooperVars, history>>

onResume ==
    /\ ui = "paused"
    /\ Free("ui")
    /\ ui' = "resumed"
    /\ UNCHANGED <<vars, sessionVars, uiLooperVars, history>>

(* Variant: a new session tells the worker to go on.                       *)
cameraOpenedReady ==
    /\ ui = "resumed"
    /\ Free("bg")
    /\ ~device
    /\ device' = TRUE
    /\ session' = TRUE
    /\ triggered' = FALSE
    /\ repeating' = TRUE
    /\ preview' = "bg"
    /\ cameraReady' = TRUE
    /\ UNCHANGED <<results, completions, exposed, reader, available, ui, uiResults,
                   uiCompletions, pauses, interrupted>>
    /\ LifeOnly

(* Variant: a new session does not start the preview.                      *)
cameraOpenedNoPreview ==
    /\ ui = "resumed"
    /\ Free("bg")
    /\ ~device
    /\ device' = TRUE
    /\ session' = TRUE
    /\ triggered' = FALSE
    /\ UNCHANGED <<repeating, preview, cameraReady, results, completions, exposed, reader,
                   available, ui, uiResults, uiCompletions, pauses, interrupted>>
    /\ LifeOnly

(* onOpened and onConfigured: a new session, reader and request builder;   *)
(* mState and cameraReady are as the pause left them.                      *)
cameraOpened ==
    /\ ui = "resumed"
    /\ Free("bg")
    /\ ~device
    /\ device' = TRUE
    /\ session' = TRUE
    /\ triggered' = FALSE
    /\ repeating' = TRUE
    /\ preview' = "bg"
    /\ UNCHANGED <<cameraReady, results, completions, exposed, reader, available, ui, uiResults,
                   uiCompletions, pauses, interrupted>>
    /\ LifeOnly

------------------------------------------------------------------------------
result(l) == \E af \in AfStates, ae \in AeStates : decide(l, af, ae)

acts(l) == precapture(l) \/ nonPrecapture(l) \/ still(l)

closing == closeDevice \/ closeReader \/ stopBackgroundThread

InterruptedNext ==
    \/ worker \/ workerLocks
    \/ previewResults
    \/ \E l \in Loopers : result(l) \/ acts(l) \/ unlock(l)
    \/ images
    \/ click \/ messages \/ slideToExposuretime
    \/ onPause \/ closing \/ onResume \/ cameraOpened

InterruptedSpec == InterruptedInit /\ [][InterruptedNext]_allVars

(* The threads run and the device answers; once the lock was asked for,    *)
(* results with the focus locked and the exposure converged keep coming.   *)
(* Nothing is assumed of when the user leaves, or whether he comes back.   *)
InterruptedFairness ==
    /\ WF_allVars(worker \/ workerLocks)
    /\ WF_allVars(previewResults)
    /\ SF_allVars(\E l \in Loopers, af \in AF_LOCKED, ae \in AeStates \ {AE_PRECAPTURE} :
                    decide(l, af, ae))
    /\ \A l \in Loopers : WF_allVars(acts(l)) /\ WF_allVars(unlock(l))
    /\ WF_allVars(images)
    /\ WF_allVars(messages)
    /\ WF_allVars(closing)
    /\ WF_allVars(cameraOpened)

InterruptedFairSpec == InterruptedSpec /\ InterruptedFairness

------------------------------------------------------------------------------
(* Properties.                                                             *)

(* What ends the process.  But for a fit that diverges, no exception       *)
(* leaves findMax or the callbacks unless two clicks shared the lists, the *)
(* camera was closed at that moment (takePicture, runPrecaptureSequence,   *)
(* captureStillPicture and unlockFocus use a null mCaptureSession), or one *)
(* request got two stills, so that acquireLatestImage may take both.  And  *)
(* only after the slider was used does a request get two: a session opened *)
(* later inherits nothing that throws.                                     *)
ThrowsOnlyIfInterrupted ==
    /\ life = "exception" => disturbed # {} \/ ~session \/ raced
    /\ raced => touches > 0

(* Once the user stays, a calibration ends, unless the process dies, the   *)
(* session was closed under an open request, or a late unlockFocus took    *)
(* the request back: neither a second looper with an old decision nor a    *)
(* new session with the old mState makes the worker wait for ever.         *)
EndsUnlessTakenBack ==
    <>[]session =>
        \A t \in Task : t \in Unfinished ~>
            (t \notin Unfinished \/ ~Alive \/ overtaken \/ interrupted)

==============================================================================
