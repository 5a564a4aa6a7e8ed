---------------------------- MODULE FrameCapture ----------------------------
(***************************************************************************)
(* How AcquireActivity takes the pictures of an acquisition: the frame     *)
(* loop of a run*Mode task (name the file, takePicture, wait for           *)
(* cameraReady), the state machine mState driven by the capture results    *)
(* that mCaptureCallback.process receives, the still capture, and the way  *)
(* its JPEG goes through the ImageReader and an ImageSaver into a file.    *)
(*                                                                         *)
(* Capture results reach process() on two loopers: takePicture and         *)
(* unlockFocus pass mBackgroundHandler, slideToExposuretime passes null    *)
(* and is called on the UI thread.  process() reads mState in one step and *)
(* acts on it in another, so the two can overlap.                          *)
(***************************************************************************)
EXTENDS Integers, Sequences, FiniteSets

CONSTANTS
    NFrames,       \* pictures of the acquisition
    Depth,         \* bound: capture results queued on one looper
    MaxPending,    \* bound: stills and images in flight when the slider is moved
    MaxImages,     \* maxImages of the ImageReader (2 in the code)
    AfStates,      \* CONTROL_AF_STATE values of the device's results
    AeStates,      \* CONTROL_AE_STATE values of the device's results
    Null,          \* Java's null: a partial result without the key
    OnUiThread,    \* the frame loop is runProcess.onPostExecute's, on the UI thread
    UiPreview,     \* slideToExposuretime has run, or may run during the loop
    SleepSuffices  \* mSleep before a frame lets the last image arrive

ASSUME CaptureAssumption ==
    /\ NFrames \in Nat \ {0}
    /\ Depth \in Nat \ {0}
    /\ MaxPending \in Nat
    /\ MaxImages \in Nat \ {0}
    /\ AfStates \subseteq (0..6) \cup {Null}
    /\ AeStates \subseteq (0..5) \cup {Null}
    /\ {OnUiThread, UiPreview, SleepSuffices} \subseteq BOOLEAN

VARIABLES
    frame,            \* the picture the loop is at
    loop,             \* where the loop is
    cameraReady,
    full_image_file,  \* the file that receives the next image; 0: an older one
    mState,
    todo,             \* what each looper's process() has decided and not done
    repeating,        \* the looper of the repeating request, or "none"
    results,          \* capture results queued on each looper
    completions,      \* still captures whose onCaptureCompleted is due, by looper
    exposed,          \* JPEGs on their way to the ImageReader, by frame
    bgQueue,          \* onImageAvailable calls and ImageSavers of the background looper
    files,            \* the frame whose picture each file holds; 0: none
    asked,            \* history: the frame takePicture was last called for
    shots,            \* history: still captures made for each frame (2: several)
    dead              \* an uncaught exception has ended the process

loopVars == <<frame, loop, full_image_file>>
machine == <<mState, todo, repeating, results, completions>>
images == <<exposed, bgQueue, files>>
vars == <<loopVars, cameraReady, machine, images, asked, shots, dead>>

Looper == {"ui", "bg"}
Frame == 1..NFrames

STATE_PREVIEW == 0
STATE_WAITING_LOCK == 1
STATE_WAITING_PRECAPTURE == 2
STATE_WAITING_NON_PRECAPTURE == 3
STATE_PICTURE_TAKEN == 4

AF_FOCUSED_LOCKED == 4
AF_NOT_FOCUSED_LOCKED == 5
AE_CONVERGED == 2
AE_FLASH_REQUIRED == 4
AE_PRECAPTURE == 5

Todo == {"nothing", "still", "takenStill", "precapture", "nonPrecapture"}

(* A message of the background looper: onImageAvailable for the JPEG of a  *)
(* frame, or an ImageSaver that holds it with the file it will write.      *)
QueueItem == [kind : {"available"}, img : Frame]
             \cup [kind : {"saver"}, img : Frame, file : 0..NFrames]

LoopType ==
    /\ frame \in 1..(NFrames + 1)
    /\ loop \in {"name", "take", "lock", "wait", "done"}
    /\ cameraReady \in BOOLEAN
    /\ full_image_file \in 0..NFrames
    /\ asked \in 0..NFrames
    /\ dead \in BOOLEAN

MachineType ==
    /\ mState \in 0..4
    /\ todo \in [Looper -> Todo]
    /\ repeating \in Looper \cup {"none"}
    /\ results \in [Looper -> 0..Depth]
    /\ completions \in [Looper -> Nat]

ImageType ==
    /\ exposed \in Seq(Frame)
    /\ bgQueue \in Seq(QueueItem)
    /\ files \in [0..NFrames -> 0..NFrames]
    /\ shots \in [Frame -> 0..2]

TypeOK == LoopType /\ MachineType /\ ImageType

(* The preview runs.  onConfigured started it on the background looper; a  *)
(* slideToExposuretime since then (the last task's onPostExecute, or the   *)
(* slider) has moved it to the UI looper.                                  *)
Init ==
    /\ frame = 1
    /\ loop = "name"
    /\ cameraReady = TRUE
    /\ full_image_file = 0
    /\ mState = STATE_PREVIEW
    /\ todo = [l \in Looper |-> "nothing"]
    /\ repeating \in IF UiPreview THEN Looper ELSE {"bg"}
    /\ results = [l \in Looper |-> 0]
    /\ completions = [l \in Looper |-> 0]
    /\ exposed = <<>>
    /\ bgQueue = <<>>
    /\ files = [f \in 0..NFrames |-> 0]
    /\ asked = 0
    /\ shots = [f \in Frame |-> 0]
    /\ dead = FALSE

------------------------------------------------------------------------------
(* The frame loop.                                                         *)

ImageOutstanding ==
    exposed # <<>> \/ \E i \in 1..Len(bgQueue) : bgQueue[i].kind = "available"

(* One more result on looper l, within the bound Depth.                    *)
Queued(l) == [results EXCEPT ![l] = IF @ < Depth THEN @ + 1 ELSE @]

(* Variant: the file name is one frame behind.                             *)
nameFrameOffByOne ==
    /\ ~dead
    /\ loop = "name"
    /\ SleepSuffices => ~ImageOutstanding
    /\ full_image_file' = frame - 1
    /\ cameraReady' = FALSE
    /\ loop' = "take"
    /\ UNCHANGED <<frame, machine, images, asked, shots, dead>>

(* Variant: no mSleep before the name of the next file is set.             *)
nameFrameAtOnce ==
    /\ ~dead
    /\ loop = "name"
    /\ full_image_file' = frame
    /\ cameraReady' = FALSE
    /\ loop' = "take"
    /\ UNCHANGED <<frame, machine, images, asked, shots, dead>>

(* mSleep is over: full_image_file and cameraReady are set ...             *)
nameFrame ==
    /\ ~dead
    /\ loop = "name"
    /\ SleepSuffices => ~ImageOutstanding
    /\ full_image_file' = frame
    /\ cameraReady' = FALSE
    /\ loop' = "take"
    /\ UNCHANGED <<frame, machine, images, asked, shots, dead>>

(* ... takePicture resets cameraReady once more ...                        *)
takePicture ==
    /\ ~dead
    /\ loop = "take"
    /\ cameraReady' = FALSE
    /\ loop' = "lock"
    /\ UNCHANGED <<frame, full_image_file, machine, images, asked, shots, dead>>

(* ... and asks for the focus lock.                                        *)
takePictureLock ==
    /\ ~dead
    /\ loop = "lock"
    /\ asked' = frame
    /\ mState' = STATE_WAITING_LOCK
    /\ results' = Queued("bg")
    /\ loop' = "wait"
    /\ UNCHANGED <<frame, full_image_file, cameraReady, todo, repeating,
                   completions, images, shots, dead>>

(* Variant: the loop runs to i <= length.                                  *)
frameReadyOnceMore ==
    /\ ~dead
    /\ loop = "wait"
    /\ cameraReady
    /\ frame' = frame + 1
    /\ loop' = IF frame > NFrames THEN "done" ELSE "name"
    /\ UNCHANGED <<full_image_file, cameraReady, machine, images, asked, shots, dead>>

(* while (!cameraReady) mSleep(1);                                         *)
frameReady ==
    /\ ~dead
    /\ loop = "wait"
    /\ cameraReady
    /\ frame' = frame + 1
    /\ loop' = IF frame = NFrames THEN "done" ELSE "name"
    /\ UNCHANGED <<full_image_file, cameraReady, machine, images, asked, shots, dead>>

------------------------------------------------------------------------------
(* mCaptureCallback.                                                       *)

(* Variant: mState = STATE_PICTURE_TAKEN is forgotten.                     *)
processForgetsTaken(state, af, ae) ==
    CASE state = STATE_WAITING_LOCK ->
            IF af \in {AF_FOCUSED_LOCKED, AF_NOT_FOCUSED_LOCKED} THEN "precapture"
            ELSE "nothing"
      [] state = STATE_WAITING_PRECAPTURE ->
            IF af \in {Null, AE_PRECAPTURE, AE_FLASH_REQUIRED} THEN "nonPrecapture"
            ELSE "nothing"
      [] state = STATE_WAITING_NON_PRECAPTURE ->
            IF ae # AE_PRECAPTURE THEN "still" ELSE "nothing"
      [] OTHER -> "nothing"

(* The decision of process() for a result with these AF and AE states.     *)
(* Where the code names a variable aeState it reads the AF state, except   *)
(* in STATE_WAITING_NON_PRECAPTURE.                                        *)
process(state, af, ae) ==
    CASE state = STATE_WAITING_LOCK ->
            IF af = Null THEN "still"
            ELSE IF af \notin {AF_FOCUSED_LOCKED, AF_NOT_FOCUSED_LOCKED} THEN "nothing"
            ELSE IF af = AE_CONVERGED THEN "takenStill" ELSE "precapture"
      [] state = STATE_WAITING_PRECAPTURE ->
            IF af \in {Null, AE_PRECAPTURE, AE_FLASH_REQUIRED} THEN "nonPrecapture"
            ELSE "nothing"
      [] state = STATE_WAITING_NON_PRECAPTURE ->
            IF ae # AE_PRECAPTURE THEN "takenStill" ELSE "nothing"
      [] OTHER -> "nothing"

(* A looper delivers nothing while its thread is in the frame loop.        *)
Free(l) ==
    /\ ~dead
    /\ todo[l] = "nothing"
    /\ ~(OnUiThread /\ l = "ui" /\ loop # "done")

onCaptureResult(l) ==
    /\ Free(l)
    /\ results[l] > 0
    /\ results' = [results EXCEPT ![l] = @ - 1]
    /\ \E af \in AfStates, ae \in AeStates :
        todo' = [todo EXCEPT ![l] = process(mState, af, ae)]
    /\ UNCHANGED <<loopVars, cameraReady, mState, repeating, completions, images,
                   asked, shots, dead>>

runPrecaptureSequence(l) ==
    /\ ~dead
    /\ todo[l] = "precapture"
    /\ mState' = STATE_WAITING_PRECAPTURE
    /\ results' = Queued("bg")
    /\ todo' = [todo EXCEPT ![l] = "nothing"]
    /\ UNCHANGED <<loopVars, cameraReady, repeating, completions, images, asked, shots, dead>>

precaptureStarted(l) ==
    /\ ~dead
    /\ todo[l] = "nonPrecapture"
    /\ mState' = STATE_WAITING_NON_PRECAPTURE
    /\ todo' = [todo EXCEPT ![l] = "nothing"]
    /\ UNCHANGED <<loopVars, cameraReady, repeating, results, completions, images,
                   asked, shots, dead>>

(* The still capture, with a null handler: its onCaptureCompleted comes to *)
(* the looper that ran process().  Without an AF state mState stays        *)
(* STATE_WAITING_LOCK.                                                     *)
captureStillPicture(l) ==
    /\ ~dead
    /\ todo[l] \in {"still", "takenStill"}
    /\ mState' = IF todo[l] = "takenStill" THEN STATE_PICTURE_TAKEN ELSE mState
    /\ repeating' = "none"
    /\ completions' = [completions EXCEPT ![l] = @ + 1]
    /\ exposed' = Append(exposed, asked)
    /\ shots' = [shots EXCEPT ![asked] = IF @ < 2 THEN @ + 1 ELSE @]
    /\ todo' = [todo EXCEPT ![l] = "nothing"]
    /\ UNCHANGED <<loopVars, cameraReady, results, bgQueue, files, asked, dead>>

(* Variant: unlockFocus does not restart the preview.                      *)
stillCompletedNoPreview(l) ==
    /\ Free(l)
    /\ completions[l] > 0
    /\ completions' = [completions EXCEPT ![l] = @ - 1]
    /\ results' = Queued("bg")
    /\ mState' = STATE_PREVIEW
    /\ cameraReady' = TRUE
    /\ UNCHANGED <<loopVars, todo, repeating, images, asked, shots, dead>>

(* onCaptureCompleted of a still: unlockFocus, then cameraReady.           *)
stillCompleted(l) ==
    /\ Free(l)
    /\ completions[l] > 0
    /\ completions' = [completions EXCEPT ![l] = @ - 1]
    /\ results' = Queued("bg")
    /\ mState' = STATE_PREVIEW
    /\ repeating' = "bg"
    /\ cameraReady' = TRUE
    /\ UNCHANGED <<loopVars, todo, images, asked, shots, dead>>

------------------------------------------------------------------------------
(* The images.                                                             *)

imageReady ==
    /\ ~dead
    /\ exposed # <<>>
    /\ bgQueue' = Append(bgQueue, [kind |-> "available", img |-> Head(exposed)])
    /\ exposed' = Tail(exposed)
    /\ UNCHANGED <<loopVars, cameraReady, machine, files, asked, shots, dead>>

Acquired == Cardinality({i \in 1..Len(bgQueue) : bgQueue[i].kind = "saver"})

(* acquireNextImage throws when MaxImages images are not yet closed;       *)
(* otherwise the ImageSaver gets the file name of this moment.             *)
onImageAvailable ==
    /\ ~dead
    /\ bgQueue # <<>>
    /\ Head(bgQueue).kind = "available"
    /\ \/ /\ Acquired >= MaxImages
          /\ dead' = TRUE
          /\ UNCHANGED bgQueue
       \/ /\ Acquired < MaxImages
          /\ bgQueue' = Append(Tail(bgQueue), [kind |-> "saver", img |-> Head(bgQueue).img,
                                               file |-> full_image_file])
          /\ UNCHANGED dead
    /\ UNCHANGED <<loopVars, cameraReady, machine, exposed, files, asked, shots>>

ImageSaverRun ==
    /\ ~dead
    /\ bgQueue # <<>>
    /\ Head(bgQueue).kind = "saver"
    /\ files' = [files EXCEPT ![Head(bgQueue).file] = Head(bgQueue).img]
    /\ bgQueue' = Tail(bgQueue)
    /\ UNCHANGED <<loopVars, cameraReady, machine, exposed, asked, shots, dead>>

------------------------------------------------------------------------------
(* The camera repeats the preview request; the exposure slider, or the end *)
(* of an earlier task, restarts it on the UI looper.                       *)

previewResult ==
    /\ ~dead
    /\ repeating # "none"
    /\ results[repeating] < Depth
    /\ results' = Queued(repeating)
    /\ UNCHANGED <<loopVars, cameraReady, mState, todo, repeating, completions,
                   images, asked, shots, dead>>

slideToExposuretime ==
    /\ UiPreview
    /\ Free("ui")
    /\ completions["ui"] + completions["bg"] + Len(exposed) + Len(bgQueue) <= MaxPending
    /\ repeating' = "ui"
    /\ UNCHANGED <<loopVars, cameraReady, mState, todo, results, completions,
                   images, asked, shots, dead>>

------------------------------------------------------------------------------
FrameLoop == nameFrame \/ takePicture \/ takePictureLock \/ frameReady

Callbacks(l) ==
    \/ onCaptureResult(l)
    \/ runPrecaptureSequence(l)
    \/ precaptureStarted(l)
    \/ captureStillPicture(l)
    \/ stillCompleted(l)

Images == imageReady \/ onImageAvailable \/ ImageSaverRun

Next ==
    \/ FrameLoop
    \/ \E l \in Looper : Callbacks(l)
    \/ Images
    \/ previewResult
    \/ slideToExposuretime

Spec == Init /\ [][Next]_vars

(* A result that shows the focus locked and the exposure settled.          *)
settledResult(l) ==
    /\ onCaptureResult(l)
    /\ todo'[l] = process(mState, AF_FOCUSED_LOCKED, AE_CONVERGED)

(* Threads and loopers run what they have to run, a looper gets round to   *)
(* every message it is given, and the camera answers: the preview goes on, *)
(* results keep coming in which the focus is locked, images arrive.        *)
Fairness ==
    /\ WF_vars(FrameLoop)
    /\ \A l \in Looper :
        /\ SF_vars(settledResult(l))
        /\ SF_vars(stillCompleted(l))
        /\ WF_vars(runPrecaptureSequence(l) \/ precaptureStarted(l) \/ captureStillPicture(l))
    /\ WF_vars(Images)
    /\ WF_vars(previewResult)

FairSpec == Spec /\ Fairness

------------------------------------------------------------------------------
(* Properties.                                                             *)

(* A picture taken for a later frame never ends up under the name of an    *)
(* earlier one: the name is set before takePicture and only moves forward. *)
NeverFromTheFuture == \A f \in 0..NFrames : files[f] <= f

(* Every frame the loop is past has had exactly one still capture, the     *)
(* current one at most one, the later ones none.                           *)
OnePicturePerFrame ==
    \A f \in Frame :
        /\ f < frame => shots[f] = 1
        /\ f = frame => shots[f] <= 1
        /\ f > frame => shots[f] = 0

(* A file holds the picture of its own frame or nothing yet.               *)
EachFileItsOwnFrame == \A f \in Frame : files[f] \in {0, f}

(* The ImageReader is never asked for more images than it can lend.        *)
ReaderWithinLimit == ~dead

(* The frame loop comes to its end (or the process has died).              *)
AcquisitionCompletes == <>(loop = "done" \/ dead)

(* In the end every file of the acquisition is there for good.             *)
EveryFrameSaved == <>[](\A f \in Frame : files[f] = f)

------------------------------------------------------------------------------
(* The inductive invariant behind NeverFromTheFuture.                      *)

(* Queue items that hold pictures of frames up to n and, once they have a  *)
(* file, no picture from that file's future.                               *)
Past(n) == {q \in QueueItem : q.img <= n /\ (q.kind = "saver" => q.img <= q.file)}

(* The loop's place, the file name and the frame last asked for.           *)
NamesInStep ==
    /\ loop \in {"name", "done"} => full_image_file = frame - 1
    /\ loop \in {"take", "lock", "wait"} => full_image_file = frame
    /\ loop # "done" => frame <= NFrames
    /\ asked <= full_image_file

(* Before the first takePicture the state machine rests.                   *)
RestsUntilAsked ==
    asked = 0 => mState = STATE_PREVIEW /\ \A l \in Looper : todo[l] = "nothing"

CaptureInv ==
    /\ TypeOK
    /\ NamesInStep
    /\ RestsUntilAsked
    /\ exposed \in Seq(1..asked)
    /\ bgQueue \in Seq(Past(asked))
    /\ NeverFromTheFuture

------------------------------------------------------------------------------
(* The inductive invariant behind OnePicturePerFrame, ReaderWithinLimit    *)
(* and EachFileItsOwnFrame.  They hold in a clean environment: the preview *)
(* stays on the background looper, every result has an AF state, and the   *)
(* sleep before a frame covers the last image.                             *)

Clean == ~UiPreview /\ SleepSuffices /\ Null \notin AfStates

(* Nothing reaches the UI looper.                                          *)
OneLooper ==
    /\ todo["ui"] = "nothing"
    /\ results["ui"] = 0
    /\ completions["ui"] = 0
    /\ repeating # "ui"

(* What process() has decided still fits mState when it is done.           *)
DecisionInStep ==
    /\ todo["bg"] # "still"
    /\ todo["bg"] = "precapture" => mState = STATE_WAITING_LOCK
    /\ todo["bg"] = "nonPrecapture" => mState = STATE_WAITING_PRECAPTURE
    /\ todo["bg"] = "takenStill" => mState = STATE_WAITING_NON_PRECAPTURE

(* A request is open while the loop waits and cameraReady is not set; the  *)
(* state machine rests otherwise, with no completion to come.              *)
Open == loop = "wait" /\ ~cameraReady

RequestInStep ==
    /\ asked = IF loop = "wait" THEN frame ELSE frame - 1
    /\ loop = "done" => frame = NFrames + 1
    /\ loop \in {"take", "lock"} => ~cameraReady
    /\ Open <=> mState # STATE_PREVIEW
    /\ completions["bg"] <= 1
    /\ completions["bg"] > 0 => mState = STATE_PICTURE_TAKEN

(* The stills so far: one for each frame the loop is past or has its       *)
(* cameraReady for, and for the open request none before                   *)
(* STATE_PICTURE_TAKEN.                                                    *)
ShotsInStep ==
    \A f \in Frame :
        /\ f < frame => shots[f] = 1
        /\ f > frame \/ (f = frame /\ loop # "wait") => shots[f] = 0
        /\ f = frame => shots[f] <= 1
        /\ f = frame /\ loop = "wait" /\ cameraReady => shots[f] = 1
        /\ f = frame /\ mState \in 1..3 => shots[f] = 0
        /\ f = frame /\ completions["bg"] > 0 => shots[f] = 1

(* The pictures between the sensor and their files.                        *)
Carried(onSensor, onLooper) ==
    {onSensor[i] : i \in 1..Len(onSensor)} \cup {onLooper[i].img : i \in 1..Len(onLooper)}

OnTheWay == Carried(exposed, bgQueue)

Available(f) == [kind |-> "available", img |-> f]
Saver(f) == [kind |-> "saver", img |-> f, file |-> f]

(* The background looper has at most one ImageSaver, with the right name,  *)
(* and behind it, or still on its way, at most one image: the last one     *)
(* taken.                                                                  *)
OneInFlight ==
    \/ exposed = <<>> /\ bgQueue = <<>>
    \/ exposed = <<asked>> /\ bgQueue = <<>>
    \/ exposed = <<>> /\ bgQueue = <<Available(asked)>>
    \/ \E f \in Frame : exposed = <<>> /\ bgQueue = <<Saver(f)>>
    \/ \E f \in Frame \ {asked} : exposed = <<asked>> /\ bgQueue = <<Saver(f)>>
    \/ \E f \in Frame \ {asked} : exposed = <<>> /\ bgQueue = <<Saver(f), Available(asked)>>

ImagesInStep ==
    /\ OneInFlight
    /\ ImageOutstanding => asked > 0 /\ full_image_file = asked
    /\ \A f \in OnTheWay : shots[f] = 1

(* No picture is lost but those of the frames in lost.                     *)
Held(f) == f \in OnTheWay \/ files[f] = f
Kept(lost) == \A f \in Frame : shots[f] = 1 => Held(f) \/ f \in lost

(* What holds with and without pauses; without them the still of every     *)
(* picture taken is completed, and no image finds the reader exhausted.    *)
StepInv ==
    /\ CaptureInv
    /\ OneLooper
    /\ DecisionInStep
    /\ RequestInStep
    /\ ShotsInStep
    /\ ImagesInStep
    /\ EachFileItsOwnFrame

CleanInv ==
    /\ StepInv
    /\ Kept({})
    /\ ~dead

==============================================================================
