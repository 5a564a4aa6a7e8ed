------------------------------ MODULE GammaCalib ------------------------------
(***************************************************************************)
(* The calibration of GammaCalibActivity.  findMax is an AsyncTask: its    *)
(* worker lights one sub-aperture after the other, asks for a picture,     *)
(* waits for its mean value, remembers the brightest aperture and then     *)
(* measures the gray ramp there; onPostExecute normalises the map and      *)
(* stores five preferences, each with its own commit.                      *)
(*                                                                         *)
(* Four threads take part: the UI thread (clicks, onPreExecute, the        *)
(* projector, onPostExecute), the worker of the serial executor, the       *)
(* background looper (capture results, completions, images) and the        *)
(* device.  maxValList and globalLogit belong to the activity, not to the  *)
(* task, and btnCalibrate is never disabled.                               *)
(*                                                                         *)
(* A mean value is kept with the pattern that lit its picture, which the   *)
(* code does not know.  gammaValList is left out: nothing reads it.        *)
(*                                                                         *)
(* Here the activity stays in front and nobody touches the exposure slider *)
(* or the ISO setting, so that every callback comes on the background      *)
(* looper and finds a session.  InterruptedCalib adds both.                *)
(***************************************************************************)
EXTENDS Integers, Sequences, FiniteSets

CONSTANTS
    NPos,           \* nMaxSearchApertures * nMaxSearchApertures
    NGamma,         \* nMaxSearchGamma
    Means,          \* the mean values a picture may have
    AfStates,       \* the AF states a result may carry
    AeStates,       \* its AE states
    Depth,          \* bound: results of the device not yet delivered
    MaxClicks,      \* bound: clicks on btnCalibrate
    MaxDeaths,      \* bound: deaths of the process from outside
    SleepSuffices,  \* 250 ms cover the projector and the last capture
    Null

ASSUME CalibAssumption ==
    /\ {NPos, NGamma} \subseteq Nat \ {0}
    /\ Means \subseteq Nat /\ Means # {}
    /\ {Depth, MaxClicks, MaxDeaths} \subseteq Nat
    /\ SleepSuffices \in BOOLEAN
    /\ Null \notin Int

VARIABLES
    \* the executor and the worker
    clicks,       \* findMax tasks created; task i is the i-th click
    tasks,        \* the serial executor's queue
    task,         \* the task in doInBackground, or 0
    pc,           \* where its worker is
    n,            \* measurements done: apertures first, then the ramp
    best,         \* cx_max, cy_max as the number of an aperture
    lastmeanVal,  \* the brightest mean so far
    slot,         \* ArrayList.add: the size and the value it has read
    points,       \* per task: the pictures of its gray ramp
    \* the UI thread
    uiQueue,      \* messages for the UI thread
    post,         \* where onPostExecute is, and for which task
    shown,        \* the pattern on the projector
    \* fields of the activity
    mBitmap, maxValList, maxIntensityIndex, globalLogit, cameraReady, meanVal, mState,
    \* the device and the background looper
    repeating,    \* the preview runs
    results,      \* capture results not yet delivered
    completions,  \* onCaptureCompleted messages of stills
    exposed,      \* stills whose image is not yet in the reader
    reader,       \* images in the reader
    available,    \* onImageAvailable messages
    \* the preferences and the process
    prefs,        \* the stored calibration
    life,         \* the process lives, was killed, threw, or its fit did
    deaths,       \* how often it was killed
    overtaken,    \* history: a late unlockFocus took back an open request
    disturbed     \* history: tasks that did not have the lists to themselves

workerVars == <<tasks, task, pc, n, best, lastmeanVal, slot, points>>
uiVars == <<uiQueue, post, shown>>
listVars == <<maxValList, maxIntensityIndex, globalLogit>>
deviceVars == <<repeating, results, completions, exposed, reader, available>>
ghosts == <<deaths, disturbed>>
camera == <<cameraReady, meanVal, mState, deviceVars>>
vars == <<clicks, workerVars, uiVars, mBitmap, listVars, camera, prefs, life, overtaken, ghosts>>

Pos == 1..NPos
Task == 1..MaxClicks

(* A circle at an aperture, plain (0) or with one of the ramp's grays;     *)
(* <<0, 0>> is the circle onCreate draws.                                  *)
Pattern == (0..NPos) \X (0..NGamma)

(* The mean value of a picture, with the pattern that lit it.  In          *)
(* maxValList val is what the code holds: the mean, later its percentage.  *)
(* Null stands for NaN there, and for the null that an add which raced a   *)
(* clear leaves before it.                                                 *)
Mean == [lit : Pattern, mean : Means, val : Nat \cup {Null}]

ASSUME NullAssumption == Null \notin Mean

Keys == {"Maxint", "Gamma", "maxValPosX", "maxValPosY", "Centerposition"}

STATE_PREVIEW == 0
STATE_WAITING_LOCK == 1
STATE_WAITING_PRECAPTURE == 2
STATE_WAITING_NON_PRECAPTURE == 3
STATE_PICTURE_TAKEN == 4

AF_LOCKED == {4, 5}       \* FOCUSED_LOCKED, NOT_FOCUSED_LOCKED
AE_FLASH_REQUIRED == 4
AE_PRECAPTURE == 5

Message == [kind : {"progress", "post"}, task : Task]

Stored == [Maxint : [task : 0..MaxClicks, list : Seq(Mean \cup {Null})],
           Gamma : [task : 0..MaxClicks, list : Seq(Task)],
           maxValPosX : 0..MaxClicks,
           maxValPosY : 0..MaxClicks,
           Centerposition : [task : 0..MaxClicks, index : Nat]]

WorkerType ==
    /\ clicks \in 0..MaxClicks
    /\ tasks \in Seq(Task)
    /\ task \in 0..MaxClicks
    /\ pc \in {"idle", "draw", "settle", "lock", "wait", "add", "store"}
    /\ n \in 0..(NPos + NGamma)
    /\ best \in 0..NPos
    /\ lastmeanVal \in Int
    /\ slot \in [at : Nat, mean : Mean]
    /\ points \in [Task -> Seq(Pattern)]

UiType ==
    /\ uiQueue \in Seq(Message)
    /\ post \in [at : Keys \cup {"none"}, task : 0..MaxClicks]
    /\ {mBitmap, shown} \subseteq Pattern
    /\ maxValList \in Seq(Mean \cup {Null})
    /\ maxIntensityIndex \in Nat
    /\ globalLogit \in Seq(Task)

CameraType ==
    /\ {cameraReady, repeating} \subseteq BOOLEAN
    /\ meanVal \in Mean
    /\ mState \in 0..4
    /\ results \in 0..Depth
    /\ {completions, available} \subseteq Nat
    /\ {exposed, reader} \subseteq Seq(Pattern)

StoredType ==
    /\ prefs \in Stored
    /\ life \in {"alive", "killed", "exception", "diverged"}
    /\ overtaken \in BOOLEAN
    /\ deaths \in 0..MaxDeaths
    /\ disturbed \subseteq Task

TypeOK == WorkerType /\ UiType /\ CameraType /\ StoredType

------------------------------------------------------------------------------
(* The activity as onCreate and onResume leave it, the preview running.    *)

Dark == [lit |-> <<0, 0>>, mean |-> CHOOSE v \in Means : TRUE, val |-> 0]

Init ==
    /\ clicks = 0
    /\ tasks = <<>>
    /\ task = 0
    /\ pc = "idle"
    /\ n = 0
    /\ best = 0
    /\ lastmeanVal = -1
    /\ slot = [at |-> 0, mean |-> Dark]
    /\ points = [t \in Task |-> <<>>]
    /\ uiQueue = <<>>
    /\ post = [at |-> "none", task |-> 0]
    /\ shown = <<0, 0>>
    /\ mBitmap = <<0, 0>>
    /\ maxValList = <<>>
    /\ maxIntensityIndex = 0
    /\ globalLogit = <<>>
    /\ cameraReady = TRUE
    /\ meanVal = Dark
    /\ mState = STATE_PREVIEW
    /\ repeating = TRUE
    /\ results = 0
    /\ completions = 0
    /\ exposed = <<>>
    /\ reader = <<>>
    /\ available = 0
    /\ prefs = [Maxint |-> [task |-> 0, list |-> <<>>],
               Gamma |-> [task |-> 0, list |-> <<>>],
               maxValPosX |-> 0, maxValPosY |-> 0,
               Centerposition |-> [task |-> 0, index |-> 0]]
    /\ life = "alive"
    /\ deaths = 0
    /\ overtaken = FALSE
    /\ disturbed = {}

------------------------------------------------------------------------------
(* Clicks.                                                                 *)

Alive == life = "alive"

(* The UI thread is between two messages.                                  *)
UiFree == Alive /\ post.at = "none"

Unfinished ==
    {t \in Task : \/ t \in {task, post.task}
                  \/ \E i \in DOMAIN tasks : tasks[i] = t
                  \/ \E i \in DOMAIN uiQueue : uiQueue[i] = [kind |-> "post", task |-> t]}

(* onClick and onPreExecute of findMax.  The lists are cleared now, not    *)
(* when the task starts, and not at all if the directory cannot be made.   *)
btnCalibrate ==
    /\ UiFree
    /\ clicks < MaxClicks
    /\ clicks' = clicks + 1
    /\ tasks' = Append(tasks, clicks')
    /\ \E mkdirs \in BOOLEAN :
        /\ maxValList' = IF mkdirs THEN <<>> ELSE maxValList
        /\ globalLogit' = IF mkdirs THEN <<>> ELSE globalLogit
        /\ disturbed' = IF Unfinished = {} /\ maxValList' = <<>> /\ globalLogit' = <<>>
                        THEN disturbed
                        ELSE disturbed \cup Unfinished \cup {clicks'}
    /\ UNCHANGED <<task, pc, n, best, lastmeanVal, slot, points, uiVars, mBitmap,
                   maxIntensityIndex, camera, prefs, life, overtaken, deaths>>

------------------------------------------------------------------------------
(* doInBackground.                                                         *)

Progress(t) == [kind |-> "progress", task |-> t]

WorkerOnly == UNCHANGED <<clicks, post, shown, prefs, life, overtaken, ghosts>>

start ==
    /\ Alive
    /\ pc = "idle"
    /\ tasks # <<>>
    /\ task' = Head(tasks)
    /\ tasks' = Tail(tasks)
    /\ pc' = "draw"
    /\ n' = 0
    /\ best' = 0
    /\ lastmeanVal' = -1
    /\ uiQueue' = Append(uiQueue, Progress(task'))
    /\ UNCHANGED <<slot, points, mBitmap, listVars, camera>>
    /\ WorkerOnly

(* mBitmap is drawn and the UI thread told.  n counts on from the          *)
(* apertures to the ramp; the ramp stays at the brightest aperture.        *)
getCircle == IF n < NPos THEN <<n + 1, 0>> ELSE <<best, n - NPos + 1>>

(* Variant: the ramp runs to ii <= nMaxSearchGamma.                       *)
drawOnceMore ==
    /\ Alive
    /\ pc = "draw"
    /\ n <= NPos + NGamma
    /\ mBitmap' = getCircle
    /\ pc' = "settle"
    /\ uiQueue' = Append(uiQueue, Progress(task))
    /\ UNCHANGED <<tasks, task, n, best, lastmeanVal, slot, points, listVars, camera>>
    /\ WorkerOnly

(* Variant: publishProgress is forgotten.                                 *)
drawUnpublished ==
    /\ Alive
    /\ pc = "draw"
    /\ n < NPos + NGamma
    /\ mBitmap' = getCircle
    /\ pc' = "settle"
    /\ UNCHANGED uiQueue
    /\ UNCHANGED <<tasks, task, n, best, lastmeanVal, slot, points, listVars, camera>>
    /\ WorkerOnly

draw ==
    /\ Alive
    /\ pc = "draw"
    /\ n < NPos + NGamma
    /\ mBitmap' = getCircle
    /\ pc' = "settle"
    /\ uiQueue' = Append(uiQueue, Progress(task))
    /\ UNCHANGED <<tasks, task, n, best, lastmeanVal, slot, points, listVars, camera>>
    /\ WorkerOnly

(* The projector shows the pattern and no picture is under way.  The       *)
(* completion of the last still may be: it is not what the worker waited   *)
(* for, the image was.                                                     *)
Settled ==
    /\ \A i \in DOMAIN uiQueue : uiQueue[i].kind # "progress"
    /\ exposed = <<>>
    /\ available = 0

(* The sleep is over: cameraReady is reset, here and in takePicture ...    *)
takePicture ==
    /\ Alive
    /\ pc = "settle"
    /\ SleepSuffices => Settled
    /\ cameraReady' = FALSE
    /\ pc' = "lock"
    /\ UNCHANGED <<tasks, task, n, best, lastmeanVal, slot, points, uiQueue, mBitmap,
                   listVars, meanVal, mState, deviceVars>>
    /\ WorkerOnly

(* One more result on its way, within the bound Depth.                     *)
Queued == IF results < Depth THEN results + 1 ELSE results

(* ... and the focus lock is asked for.                                    *)
takePictureLock ==
    /\ Alive
    /\ pc = "lock"
    /\ mState' = STATE_WAITING_LOCK
    /\ results' = Queued
    /\ pc' = "wait"
    /\ UNCHANGED <<tasks, task, n, best, lastmeanVal, slot, points, uiQueue, mBitmap,
                   listVars, cameraReady, meanVal, repeating, completions, exposed,
                   reader, available>>
    /\ WorkerOnly

(* Variant: the last of several brightest apertures is kept.              *)
compareNotStrict ==
    /\ Alive
    /\ pc = "wait"
    /\ cameraReady
    /\ n < NPos
    /\ IF meanVal.val >= lastmeanVal
       THEN best' = n + 1 /\ lastmeanVal' = meanVal.val
       ELSE UNCHANGED <<best, lastmeanVal>>
    /\ pc' = "add"
    /\ UNCHANGED <<tasks, task, n, slot, points, uiQueue, mBitmap, listVars, camera>>
    /\ WorkerOnly

(* while (!cameraReady): then an aperture is compared with the brightest   *)
(* so far, a gray of the ramp becomes a point of the task's own fit.       *)
compare ==
    /\ Alive
    /\ pc = "wait"
    /\ cameraReady
    /\ n < NPos
    /\ IF meanVal.val > lastmeanVal
       THEN best' = n + 1 /\ lastmeanVal' = meanVal.val
       ELSE UNCHANGED <<best, lastmeanVal>>
    /\ pc' = "add"
    /\ UNCHANGED <<tasks, task, n, slot, points, uiQueue, mBitmap, listVars, camera>>
    /\ WorkerOnly

addPoint ==
    /\ Alive
    /\ pc = "wait"
    /\ cameraReady
    /\ n >= NPos
    /\ points' = [points EXCEPT ![task] = Append(@, meanVal.lit)]
    /\ n' = n + 1
    /\ pc' = "draw"
    /\ UNCHANGED <<tasks, task, best, lastmeanVal, slot, uiQueue, mBitmap, listVars, camera>>
    /\ WorkerOnly

(* maxValList.add reads the size and then writes there; a clear on the UI  *)
(* thread may come between the two.                                        *)
addReads ==
    /\ Alive
    /\ pc = "add"
    /\ slot' = [at |-> Len(maxValList) + 1, mean |-> meanVal]
    /\ pc' = "store"
    /\ UNCHANGED <<tasks, task, n, best, lastmeanVal, points, uiQueue, mBitmap, listVars, camera>>
    /\ WorkerOnly

addWrites ==
    /\ Alive
    /\ pc = "store"
    /\ maxValList' = [i \in 1..slot.at |->
                        IF i = slot.at THEN slot.mean
                        ELSE IF i <= Len(maxValList) THEN maxValList[i] ELSE Null]
    /\ n' = n + 1
    /\ pc' = "draw"
    /\ UNCHANGED <<tasks, task, best, lastmeanVal, slot, points, uiQueue, mBitmap,
                   maxIntensityIndex, globalLogit, camera>>
    /\ WorkerOnly

(* The result goes to the UI thread and the executor takes the next task.  *)
finish ==
    /\ Alive
    /\ pc = "draw"
    /\ n = NPos + NGamma
    /\ uiQueue' = Append(uiQueue, [kind |-> "post", task |-> task])
    /\ task' = 0
    /\ pc' = "idle"
    /\ UNCHANGED <<tasks, n, best, lastmeanVal, slot, points, mBitmap, listVars, camera>>
    /\ WorkerOnly

Worker == start \/ draw \/ takePicture \/ takePictureLock \/ compare \/ addPoint
          \/ addReads \/ addWrites \/ finish

------------------------------------------------------------------------------
(* The background looper: mCaptureCallback, the stills and the images.     *)

LooperOnly == UNCHANGED <<clicks, workerVars, uiVars, mBitmap, listVars, prefs, ghosts>>

previewResult ==
    /\ Alive
    /\ repeating
    /\ results < Depth
    /\ results' = results + 1
    /\ UNCHANGED <<cameraReady, meanVal, mState, repeating, completions, exposed, reader,
                   available, life, overtaken>>
    /\ LooperOnly

(* The still is exposed to what the projector shows.                       *)
captureStillPicture ==
    /\ repeating' = FALSE
    /\ completions' = completions + 1
    /\ exposed' = Append(exposed, shown)
    /\ results' = results - 1

runPrecaptureSequence ==
    /\ mState' = STATE_WAITING_PRECAPTURE
    /\ results' = results
    /\ UNCHANGED <<repeating, completions, exposed>>

NoStill ==
    /\ results' = results - 1
    /\ UNCHANGED <<repeating, completions, exposed>>

(* Variant: mState = STATE_PICTURE_TAKEN is forgotten.                    *)
processForgetsTaken(af, ae) ==
    \/ /\ mState = STATE_WAITING_LOCK /\ af = Null
       /\ captureStillPicture
       /\ UNCHANGED mState
    \/ /\ mState = STATE_WAITING_LOCK /\ af \in AF_LOCKED
       /\ runPrecaptureSequence
    \/ /\ mState = STATE_WAITING_PRECAPTURE /\ af \in {Null, AE_PRECAPTURE, AE_FLASH_REQUIRED}
       /\ mState' = STATE_WAITING_NON_PRECAPTURE
       /\ NoStill
    \/ /\ mState = STATE_WAITING_NON_PRECAPTURE /\ ae # AE_PRECAPTURE
       /\ UNCHANGED mState
       /\ captureStillPicture

(* process() for a result with these AF and AE states.  The code reads the *)
(* AF state wherever it names a variable aeState, but for the last case.   *)
process(af, ae) ==
    \/ /\ mState = STATE_WAITING_LOCK /\ af = Null
       /\ captureStillPicture
       /\ UNCHANGED mState
    \/ /\ mState = STATE_WAITING_LOCK /\ af \in AF_LOCKED
       /\ runPrecaptureSequence
    \/ /\ mState = STATE_WAITING_PRECAPTURE /\ af \in {Null, AE_PRECAPTURE, AE_FLASH_REQUIRED}
       /\ mState' = STATE_WAITING_NON_PRECAPTURE
       /\ NoStill
    \/ /\ mState = STATE_WAITING_NON_PRECAPTURE /\ ae # AE_PRECAPTURE
       /\ mState' = STATE_PICTURE_TAKEN
       /\ captureStillPicture

(* The result is of no use in this state.                                  *)
Ignored(af, ae) ==
    \/ mState \in {STATE_PREVIEW, STATE_PICTURE_TAKEN}
    \/ mState = STATE_WAITING_LOCK /\ af # Null /\ af \notin AF_LOCKED
    \/ /\ mState = STATE_WAITING_PRECAPTURE
       /\ af \notin {Null, AE_PRECAPTURE, AE_FLASH_REQUIRED}
    \/ mState = STATE_WAITING_NON_PRECAPTURE /\ ae = AE_PRECAPTURE

ResultLeavesAlone == UNCHANGED <<cameraReady, meanVal, reader, available, life, overtaken>>

resultAdvances ==
    /\ Alive
    /\ results > 0
    /\ \E af \in AfStates, ae \in AeStates : process(af, ae)
    /\ ResultLeavesAlone
    /\ LooperOnly

resultIgnored ==
    /\ Alive
    /\ results > 0
    /\ \E af \in AfStates, ae \in AeStates : Ignored(af, ae)
    /\ NoStill
    /\ UNCHANGED mState
    /\ ResultLeavesAlone
    /\ LooperOnly

(* A picture was asked for and its still is not yet taken.                 *)
OpenRequest == mState \in {STATE_WAITING_LOCK, STATE_WAITING_PRECAPTURE,
                           STATE_WAITING_NON_PRECAPTURE}

(* Variant: the preview is not restarted.                                 *)
unlockFocusNoPreview ==
    /\ Alive
    /\ completions > 0
    /\ completions' = completions - 1
    /\ results' = Queued
    /\ mState' = STATE_PREVIEW
    /\ repeating' = repeating
    /\ overtaken' = (overtaken \/ OpenRequest)
    /\ UNCHANGED <<cameraReady, meanVal, exposed, reader, available, life>>
    /\ LooperOnly

(* onCaptureCompleted of a still: unlockFocus.  The still's image has told *)
(* the worker to go on before, so mState may already be the next request's.*)
unlockFocus ==
    /\ Alive
    /\ completions > 0
    /\ completions' = completions - 1
    /\ results' = Queued
    /\ mState' = STATE_PREVIEW
    /\ repeating' = TRUE
    /\ overtaken' = (overtaken \/ OpenRequest)
    /\ UNCHANGED <<cameraReady, meanVal, exposed, reader, available, life>>
    /\ LooperOnly

(* The reader has buffers for two images.                                  *)
imageReady ==
    /\ Alive
    /\ exposed # <<>>
    /\ Len(reader) < 2
    /\ reader' = Append(reader, Head(exposed))
    /\ exposed' = Tail(exposed)
    /\ available' = available + 1
    /\ UNCHANGED <<cameraReady, meanVal, mState, repeating, results, completions, life,
                   overtaken>>
    /\ LooperOnly

(* acquireLatestImage returns the last image and drops the others; when    *)
(* there is none, the code uses a null.                                    *)
onImageAvailable ==
    /\ Alive
    /\ available > 0
    /\ available' = available - 1
    /\ reader' = <<>>
    /\ \/ /\ reader # <<>>
          /\ \E v \in Means : meanVal' = [lit |-> reader[Len(reader)], mean |-> v, val |-> v]
          /\ cameraReady' = TRUE
          /\ UNCHANGED life
       \/ /\ reader = <<>>
          /\ life' = "exception"
          /\ UNCHANGED <<meanVal, cameraReady>>
    /\ UNCHANGED <<mState, repeating, results, completions, exposed, overtaken>>
    /\ LooperOnly

------------------------------------------------------------------------------
(* The UI thread.                                                          *)

UiOnly == UNCHANGED <<clicks, workerVars, mBitmap, camera, overtaken, ghosts>>

(* onProgressUpdate: showNextColor.                                        *)
onProgressUpdate ==
    /\ UiFree
    /\ uiQueue # <<>>
    /\ Head(uiQueue).kind = "progress"
    /\ shown' = mBitmap
    /\ uiQueue' = Tail(uiQueue)
    /\ UNCHANGED <<post, listVars, prefs, life>>
    /\ UiOnly

(* The search starts at Double.MIN_VALUE, the smallest positive number,    *)
(* and with the first index; indices count from 1 here.                    *)
getMaxIndex(list) ==
    LET positive == {i \in DOMAIN list : list[i].val # Null /\ list[i].val > 0}
    IN IF positive = {} THEN 1
       ELSE CHOOSE i \in positive : \A j \in positive :
                \/ list[j].val < list[i].val
                \/ list[j].val = list[i].val /\ i <= j

(* The loop divides by the entry at max, which it overwrites with 100 on   *)
(* its way: the entries after it are divided by 100 and times 100.  Only   *)
(* the first NPos entries are visited, and 0 / 0 is NaN.                   *)
normalize(list, max) ==
    [xi \in DOMAIN list |->
        IF xi > NPos THEN list[xi]
        ELSE [list[xi] EXCEPT !.val =
                IF Null \in {@, list[max].val} \/ list[max].val = 0 THEN Null
                ELSE IF xi <= max THEN (@ * 100) \div list[max].val ELSE @]]

Thrown ==
    \/ Len(maxValList) < NPos
    \/ \E i \in DOMAIN maxValList : maxValList[i] = Null

(* onPostExecute up to the first save: the fit, the index, the map in      *)
(* percent and the nodes of the logit curve.  fitter.fit may diverge and   *)
(* throw whatever the points are (its optimiser is external); so does a    *)
(* list that is too short or has a null in it.                             *)
onPostExecute ==
    /\ UiFree
    /\ uiQueue # <<>>
    /\ Head(uiQueue).kind = "post"
    /\ uiQueue' = Tail(uiQueue)
    /\ \/ /\ life' = "diverged"
          /\ UNCHANGED <<post, listVars>>
       \/ /\ Thrown
          /\ life' = "exception"
          /\ UNCHANGED <<post, listVars>>
       \/ /\ ~Thrown
          /\ maxIntensityIndex' = getMaxIndex(maxValList)
          /\ maxValList' = normalize(maxValList, maxIntensityIndex')
          /\ globalLogit' = Append(globalLogit, Head(uiQueue).task)
          /\ post' = [at |-> "Maxint", task |-> Head(uiQueue).task]
          /\ UNCHANGED life
    /\ UNCHANGED <<shown, prefs>>
    /\ UiOnly

(* Variant: the centre is saved before the gamma curve.                   *)
SaveCentreEarly == [Maxint |-> "Centerposition", Centerposition |-> "Gamma",
                    Gamma |-> "maxValPosX", maxValPosX |-> "maxValPosY",
                    maxValPosY |-> "none"]

(* saveArray and saveValue: one commit each, in this order.                *)
SaveAfter == [Maxint |-> "Gamma", Gamma |-> "maxValPosX", maxValPosX |-> "maxValPosY",
              maxValPosY |-> "Centerposition", Centerposition |-> "none"]

ToSave(key, t) ==
    CASE key = "Maxint" -> [task |-> t, list |-> maxValList]
      [] key = "Gamma" -> [task |-> t, list |-> globalLogit]
      [] key = "Centerposition" -> [task |-> t, index |-> maxIntensityIndex]
      [] OTHER -> t

save ==
    /\ Alive
    /\ post.at # "none"
    /\ prefs' = [prefs EXCEPT ![post.at] = ToSave(post.at, post.task)]
    /\ post' = [at |-> SaveAfter[post.at],
                task |-> IF SaveAfter[post.at] = "none" THEN 0 ELSE post.task]
    /\ UNCHANGED <<uiQueue, shown, listVars, life>>
    /\ UiOnly

Ui == onProgressUpdate \/ onPostExecute \/ save

------------------------------------------------------------------------------
(* The process may be killed at any moment, and started again.             *)

kill ==
    /\ Alive
    /\ deaths < MaxDeaths
    /\ life' = "killed"
    /\ deaths' = deaths + 1
    /\ UNCHANGED <<clicks, workerVars, uiVars, mBitmap, listVars, camera, prefs, overtaken,
                   disturbed>>

restart ==
    /\ ~Alive
    /\ life' = "alive"
    /\ tasks' = <<>>
    /\ task' = 0
    /\ pc' = "idle"
    /\ uiQueue' = <<>>
    /\ post' = [at |-> "none", task |-> 0]
    /\ shown' = <<0, 0>>
    /\ mBitmap' = <<0, 0>>
    /\ maxValList' = <<>>
    /\ maxIntensityIndex' = 0
    /\ globalLogit' = <<>>
    /\ cameraReady' = TRUE
    /\ meanVal' = Dark
    /\ mState' = STATE_PREVIEW
    /\ repeating' = TRUE
    /\ results' = 0
    /\ completions' = 0
    /\ exposed' = <<>>
    /\ reader' = <<>>
    /\ available' = 0
    /\ overtaken' = FALSE
    /\ UNCHANGED <<clicks, n, best, lastmeanVal, slot, points, prefs, ghosts>>

Looper == previewResult \/ resultAdvances \/ resultIgnored \/ unlockFocus
          \/ imageReady \/ onImageAvailable

Next == btnCalibrate \/ Worker \/ Looper \/ Ui \/ kill \/ restart

Spec == Init /\ [][Next]_vars

(* The threads run, the device answers, and a lens that hunts locks in the *)
(* end.  Nobody has to click, and nobody has to start the app again.       *)
FairSpec ==
    /\ Spec
    /\ WF_vars(Worker)
    /\ WF_vars(Ui)
    /\ WF_vars(previewResult)
    /\ SF_vars(resultAdvances)
    /\ WF_vars(resultAdvances \/ resultIgnored)
    /\ WF_vars(unlockFocus)
    /\ WF_vars(imageReady)
    /\ WF_vars(onImageAvailable)

------------------------------------------------------------------------------
(* What the calibration promises.                                          *)

(* A task that had the lists to itself stores a map of all apertures,      *)
(* each value measured under its own aperture, although the projector, the *)
(* camera and the worker only wait for each other by sleeping              *)
(* (doInBackground, onImageAvailable).                                     *)
MapOfOwnApertures ==
    LET stored == prefs.Maxint
    IN stored.task \notin disturbed \cup {0} =>
        /\ Len(stored.list) = NPos
        /\ \A xi \in Pos : stored.list[xi].lit = <<xi, 0>>

(* The centre that onPostExecute finds in the list with getMaxIndex is the *)
(* aperture that doInBackground kept as cx_max, cy_max and lit with the    *)
(* ramp: the stored gamma curve was measured at the stored centre, and all *)
(* of its grays were.                                                      *)
RampAtTheCentre ==
    LET centre == prefs.Centerposition
    IN centre.task \notin disturbed \cup {0} =>
        points[centre.task] = [ii \in 1..NGamma |-> <<centre.index, ii>>]

(* Whenever the process is killed, the five commits of onPostExecute leave *)
(* a prefix of one calibration over its predecessor: a stored centre never *)
(* comes before the arrays it points into.  Each kill, and the saving that *)
(* is under way, add at most one border between two calibrations, and the  *)
(* next calibration that ends removes them all.                            *)
StoredAsAPrefix ==
    LET commit == <<prefs.Maxint.task, prefs.Gamma.task, prefs.maxValPosX,
                    prefs.maxValPosY, prefs.Centerposition.task>>
        borders == {i \in 1..4 : commit[i] # commit[i + 1]}
        saving == IF post.at = "none" THEN 0 ELSE 1
    IN /\ \A i \in borders : commit[i] > commit[i + 1]
       /\ Cardinality(borders) <= deaths + saving

(* Every calibration ends, also the ones queued behind another: the        *)
(* worker's wait for cameraReady is always answered (takePicture,          *)
(* unlockFocus, onImageAvailable) unless the process dies or the           *)
(* unlockFocus of the still before came only after the next takePicture    *)
(* and overwrote its STATE_WAITING_LOCK.                                   *)
CalibrationEnds ==
    \A t \in Task : t \in Unfinished ~> (t \notin Unfinished \/ ~Alive \/ overtaken)

(* "normalize maxValues": the stored map holds each mean in percent of the *)
(* largest one (onPostExecute).                                            *)
MapInPercent ==
    LET stored == prefs.Maxint
    IN stored.task \notin disturbed \cup {0} =>
        \A xi \in Pos, max \in Pos :
            /\ \A j \in Pos : stored.list[j].mean <= stored.list[max].mean
            /\ stored.list[max].mean > 0
            => stored.list[xi].val = (stored.list[xi].mean * 100) \div stored.list[max].mean

------------------------------------------------------------------------------
(* The inductive invariants behind these properties, for a device that     *)
(* reports its AF state.                                                   *)

ReportsAf == Null \notin AfStates

WorkerInStep ==
    /\ task \in Task <=> pc # "idle"
    /\ pc \notin {"idle", "draw"} => n < NPos + NGamma
    /\ pc \in {"add", "store"} => n < NPos
    /\ meanVal.val # Null

TypeInv == TypeOK /\ WorkerInStep

(* The projector shows mBitmap unless it will be told to, and a picture is *)
(* asked for when it does.                                                 *)
NoProgress == \A i \in 1..Len(uiQueue) : uiQueue[i].kind # "progress"

LampInStep ==
    /\ NoProgress => shown = mBitmap
    /\ pc \in {"settle", "lock", "wait"} => mBitmap = getCircle
    /\ pc \in {"lock", "wait"} => NoProgress

Lit(images) == \A i \in 1..Len(images) : images[i] = getCircle

(* One still at a time: it is on its way only while the worker waits for   *)
(* it, and then its mean value is there until the worker has used it.      *)
CameraInStep ==
    /\ available = Len(reader)
    /\ Len(exposed) + Len(reader) <= 1
    /\ exposed # <<>> \/ reader # <<>> => pc = "wait" /\ ~cameraReady
    /\ Lit(exposed) /\ Lit(reader)
    /\ pc = "lock" => ~cameraReady
    /\ (pc = "wait" /\ cameraReady) \/ pc \in {"add", "store"} => meanVal.lit = getCircle
    /\ OpenRequest => pc = "wait" /\ ~cameraReady /\ exposed = <<>> /\ reader = <<>>

(* Tasks are numbered by the clicks, and pass from the executor's queue to *)
(* the worker, to the UI thread and to the preferences in this order.      *)
IsPost(m) == m.kind = "post"

BeforeQueued(t) == t <= clicks /\ \A i \in 1..Len(tasks) : t < tasks[i]
BeforeWorker(t) == BeforeQueued(t) /\ (task # 0 => t < task)
BeforePosted(t) == BeforeWorker(t) /\ \A i \in 1..Len(uiQueue) :
                                        IsPost(uiQueue[i]) => t < uiQueue[i].task

Commit == <<prefs.Maxint.task, prefs.Gamma.task, prefs.maxValPosX, prefs.maxValPosY,
            prefs.Centerposition.task>>

TasksInOrder ==
    /\ \A j \in 1..Len(tasks) :
        tasks[j] <= clicks /\ \A i \in 1..(j - 1) : tasks[i] < tasks[j]
    /\ BeforeQueued(task)
    /\ \A j \in 1..Len(uiQueue) : IsPost(uiQueue[j]) =>
        /\ BeforeWorker(uiQueue[j].task)
        /\ \A i \in 1..(j - 1) : IsPost(uiQueue[i]) => uiQueue[i].task < uiQueue[j].task
    /\ BeforePosted(post.task)
    /\ \A i \in 1..5 : BeforePosted(Commit[i])

(* The commits before the next one are of the task that is being saved,    *)
(* the others of earlier ones; its first commit may add a border.          *)
Rank == [Maxint |-> 1, Gamma |-> 2, maxValPosX |-> 3, maxValPosY |-> 4, Centerposition |-> 5]

Borders == {i \in 1..4 : Commit[i] # Commit[i + 1]}

SavingInOrder ==
    /\ post.at = "none" <=> post.task = 0
    /\ \A i \in 1..4 : Commit[i] >= Commit[i + 1]
    /\ post.at # "none" => \A i \in 1..5 :
        IF i < Rank[post.at] THEN Commit[i] = post.task ELSE Commit[i] < post.task
    /\ Cardinality(Borders) <= deaths + IF post.at \in {"none", "Maxint"} THEN 0 ELSE 1
    /\ life = "killed" => Cardinality(Borders) <= deaths
    /\ life \in {"exception", "diverged"} => post.at = "none"

StoredInv == TypeInv /\ LampInStep /\ CameraInStep /\ TasksInOrder /\ SavingInOrder

(* A task that was never disturbed is alone.                               *)
Alone == \A t \in Unfinished \ disturbed : Unfinished = {t}

(* The first of the largest values.                                        *)
IsFirstMax(list, b) ==
    /\ b \in 1..Len(list)
    /\ \A j \in 1..Len(list) :
        list[j].val < list[b].val \/ (list[j].val = list[b].val /\ b <= j)

MapOf(list) == \A i \in 1..Len(list) : list[i] \in Mean /\ list[i].lit = <<i, 0>>
Measured(list) == MapOf(list) /\ \A i \in 1..Len(list) : list[i].val # Null

BestSoFar(list) ==
    IF list = <<>> THEN lastmeanVal = -1
    ELSE IsFirstMax(list, best) /\ lastmeanVal = list[best].val

Ramp(t, centre) == \A ii \in 1..Len(points[t]) : points[t][ii] = <<centre, ii>>

(* The list and the ramp of an undisturbed task, in each of its stages.    *)
QueuedInStep(t) == maxValList = <<>>

RunningInStep(t) ==
    /\ Measured(maxValList)
    /\ Len(maxValList) = IF n < NPos THEN n ELSE NPos
    /\ Len(points[t]) = IF n < NPos THEN 0 ELSE n - NPos
    /\ Ramp(t, best)
    /\ BestSoFar(IF pc \in {"add", "store"} THEN Append(maxValList, meanVal) ELSE maxValList)
    /\ pc = "store" => slot = [at |-> Len(maxValList) + 1, mean |-> meanVal]

PostedInStep(t) ==
    /\ Measured(maxValList) /\ Len(maxValList) = NPos
    /\ IsFirstMax(maxValList, best)
    /\ Len(points[t]) = NGamma /\ Ramp(t, best)

SavedInStep(t) ==
    /\ MapOf(maxValList) /\ Len(maxValList) = NPos
    /\ Len(points[t]) = NGamma /\ Ramp(t, maxIntensityIndex)

ListsInStep ==
    /\ \A t \in Task :
        t > clicks \/ (\E i \in 1..Len(tasks) : tasks[i] = t) => points[t] = <<>>
    /\ \A i \in 1..Len(tasks) : tasks[i] \notin disturbed => QueuedInStep(tasks[i])
    /\ task \notin disturbed \cup {0} => RunningInStep(task)
    /\ \A i \in 1..Len(uiQueue) :
        IsPost(uiQueue[i]) /\ uiQueue[i].task \notin disturbed => PostedInStep(uiQueue[i].task)
    /\ post.task \notin disturbed \cup {0} => SavedInStep(post.task)

CalibInv ==
    /\ StoredInv
    /\ Alone
    /\ ListsInStep
    /\ MapOfOwnApertures
    /\ RampAtTheCentre

==============================================================================
