---------------------------- MODULE AcquireTasks ----------------------------
(***************************************************************************)
(* The acquisitions of AcquireActivity: the buttons, sliders and settings  *)
(* on the UI thread, the AsyncTasks they start (run*Mode, runCapture,      *)
(* runProcess) on the serial executor's worker, the messages the tasks     *)
(* post back to the UI thread, and the fields all of them share: mBitmap,  *)
(* the g_*_path directories, full_image_file and cameraReady.              *)
(*                                                                         *)
(* The camera is abstract: process() makes a request into a still, lit by  *)
(* what the projector shows at that moment; its completion resets mState   *)
(* and sets cameraReady, its image is saved under the name found on        *)
(* arrival.  The callbacks come on the background looper or, once          *)
(* slideToExposuretime has restarted the preview with a null handler, on   *)
(* the UI looper (FrameCapture looks inside process()).                    *)
(***************************************************************************)
EXTENDS Integers, Sequences

CONSTANTS
    Modes,         \* acquisition modes the settings offer
    Rotations,     \* rotation_Angle.length of runDPCMode (4 in the code)
    Counts,        \* values of mmCount the user may set
    MaxEvents,     \* bound on the user's actions
    Controls,      \* the controls the user touches
    Careful,       \* the user acts only when everything is quiet
    SleepSuffices, \* mSleep before a picture lets messages and images arrive
    Prompt         \* no looper reads mState while the other is about to capture

ASSUME TasksAssumption ==
    /\ Modes \subseteq {"BF", "MM", "DF", "FPM", "DPC"}
    /\ "DPC" \in Modes
    /\ Rotations \in Nat \ {0}
    /\ Counts \subseteq Nat
    /\ Counts # {}
    /\ MaxEvents \in Nat
    /\ Controls \subseteq {"acquire", "background", "capture", "process", "slider", "settings",
                     "exposure"}
    /\ {Careful, SleepSuffices, Prompt} \subseteq BOOLEAN

VARIABLES
    clock,             \* user actions so far: timestamps and task identities
    acquireType,
    mmCount,
    acquireBackground,
    g_path,            \* g_<mode>_path of each mode, g_Capture_path
    g_path_BG,         \* g_<mode>_path_BG of each mode
    enabled,           \* btnAcquire, btnProcess and btnSetup are enabled
    queue,             \* tasks of the serial executor, the running one first
    worker,            \* where the running task is
    frame,             \* its loop counters
    uiQueue,           \* progress updates and finished tasks for the UI thread
    ui,                \* "idle", or where runProcess.onPostExecute is
    mBitmap,           \* the pattern to be shown
    screen,            \* the pattern on the projector
    cameraReady,
    full_image_file,   \* the file that receives the next image
    mState,            \* abstract: "preview", "lock" or "taken"
    preview,           \* looper of the preview's results; "off": stopRepeating
    due,               \* of each looper: stills whose completion is not finished
    busy,              \* of each looper: where a camera callback is
    exposed,           \* images on their way: the pattern that lit each
    pictures,          \* the picture files
    sources,           \* the files with the light source of a picture
    results,           \* directories runProcess read from and wrote to
    dead               \* an uncaught exception has ended the process

settings == <<acquireType, mmCount, acquireBackground, g_path, g_path_BG, enabled>>
work == <<queue, worker, frame>>
light == <<mBitmap, screen>>
camera == <<cameraReady, mState, preview, due, busy, exposed>>
storage == <<full_image_file, pictures, sources, results>>
vars == <<clock, settings, work, uiQueue, ui, light, camera, storage, dead>>

Folder == {"BF", "MM", "DF", "FPM", "DPC", "Capture"}
Kind == Folder \cup {"Process"}
Event == 0..MaxEvents
Counter == Nat \X Nat
Looper == {"bg", "ui"}

Dir == [of : Folder, bg : BOOLEAN, stamp : Event]
File == [dir : Dir, kind : Kind, frame : Counter]
Task == [id : Event, kind : Kind, dir : Dir, bg : BOOLEAN]

(* A pattern: the default circle, one made for a slider or a setting, the  *)
(* pattern of a task's frame (runDFMode has one for all frames), or the    *)
(* optimum runProcess found.                                               *)
Pattern == [for : {"default", "user", "frame", "optimum"}, id : Event, frame : Counter]
Default == [for |-> "default", id |-> 0, frame |-> <<0, 0>>]
UserPattern(n) == [for |-> "user", id |-> n, frame |-> <<0, 0>>]
FramePattern(t, f) ==
    [for |-> "frame", id |-> t.id, frame |-> IF t.kind = "DF" THEN <<0, 0>> ELSE f]
Optimum(t) == [for |-> "optimum", id |-> t.id, frame |-> <<0, 0>>]

DirOf(m, bg, stamp) == [of |-> m, bg |-> bg, stamp |-> stamp]
Named(t, d, f) == [file |-> [dir |-> d, kind |-> t.kind, frame |-> f], by |-> t]

Message == [msg : {"progress", "post"}, task : Task]

SettingsType ==
    /\ clock \in Event
    /\ acquireType \in Modes
    /\ mmCount \in Counts
    /\ acquireBackground \in BOOLEAN
    /\ g_path \in [Folder -> Dir]
    /\ g_path_BG \in [Modes -> Dir]
    /\ enabled \in BOOLEAN

ThreadType ==
    /\ queue \in Seq(Task)
    /\ worker \in {"start", "draw", "name", "lock", "wait", "save", "optimise"}
    /\ frame \in Counter
    /\ uiQueue \in Seq(Message)
    /\ ui \in {"idle", "name", "lock", "wait"}
    /\ ui # "idle" => uiQueue # <<>>

CameraType ==
    /\ mBitmap \in Pattern
    /\ screen \in Pattern
    /\ cameraReady \in BOOLEAN
    /\ mState \in {"preview", "lock", "taken"}
    /\ preview \in Looper \cup {"off"}
    /\ due \in [Looper -> Nat]
    /\ busy \in [Looper -> {"idle", "decided", "unlocked"}]
    /\ \A l \in Looper : busy[l] = "unlocked" => due[l] > 0
    /\ ui # "idle" => busy["ui"] = "idle"
    /\ exposed \in Seq(Pattern)

StorageType ==
    /\ full_image_file \in [file : File, by : Task]
    /\ DOMAIN pictures \subseteq File
    /\ \A p \in DOMAIN pictures : pictures[p] \in [by : Task, light : Pattern]
    /\ DOMAIN sources \subseteq File
    /\ \A s \in DOMAIN sources : sources[s] \in [by : Task, light : Pattern]
    /\ results \subseteq [from : Dir, to : Dir]
    /\ dead \in BOOLEAN

TypeOK == SettingsType /\ ThreadType /\ CameraType /\ StorageType

(* The activity has started, in DPCMode; the projector shows the default   *)
(* circle.                                                                 *)
NoTask == [id |-> 0, kind |-> "Capture", dir |-> DirOf("Capture", FALSE, 0), bg |-> FALSE]

Init ==
    /\ clock = 0
    /\ acquireType = "DPC"
    /\ mmCount \in Counts
    /\ acquireBackground = FALSE
    /\ g_path = [m \in Folder |-> DirOf(m, FALSE, 0)]
    /\ g_path_BG = [m \in Modes |-> DirOf(m, TRUE, 0)]
    /\ enabled = TRUE
    /\ queue = <<>>
    /\ worker = "start"
    /\ frame = <<0, 0>>
    /\ uiQueue = <<>>
    /\ ui = "idle"
    /\ mBitmap = Default
    /\ screen = Default
    /\ cameraReady = TRUE
    /\ full_image_file = Named(NoTask, NoTask.dir, <<0, 0>>)
    /\ mState = "preview"
    /\ preview = "bg"
    /\ due = [l \in Looper |-> 0]
    /\ busy = [l \in Looper |-> "idle"]
    /\ exposed = <<>>
    /\ pictures = <<>>
    /\ sources = <<>>
    /\ results = {}
    /\ dead = FALSE

------------------------------------------------------------------------------
(* Helpers.                                                                *)

Put(f, k, v) == [x \in DOMAIN f \cup {k} |-> IF x = k THEN v ELSE f[x]]

NoneDue == \A l \in Looper : due[l] = 0
Outstanding == exposed # <<>> \/ ~NoneDue
NoCallback == \A l \in Looper : busy[l] = "idle"

Quiet ==
    /\ queue = <<>>
    /\ uiQueue = <<>>
    /\ ui = "idle"
    /\ ~Outstanding
    /\ NoCallback
    /\ mState = "preview"

(* The UI thread is in its looper and may take the next message.           *)
UiFree == ~dead /\ ui = "idle" /\ busy["ui"] = "idle"

(* A touch on the screen reaches the UI thread in its looper.              *)
Touch(control) ==
    /\ control \in Controls
    /\ UiFree
    /\ clock < MaxEvents
    /\ Careful => Quiet
    /\ clock' = clock + 1

Start(kind, dir, bg) ==
    queue' = Append(queue, [id |-> clock + 1, kind |-> kind, dir |-> dir, bg |-> bg])

------------------------------------------------------------------------------
(* The buttons.  execute() runs onPreExecute at once, on the UI thread,    *)
(* and hands the task to the serial executor.                              *)

(* myDir of a run*Mode task: a new timestamp for the object, the fixed     *)
(* directory for a background.  runDPCMode has a new one for both;         *)
(* runMMMode has none, its timestamp goes to g_BF_path.                    *)
MyDir(m, bg) ==
    IF m = "DPC" \/ (~bg /\ m # "MM") THEN DirOf(m, bg, clock + 1)
    ELSE IF bg THEN g_path_BG[m] ELSE g_path[m]

(* Variant: acquireBackground is not reset.                                *)
onPreExecuteKeepsFlag(m, bg) ==
    /\ acquireBackground' = bg
    /\ g_path_BG' = IF bg THEN [g_path_BG EXCEPT ![m] = MyDir(m, bg)] ELSE g_path_BG
    /\ g_path' = IF bg THEN g_path ELSE [g_path EXCEPT ![m] = MyDir(m, bg)]

(* onPreExecute with the value bg of acquireBackground.                    *)
onPreExecute(m, bg) ==
    /\ acquireBackground' = FALSE
    /\ g_path_BG' = IF bg THEN [g_path_BG EXCEPT ![m] = MyDir(m, bg)] ELSE g_path_BG
    /\ g_path' = IF bg THEN g_path
                 ELSE IF m = "MM" THEN [g_path EXCEPT !["BF"] = DirOf("MM", FALSE, clock + 1)]
                 ELSE [g_path EXCEPT ![m] = MyDir(m, bg)]

btnAcquire ==
    /\ Touch("acquire")
    /\ enabled
    /\ onPreExecute(acquireType, acquireBackground)
    /\ Start(acquireType, MyDir(acquireType, acquireBackground), FALSE)
    /\ UNCHANGED <<acquireType, mmCount, enabled, worker, frame, uiQueue, ui, light,
                   camera, storage, dead>>

(* acquireBackground is set and the same task started.                     *)
btnAcquireBG ==
    /\ Touch("background")
    /\ onPreExecute(acquireType, TRUE)
    /\ Start(acquireType, MyDir(acquireType, TRUE), TRUE)
    /\ UNCHANGED <<acquireType, mmCount, enabled, worker, frame, uiQueue, ui, light,
                   camera, storage, dead>>

btnCapture ==
    /\ Touch("capture")
    /\ g_path' = [g_path EXCEPT !["Capture"] = DirOf("Capture", FALSE, clock + 1)]
    /\ Start("Capture", DirOf("Capture", FALSE, clock + 1), FALSE)
    /\ UNCHANGED <<acquireType, mmCount, acquireBackground, g_path_BG, enabled, worker,
                   frame, uiQueue, ui, light, camera, storage, dead>>

(* Variant: onPreExecute does not disable the buttons.                     *)
btnProcessStaysOpen ==
    /\ Touch("process")
    /\ enabled
    /\ Start("Process", g_path["DPC"], FALSE)
    /\ UNCHANGED <<settings, worker, frame, uiQueue, ui, light, camera, storage, dead>>

(* runProcess takes its input names when it is made, then onPreExecute     *)
(* disables btnAcquire, btnProcess and btnSetup, but not the other buttons.*)
btnProcess ==
    /\ Touch("process")
    /\ enabled
    /\ Start("Process", g_path["DPC"], FALSE)
    /\ enabled' = FALSE
    /\ UNCHANGED <<acquireType, mmCount, acquireBackground, g_path, g_path_BG, worker,
                   frame, uiQueue, ui, light, camera, storage, dead>>

------------------------------------------------------------------------------
(* Sliders and settings.                                                   *)

(* slideToNA, slideToXPos, slideToYPos: a new pattern, except in FPMMode,  *)
(* and showNextColor.                                                      *)
slideTo ==
    /\ Touch("slider")
    /\ mBitmap' = IF acquireType = "FPM" THEN mBitmap ELSE UserPattern(clock + 1)
    /\ screen' = mBitmap'
    /\ UNCHANGED <<settings, work, uiQueue, ui, camera, storage, dead>>

(* A new pattern for DPCMode, BFMode and DFMode; updatePresentation leaves *)
(* a presentation that is already on the selected display as it is.        *)
setAcqMethod ==
    /\ Touch("settings")
    /\ enabled
    /\ \E m \in Modes :
        /\ acquireType' = m
        /\ mBitmap' = IF m \in {"DPC", "BF", "DF"} THEN UserPattern(clock + 1) ELSE mBitmap
    /\ UNCHANGED <<mmCount, acquireBackground, g_path, g_path_BG, enabled, work, uiQueue,
                   ui, screen, camera, storage, dead>>

setMmCount ==
    /\ Touch("settings")
    /\ enabled
    /\ mmCount' \in Counts
    /\ UNCHANGED <<acquireType, acquireBackground, g_path, g_path_BG, enabled, work,
                   uiQueue, ui, light, camera, storage, dead>>

(* The repeating request is set anew with a null handler: from now on the  *)
(* preview's results come on the looper of the caller, the UI thread.      *)
(* (setISO and slideToZoom do the same.)                                   *)
slideToExposuretime ==
    /\ Touch("exposure")
    /\ preview' = "ui"
    /\ UNCHANGED <<settings, work, uiQueue, ui, light, cameraReady, mState, due, busy,
                   exposed, storage, dead>>

------------------------------------------------------------------------------
(* The worker: doInBackground of the first task of the queue.              *)

Running(kinds) == ~dead /\ queue # <<>> /\ Head(queue).kind \in kinds
At(l) == worker = l
Publish(msg) == uiQueue' = Append(uiQueue, [msg |-> msg, task |-> Head(queue)])

(* Variant: runDPCMode leaves the comparison out.                          *)
InLoopShort(kind) ==
    frame[1] < CASE kind = "DPC"     -> Rotations
                 [] kind = "Capture" -> 1
                 [] OTHER            -> mmCount

(* The loop goes on: over rotation_Angle and the comparison in runDPCMode, *)
(* once in runCapture, up to mmCount as it is now in the others.           *)
InLoop(kind) ==
    frame[1] < CASE kind = "DPC"     -> Rotations + 1
                 [] kind = "Capture" -> 1
                 [] OTHER            -> mmCount

NextFrame(kind) ==
    IF kind = "FPM" /\ frame[2] + 1 < mmCount THEN <<frame[1], frame[2] + 1>>
    ELSE <<frame[1] + 1, 0>>

(* publishProgress before the loop, where there is one.                    *)
doInBackground ==
    /\ Running(Folder)
    /\ At("start")
    /\ worker' = IF Head(queue).kind = "Capture" THEN "name" ELSE "draw"
    /\ frame' = <<0, 0>>
    /\ IF Head(queue).kind \in {"DPC", "Capture"} THEN UNCHANGED uiQueue ELSE Publish("progress")
    /\ UNCHANGED <<clock, settings, queue, ui, light, camera, storage, dead>>

(* Variant: publishProgress is called before the pattern is made.          *)
drawFrameUnpublished ==
    /\ Running(Folder)
    /\ At("draw")
    /\ InLoop(Head(queue).kind)
    /\ mBitmap' = FramePattern(Head(queue), frame)
    /\ worker' = "name"
    /\ UNCHANGED <<clock, settings, queue, frame, uiQueue, ui, screen, camera, storage, dead>>

(* The pattern of the frame, and publishProgress.                          *)
drawFrame ==
    /\ Running(Folder)
    /\ At("draw")
    /\ InLoop(Head(queue).kind)
    /\ mBitmap' = FramePattern(Head(queue), frame)
    /\ Publish("progress")
    /\ worker' = "name"
    /\ UNCHANGED <<clock, settings, queue, frame, ui, screen, camera, storage, dead>>

(* mSleep, except in runCapture, then the file name and cameraReady; the   *)
(* sleep is of no help while the UI thread takes a picture of its own.     *)
nameFrame ==
    /\ Running(Folder)
    /\ At("name")
    /\ SleepSuffices /\ Head(queue).kind # "Capture" /\ ui = "idle"
         => uiQueue = <<>> /\ ~Outstanding
    /\ full_image_file' = Named(Head(queue), Head(queue).dir, frame)
    /\ cameraReady' = FALSE
    /\ worker' = "lock"
    /\ UNCHANGED <<clock, settings, queue, frame, uiQueue, ui, light, mState, preview,
                   due, busy, exposed, pictures, sources, results, dead>>

takePicture ==
    /\ Running(Folder)
    /\ At("lock")
    /\ mState' = "lock"
    /\ worker' = "wait"
    /\ UNCHANGED <<clock, settings, queue, frame, uiQueue, ui, light, cameraReady,
                   preview, due, busy, exposed, storage, dead>>

frameReady ==
    /\ Running(Folder)
    /\ At("wait")
    /\ cameraReady
    /\ worker' = "save"
    /\ UNCHANGED <<clock, settings, queue, frame, uiQueue, ui, light, camera, storage, dead>>

(* Where the light source of a frame is saved: runDFMode writes one file   *)
(* to g_DF_path, runBFMode and runMMMode one per frame to g_MM_path,       *)
(* runCapture one to its own directory; the others save none.              *)
SourceFiles(t, f) ==
    CASE t.kind = "DF"           -> {[dir |-> g_path["DF"], kind |-> "DF", frame |-> <<0, 0>>]}
      [] t.kind \in {"BF", "MM"} -> {[dir |-> g_path["MM"], kind |-> t.kind, frame |-> f]}
      [] t.kind = "Capture"      -> {[dir |-> t.dir, kind |-> "Capture", frame |-> f]}
      [] OTHER                   -> {}

(* The files ss now hold the pattern mBitmap, saved by the running task.   *)
WithSources(ss) ==
    [s \in DOMAIN sources \cup ss |->
        IF s \in ss THEN [by |-> Head(queue), light |-> mBitmap] ELSE sources[s]]

(* Variant: the light source is saved under the next frame's number.       *)
saveSourceNext ==
    /\ Running(Folder)
    /\ At("save")
    /\ sources' = WithSources(SourceFiles(Head(queue), NextFrame(Head(queue).kind)))
    /\ frame' = NextFrame(Head(queue).kind)
    /\ worker' = "draw"
    /\ UNCHANGED <<clock, settings, queue, uiQueue, ui, light, camera, full_image_file,
                   pictures, results, dead>>

saveSource ==
    /\ Running(Folder)
    /\ At("save")
    /\ sources' = WithSources(SourceFiles(Head(queue), frame))
    /\ frame' = NextFrame(Head(queue).kind)
    /\ worker' = "draw"
    /\ UNCHANGED <<clock, settings, queue, uiQueue, ui, light, camera, full_image_file,
                   pictures, results, dead>>

(* doInBackground returns: the result is posted, the next task may start.  *)
taskDone ==
    /\ Running(Folder)
    /\ At("draw")
    /\ ~InLoop(Head(queue).kind)
    /\ Publish("post")
    /\ queue' = Tail(queue)
    /\ worker' = "start"
    /\ UNCHANGED <<clock, settings, frame, ui, light, camera, storage, dead>>

------------------------------------------------------------------------------
(* runProcess.doInBackground.                                              *)

Inputs(dir) == {[dir |-> dir, kind |-> "DPC", frame |-> <<i, 0>>] : i \in 0..(Rotations - 1)}

(* The images are read.  A missing one is logged, and then ends the        *)
(* process when it is cropped; the others are written back.                *)
readInputs ==
    /\ Running({"Process"})
    /\ At("start")
    /\ IF Inputs(Head(queue).dir) \subseteq DOMAIN pictures
       THEN worker' = "optimise" /\ UNCHANGED dead
       ELSE dead' = TRUE /\ UNCHANGED worker
    /\ results' = results \cup {[from |-> Head(queue).dir, to |-> g_path["DPC"]]}
    /\ UNCHANGED <<clock, settings, queue, frame, uiQueue, ui, light, camera,
                   full_image_file, pictures, sources>>

(* qDPC and the network: result.tiff, the optimal pattern and its file.    *)
optimise ==
    /\ Running({"Process"})
    /\ At("optimise")
    /\ results' = results \cup {[from |-> Head(queue).dir, to |-> g_path["DPC"]]}
    /\ mBitmap' = Optimum(Head(queue))
    /\ Publish("post")
    /\ queue' = Tail(queue)
    /\ worker' = "start"
    /\ UNCHANGED <<clock, settings, frame, ui, screen, camera, full_image_file, pictures,
                   sources, dead>>

------------------------------------------------------------------------------
(* The UI thread's messages.                                               *)

Receive(msg, kinds) ==
    /\ UiFree
    /\ uiQueue # <<>>
    /\ Head(uiQueue).msg = msg
    /\ Head(uiQueue).task.kind \in kinds
    /\ uiQueue' = Tail(uiQueue)

(* showNextColor, with the mBitmap of this moment.                         *)
onProgressUpdate ==
    /\ Receive("progress", Folder)
    /\ screen' = mBitmap
    /\ UNCHANGED <<clock, settings, work, ui, mBitmap, camera, storage, dead>>

(* The default circle is shown again, but not after runDPCMode, which      *)
(* shows its last pattern once more, nor after runCapture.  All but        *)
(* runFPMMode end with slideToExposuretime.                                *)
onPostExecute ==
    /\ Receive("post", Folder)
    /\ LET kind == Head(uiQueue).task.kind IN
        /\ mBitmap' = IF kind \in {"DPC", "Capture"} THEN mBitmap ELSE Default
        /\ screen' = IF kind = "Capture" THEN screen ELSE mBitmap'
        /\ preview' = IF kind = "FPM" THEN preview ELSE "ui"
    /\ UNCHANGED <<clock, settings, work, ui, cameraReady, mState, due, busy, exposed,
                   storage, dead>>

(* runProcess.onPostExecute enables the buttons and shows the optimum;     *)
(* then, still on the UI thread, it sleeps, takes a picture and waits.     *)
(* (Its progress updates do nothing.)                                      *)
onPostExecuteProcess ==
    /\ UiFree
    /\ uiQueue # <<>>
    /\ Head(uiQueue).msg = "post"
    /\ Head(uiQueue).task.kind = "Process"
    /\ enabled' = TRUE
    /\ screen' = mBitmap
    /\ ui' = "name"
    /\ UNCHANGED <<clock, acquireType, mmCount, acquireBackground, g_path, g_path_BG, work,
                   uiQueue, mBitmap, camera, storage, dead>>

(* While the UI thread sleeps only the other looper's callbacks arrive.    *)
nameOptimal ==
    /\ ~dead
    /\ ui = "name"
    /\ SleepSuffices /\ queue = <<>> => exposed = <<>> /\ due["bg"] = 0
    /\ full_image_file' = Named(Head(uiQueue).task, g_path["DPC"], <<0, 0>>)
    /\ cameraReady' = FALSE
    /\ ui' = "lock"
    /\ UNCHANGED <<clock, settings, work, uiQueue, light, mState, preview, due, busy,
                   exposed, pictures, sources, results, dead>>

takeOptimal ==
    /\ ~dead
    /\ ui = "lock"
    /\ mState' = "lock"
    /\ ui' = "wait"
    /\ UNCHANGED <<clock, settings, work, uiQueue, light, cameraReady, preview, due, busy,
                   exposed, storage, dead>>

(* cameraReady is seen; slideToExposuretime ends onPostExecute.            *)
optimalReady ==
    /\ ~dead
    /\ ui = "wait"
    /\ cameraReady
    /\ ui' = "idle"
    /\ uiQueue' = Tail(uiQueue)
    /\ preview' = "ui"
    /\ UNCHANGED <<clock, settings, work, light, cameraReady, mState, due, busy, exposed,
                   storage, dead>>

------------------------------------------------------------------------------
(* The camera.                                                             *)

(* A callback of looper l begins: the looper is not in one already, the UI *)
(* looper neither in onPostExecute.                                        *)
Free(l) == ~dead /\ busy[l] = "idle" /\ (l = "ui" => ui = "idle")

(* process() finds the focus locked and decides to capture.  The results   *)
(* of the trigger and the precapture come on the background looper, where  *)
(* they may be enough; those of the preview come where it was started.     *)
process(l) ==
    /\ Free(l)
    /\ l = "bg" \/ preview = "ui"
    /\ mState = "lock"
    /\ Prompt => \A k \in Looper : busy[k] # "decided"
    /\ busy' = [busy EXCEPT ![l] = "decided"]
    /\ UNCHANGED <<clock, settings, work, uiQueue, ui, light, cameraReady, mState, preview,
                   due, exposed, storage, dead>>

(* ... and captures the still: stopRepeating, and a null handler, so that  *)
(* the completion comes on the same looper.                                *)
captureStillPicture(l) ==
    /\ ~dead
    /\ busy[l] = "decided"
    /\ busy' = [busy EXCEPT ![l] = "idle"]
    /\ mState' = "taken"
    /\ preview' = "off"
    /\ due' = [due EXCEPT ![l] = @ + 1]
    /\ exposed' = Append(exposed, screen)
    /\ UNCHANGED <<clock, settings, work, uiQueue, ui, light, cameraReady, storage, dead>>

(* onCaptureCompleted: unlockFocus, which starts the preview on the        *)
(* background looper ...                                                   *)
unlockFocus(l) ==
    /\ Free(l)
    /\ due[l] > 0
    /\ mState' = "preview"
    /\ preview' = "bg"
    /\ busy' = [busy EXCEPT ![l] = "unlocked"]
    /\ UNCHANGED <<clock, settings, work, uiQueue, ui, light, cameraReady, due, exposed,
                   storage, dead>>

(* Variant: the completion is not marked as finished.                      *)
setReadyTwice(l) ==
    /\ ~dead
    /\ busy[l] = "unlocked"
    /\ cameraReady' = TRUE
    /\ due' = [due EXCEPT ![l] = @ - 1]
    /\ UNCHANGED <<clock, settings, work, uiQueue, ui, light, mState, preview, busy, exposed,
                   storage, dead>>

(* ... then cameraReady.                                                   *)
setReady(l) ==
    /\ ~dead
    /\ busy[l] = "unlocked"
    /\ cameraReady' = TRUE
    /\ due' = [due EXCEPT ![l] = @ - 1]
    /\ busy' = [busy EXCEPT ![l] = "idle"]
    /\ UNCHANGED <<clock, settings, work, uiQueue, ui, light, mState, preview, exposed,
                   storage, dead>>

(* Variant: cameraReady first, then unlockFocus.                           *)
CompletionReadyFirst(l) ==
    /\ due[l] > 0
    /\ \/ /\ Free(l)
          /\ cameraReady' = TRUE
          /\ busy' = [busy EXCEPT ![l] = "unlocked"]
          /\ UNCHANGED <<mState, preview, due>>
       \/ /\ ~dead
          /\ busy[l] = "unlocked"
          /\ mState' = "preview"
          /\ preview' = "bg"
          /\ due' = [due EXCEPT ![l] = @ - 1]
          /\ busy' = [busy EXCEPT ![l] = "idle"]
          /\ UNCHANGED cameraReady
    /\ UNCHANGED <<clock, settings, work, uiQueue, ui, light, exposed, storage, dead>>

Completion(l) == unlockFocus(l) \/ setReady(l)

(* The image arrives and is saved under the name of this moment.           *)
onImageAvailable ==
    /\ ~dead
    /\ exposed # <<>>
    /\ pictures' = Put(pictures, full_image_file.file,
                       [by |-> full_image_file.by, light |-> Head(exposed)])
    /\ exposed' = Tail(exposed)
    /\ UNCHANGED <<clock, settings, work, uiQueue, ui, light, cameraReady, mState,
                   preview, due, busy, full_image_file, sources, results, dead>>

------------------------------------------------------------------------------
User ==
    \/ btnAcquire
    \/ btnAcquireBG
    \/ btnCapture
    \/ btnProcess
    \/ slideTo
    \/ setAcqMethod
    \/ setMmCount
    \/ slideToExposuretime

Worker ==
    \/ doInBackground
    \/ drawFrame
    \/ nameFrame
    \/ takePicture
    \/ frameReady
    \/ saveSource
    \/ taskDone
    \/ readInputs
    \/ optimise

UiThread ==
    \/ onProgressUpdate
    \/ onPostExecute
    \/ onPostExecuteProcess
    \/ nameOptimal
    \/ takeOptimal
    \/ optimalReady

Callback(l) == process(l) \/ captureStillPicture(l) \/ Completion(l)
CameraCallback == \E l \in Looper : Callback(l)

Next ==
    \/ User
    \/ Worker
    \/ UiThread
    \/ CameraCallback
    \/ onImageAvailable

Spec == Init /\ [][Next]_vars

(* The threads run, the camera answers and the preview reaches the focus   *)
(* on its own looper; whether the one result of the trigger is enough is   *)
(* left open, and the user owes nothing.                                   *)
Fairness ==
    /\ WF_vars(Worker)
    /\ WF_vars(UiThread)
    /\ \A l \in Looper :
        /\ WF_vars(preview = l /\ process(l))
        /\ WF_vars(captureStillPicture(l))
        /\ WF_vars(Completion(l))
    /\ WF_vars(onImageAvailable)

FairSpec == Spec /\ Fairness

------------------------------------------------------------------------------
(* Properties.                                                             *)

(* "The app takes a series of images, where the Presentation API displays  *)
(* a specific pattern on a projector": the picture in the file of a frame  *)
(* was lit by that frame's pattern, the one of runProcess by its optimum.  *)
LitByOwnPattern ==
    \A p \in DOMAIN pictures :
        LET t == pictures[p].by IN
        CASE t.kind \in Modes    -> pictures[p].light = FramePattern(t, p.frame)
          [] t.kind = "Process" -> pictures[p].light = Optimum(t)
          [] OTHER              -> TRUE

(* The light source saved for a frame is the one of the picture of the     *)
(* same frame and task: for the random patterns of runMMMode the file is   *)
(* the only record of them.                                                *)
SourceSavedWithFrame ==
    \A s \in DOMAIN sources :
        sources[s].by.kind \in Modes =>
            \A p \in DOMAIN pictures :
                pictures[p].by = sources[s].by /\ p.frame = s.frame
                    => pictures[p].light = sources[s].light

(* "Capture with current light source!": the light source runCapture saves *)
(* is the one that lit its picture.                                        *)
CaptureSourceTrue ==
    \A p \in DOMAIN pictures \cap DOMAIN sources :
        p.kind = "Capture" => pictures[p].light = sources[p].light

(* When all is quiet, the object's last DPC acquisition is complete:       *)
(* all rotations and the comparison are there, under its own directory.    *)
DpcSetComplete ==
    Quiet /\ g_path["DPC"].stamp > 0 =>
        \A i \in 0..Rotations :
            [dir |-> g_path["DPC"], kind |-> "DPC", frame |-> <<i, 0>>] \in DOMAIN pictures

(* runProcess writes its results beside the images it has read, although   *)
(* it reads g_DPC_path again for every file it writes.                     *)
ResultBesideInputs == \A r \in results : r.from = r.to

(* Once a DPC acquisition has been started, runProcess finds the images it *)
(* reads, even when it was queued behind the acquisition and the picture   *)
(* of an earlier runProcess is taken at the same time.                     *)
ProcessFindsItsInputs == dead => Head(queue).dir.stamp = 0

(* A task started as a background acquisition, and no other, writes into a *)
(* background directory.                                                   *)
BackgroundKeptApart == \A p \in DOMAIN pictures : p.dir.bg = pictures[p].by.bg

(* runProcess.onPostExecute waits, on the UI thread, for a result or a     *)
(* completion only the UI looper may bring: nothing is left to do on the   *)
(* background looper.                                                      *)
WaitsForItself ==
    /\ ui = "wait" /\ ~cameraReady
    /\ busy["bg"] = "idle" /\ due["bg"] = 0
    /\ due["ui"] > 0 \/ (mState = "lock" /\ preview = "ui")

(* The executor gets through its tasks: no task waits for ever for         *)
(* cameraReady, even when runProcess takes its picture at the same time,   *)
(* the sliders move the preview to the other looper or both loopers        *)
(* capture; unless the UI thread waits for its own looper (see             *)
(* OptimumIsTaken).                                                        *)
EveryTaskFinishes == []<>(Quiet \/ dead \/ WaitsForItself)

(* "Save images illuminated with optimized illumination": the wait of      *)
(* runProcess.onPostExecute for its picture comes to an end.               *)
OptimumIsTaken == (ui = "wait") ~> (ui = "idle" \/ dead)

------------------------------------------------------------------------------
(* The inductive invariants behind ResultBesideInputs and                  *)
(* BackgroundKeptApart.                                                    *)

IsProcess(t) == t.kind = "Process"

(* There is at most one runProcess between its onPreExecute and its        *)
(* onPostExecute; while there is one the buttons are disabled, and its     *)
(* input directory is still g_DPC_path.                                    *)
OneProcess ==
    /\ \A i \in 1..Len(queue) : IsProcess(queue[i]) =>
        /\ ~enabled
        /\ ui = "idle"
        /\ queue[i].dir = g_path["DPC"]
        /\ \A j \in 1..Len(queue) : IsProcess(queue[j]) => i = j
        /\ \A j \in 1..Len(uiQueue) : ~IsProcess(uiQueue[j].task)
    /\ \A i \in 1..Len(uiQueue) : IsProcess(uiQueue[i].task) =>
        /\ ui = "idle" => ~enabled
        /\ ui # "idle" => i = 1
        /\ \A j \in 1..Len(uiQueue) : IsProcess(uiQueue[j].task) => i = j

(* Directories, tasks and file names agree on what is background.          *)
BackgroundInv ==
    /\ ~acquireBackground
    /\ \A f \in Folder : ~g_path[f].bg
    /\ \A m \in Modes : g_path_BG[m].bg
    /\ \A i \in 1..Len(queue) : queue[i].dir.bg = queue[i].bg
    /\ \A i \in 1..Len(uiQueue) : IsProcess(uiQueue[i].task) => ~uiQueue[i].task.bg
    /\ ui # "idle" => ~uiQueue[1].task.bg
    /\ full_image_file.file.dir.bg = full_image_file.by.bg
    /\ BackgroundKeptApart

TasksInv == TypeOK /\ OneProcess /\ ResultBesideInputs /\ BackgroundInv

------------------------------------------------------------------------------
(* The inductive invariant behind ProcessFindsItsInputs.                   *)

DpcFile(dir, i) == [dir |-> dir, kind |-> "DPC", frame |-> <<i, 0>>]

(* The file is there, or an image that will be saved under its name is on  *)
(* its way.                                                                *)
Coming(file) == file \in DOMAIN pictures \/ (exposed # <<>> /\ full_image_file.file = file)

IsObject(t) == t.kind = "DPC" /\ ~t.bg

AtHead == worker # "start" =>
    queue # <<>> /\ (worker = "optimise" <=> IsProcess(Head(queue)))

(* An acquisition of the object is never queued behind a runProcess, nor   *)
(* run while the picture of one is taken.                                  *)
ObjectFirst ==
    \A j \in 1..Len(queue) : IsObject(queue[j]) =>
        /\ ui = "idle"
        /\ \A i \in 1..j : ~IsProcess(queue[i])
        /\ \A i \in 1..Len(uiQueue) : ~IsProcess(uiQueue[i].task)

(* The files of the frames before the n-th are there; that of the last may *)
(* still be coming until the n-th is named.  From then on cameraReady      *)
(* means that an image was taken for the n-th.                             *)
EarlierFiled(dir, n) ==
    /\ \A i \in 0..(n - 2) : DpcFile(dir, i) \in DOMAIN pictures
    /\ n > 0 => Coming(DpcFile(dir, n - 1))

FrameNamed(dir, n) ==
    /\ n > 0 => DpcFile(dir, n - 1) \in DOMAIN pictures
    /\ full_image_file.file = DpcFile(dir, n)
    /\ worker = "save" \/ cameraReady \/ ~NoneDue => Coming(DpcFile(dir, n))

FramesFiled ==
    queue # <<>> /\ IsObject(Head(queue)) /\ worker # "start" =>
        /\ frame[2] = 0
        /\ EarlierFiled(Head(queue).dir, frame[1])
        /\ worker \in {"lock", "wait", "save"} => FrameNamed(Head(queue).dir, frame[1])

(* An acquisition into g_DPC_path is queued.                               *)
Acquiring == \E j \in 1..Len(queue) : IsObject(queue[j]) /\ queue[j].dir = g_path["DPC"]

InputsFiled ==
    g_path["DPC"].stamp > 0 => Acquiring \/ Inputs(g_path["DPC"]) \subseteq DOMAIN pictures

InputsInv ==
    /\ TasksInv
    /\ AtHead
    /\ ObjectFirst
    /\ FramesFiled
    /\ InputsFiled
    /\ ProcessFindsItsInputs

------------------------------------------------------------------------------
(* The inductive invariant behind LitByOwnPattern, SourceSavedWithFrame    *)
(* and DpcSetComplete, for a user who waits until everything is quiet.     *)

(* One task at a time: while it runs the UI thread has only its progress   *)
(* updates to handle, and it starts from a quiet state.                    *)
OneTask ==
    /\ Len(queue) <= 1
    /\ queue # <<>> =>
        /\ ui = "idle"
        /\ \A i \in 1..Len(uiQueue) : uiQueue[i].msg = "progress"
        /\ worker \in {"start", "lock", "wait", "save", "optimise"} => uiQueue = <<>>
        /\ worker = "start" => exposed = <<>>
        /\ Head(queue).kind = "Capture" =>
            /\ worker = "name" => uiQueue = <<>> /\ exposed = <<>>
            /\ worker = "draw" => frame[1] > 0
    /\ \A i \in 1..Len(uiQueue) : IsProcess(uiQueue[i].task) =>
        Len(uiQueue) = 1 /\ queue = <<>>
    /\ ui # "idle" => IsProcess(Head(uiQueue).task)

(* A picture of light x may be saved under the name of this moment.        *)
Fits(x) ==
    LET t == full_image_file.by IN
    CASE t.kind \in Modes    -> x = FramePattern(t, full_image_file.file.frame)
      [] t.kind = "Process" -> x = Optimum(t)
      [] OTHER              -> TRUE

(* The pattern of a frame is on the projector from its name until its      *)
(* still is captured, and stays in mBitmap until its source is saved.      *)
LampInStep ==
    /\ queue # <<>> /\ worker \in {"lock", "wait", "save"} =>
        full_image_file = Named(Head(queue), Head(queue).dir, frame)
    /\ queue # <<>> /\ Head(queue).kind \in Modes =>
        /\ worker \in {"name", "lock", "wait", "save"} => mBitmap = FramePattern(Head(queue), frame)
        /\ worker \in {"name", "lock", "wait"} /\ uiQueue = <<>> => screen = mBitmap
    /\ \A i \in 1..Len(uiQueue) : IsProcess(uiQueue[i].task) =>
        mBitmap = Optimum(uiQueue[i].task)
    /\ ui # "idle" => screen = mBitmap
    /\ ui \in {"lock", "wait"} =>
        full_image_file = Named(Head(uiQueue).task, g_path["DPC"], <<0, 0>>)
    /\ \A i \in 1..Len(exposed) : Fits(exposed[i])

Asking == (queue # <<>> /\ worker = "lock") \/ ui = "lock"
Waiting == (queue # <<>> /\ worker = "wait") \/ ui = "wait"

(* Nothing is due and no looper in a callback; the one still that is due;  *)
(* the one looper in a callback.                                           *)
AtRest == NoneDue /\ NoCallback
OneDue(l) == \A k \in Looper : due[k] = IF k = l THEN 1 ELSE 0
Only(l, at) == \A k \in Looper : busy[k] = IF k = l THEN at ELSE "idle"

(* The camera is at work for the one who waits for cameraReady.            *)
CameraInStep ==
    /\ Asking => ~cameraReady
    /\ \/ mState = "preview" /\ AtRest /\ (Waiting => cameraReady)
       \/ /\ Waiting /\ ~cameraReady
          /\ \/ mState = "lock" /\ AtRest
             \/ \E l \in Looper :
                \/ mState = "lock" /\ NoneDue /\ Only(l, "decided")
                \/ mState = "taken" /\ OneDue(l) /\ NoCallback
                \/ mState = "preview" /\ OneDue(l) /\ Only(l, "unlocked")

SourceTrue ==
    \A s \in DOMAIN sources : sources[s].by.kind \in Modes =>
        sources[s].light = FramePattern(sources[s].by, s.frame)

SetFiled ==
    g_path["DPC"].stamp > 0 =>
        Acquiring \/ \A i \in 0..Rotations : Coming(DpcFile(g_path["DPC"], i))

CarefulInv ==
    /\ InputsInv
    /\ OneTask
    /\ LampInStep
    /\ CameraInStep
    /\ LitByOwnPattern
    /\ SourceTrue
    /\ SetFiled

=============================================================================
