# A TLA+ model of the Beamerscope app

Beamerscope is an Android app for a 3D-printed microscope whose lamp is a
projector. The phone's camera takes a series of pictures; for each of them the
app shows a pattern on the projector. From four of the pictures it computes
a phase image (qDPC), gives that to a neural network, shows the pattern the
network proposes, and takes one more picture under it.

This directory holds TLA+ models of the parts of the app where several threads
share state, and of the native functions that its images go through, the TLC
configurations that check them on small instances, and proofs of their central
invariants that TLAPS checks for all instances.

Paths below are relative to the repository. **A** stands for
`beamerscope/src/main/java/de/beamerscope/acquisition/AcquireActivity.java`, **G**
for `.../calibration/GammaCalibActivity.java`, **N** for `jni-native/jni`. `PROJECT.json`
gives, for every definition, the lines of code it models.

## 1. Inventory

| Part | State it keeps | Operations | Talks to | What is hard | Modelled in |
|---|---|---|---|---|---|
| Camera lifecycle (A 671-712, 2133-2199, 2731-2864) | `mCameraOpenCloseLock`, `mCameraDevice`, `mCaptureSession`, `mImageReader`, background thread | `onResume`, `onPause`, `openCamera`, `closeCamera`, `StateCallback` | camera service, surface | a lock taken on one thread and released on another; failing and late callbacks; UI thread blocking on them; a pause in the middle of an acquisition | `CameraLifecycle`, `PausedAcquisition` |
| Still capture (A 2443-2550, 2869-3039) | `mState`, repeating request, `cameraReady`, `full_image_file`, `ImageReader` | `takePicture`, `process`, `captureStillPicture`, `unlockFocus`, `onImageAvailable`, `ImageSaver` | camera service, frame loop | results on two loopers; the image and the completion come in any order | `FrameCapture`, `StillCamera`, `FrameCaptureRefinement` |
| Acquisition tasks (A 541-609, 753-1896) | `acquireType`, `mmCount`, `acquireBackground`, `g_*_path`, `mBitmap`, the button states, the `AsyncTask` queue | buttons, `run*Mode`, `runCapture`, `runProcess` | still capture, projector, files | worker and UI thread share every field; `runProcess` takes a picture on the UI thread | `AcquireTasks` |
| Sliders and settings (A 2248-2423, 3042-3060, `AcquireSettings`) | pattern centre and NA, mode, count, ISO, exposure | `slideTo*`, `setAcqMethod`, `setMmCount`, `setISO` | tasks, camera | they change fields a running task uses | `AcquireTasks`, `FrameCapture` (partly) |
| Presentation (A 1975-2095, 3069, `MyPresentation`) | `mPresentation` | media-router callbacks, `updatePresentation`, `showNextColor` | projector | displays come and go; dismiss messages arrive late | `PresentationRoute` |
| Gamma calibration (G) | lists of positions and intensities, its own camera code, preferences | `findMax`, `onImageAvailable` | camera, projector, `SharedPreferences` | `cameraReady` is set in another order; two tasks share the lists; five separate commits; pauses and the slider in between | `GammaCalib`, `InterruptedCalib` |
| Curve fit, chart | - | library calls | - | floating point only | no |
| `CreatePatterns`, `ImageUtils` | - | drawing, OpenCV calls | - | floating point | no |
| Native images (N: `cvComplex`, `jni_qDPC`, `jni_illparameter`) | - | shifts, spectra, difference images | `runProcess` | signs, odd and unequal sides, in place or not, division by 0 | `NativeImage` (partly) |
| `CaptureImageFragment` (two copies) | as still capture | - | - | started by no activity | no |
| Navigation, dataset, file choosers, logger | - | - | - | no state of their own, or unused | no |

`jni-native_OLD`, `openCVLibrary300`, `include/opencv2`, `build` and
`exportToHTML` are vendored or generated. The repository has no tests.

What makes each part correct:

- *Lifecycle*: `openCamera` and `closeCamera` exclude each other, no permit is
  lost or made, `onPause` ends, the camera is closed afterwards.
- *Still capture*: one picture per frame, saved under that frame's name; the
  loop ends; the reader is not asked for more images than it has.
- *Tasks*: a picture is lit by the pattern of its frame, the light source saved
  with it is that pattern, `runProcess` finds its inputs and writes beside them,
  background pictures stay apart, every task ends.
- *Presentation*: one window, on the router's display, with the last pattern; none
  left behind.
- *Calibration*: each value was measured under its own aperture, the gray ramp at the
  stored centre; the stored values belong to one calibration; the loop ends.
- *Native images*: a shift is a rotation and is undone by its inverse; a spectrum meets
  its kernel in the right order; a difference image does not depend on the shading, and
  the rounded division by the backgrounds does not turn a contrast round.

The places in the code that are exposed to such errors are the `hazards` of
`PROJECT.json`, each with the properties that watch it.

## 2. The modules

### CameraLifecycle

The UI thread and the background thread are loopers with an `inbox` each. A
method that shares state with the other thread is cut, by the thread's `pc`, at
the points where the other thread can see a difference: `closeCamera` into
acquire, session, device test, device use, reader and release; `onOpened` into
release, assignment and `createCameraPreviewSession`. The camera service answers
an open with success, failure or an exception, and may lose an open device
later. A posted callback is dropped when its looper has quit. An uncaught
exception ends the process (`ProcessDies`), and the app starts anew.

`owed`, `late`, `leaked` and `torn` are history variables: the opens whose permit
no callback has released, the releases in excess, the permits lost when
`openCamera` threw, and whether `closeCamera` overtook the end of `onOpened`.

Assumed: `setUpCameraOutputs` always makes the reader, and no thread is
interrupted (the `InterruptedException` branches are not taken).

### FrameCapture

One frame loop (name the file, `cameraReady = false`, `takePicture`, wait), the
state machine `mState` with the codes of the source, and the image's way through
reader and saver. `process` is a function from state and result codes to what is
to be done; each looper decides in one step and acts in a later one, so that two
loopers can both decide on the same `mState`. `asked` and `shots` are history.
The constants choose the environment: which AF/AE codes the device reports and
whether it omits them (`Null`), whether the exposure slider has moved the preview
to the UI looper (`UiPreview`), whether the loop itself is the one of
`runProcess.onPostExecute` (`OnUiThread`), and whether the sleep before a frame
covers the last image (`SleepSuffices`). The camera stays open throughout.
An environment without `UiPreview` is that of the first acquisition after the camera was
opened, or of one right after a `runFPMMode`: every other task ends with
`slideToExposuretime`, after which the preview's results come on the UI looper until
the next `unlockFocus`. `frame_races` and `AcquireTasks` have that case.

### StillCamera and FrameCaptureRefinement

`StillCamera` is what a task expects of the camera: `Ask`, then exactly one `Expose`,
then `Ready`; and each exposed picture is filed, sooner or later, under the name that
was given with its request. `FrameCaptureRefinement` maps `FrameCapture` to it: a
request is open from `takePictureLock` until `cameraReady`, a picture is due while it is
in the sensor, the reader or the saver. `ImplementsStillCamera` includes the abstract
fairness: every request is answered.

### PausedAcquisition

Extends `FrameCapture` with the UI thread's `onPause` and `onResume`. `closeCamera`
clears session, device and reader in three steps while the worker and the background
looper go on. Each use of a cleared field is what the code makes of it: `takePicture`,
`runPrecaptureSequence` and `unlockFocus` throw a `NullPointerException` that nobody
catches, `captureStillPicture` returns when the device is null and throws when only the
session is, an `ImageSaver` whose image was closed throws. After `onResume` the session is
new, while `mState` and `cameraReady` are the old ones. `interrupted` and `dropped` are
history. Opening is one step here; `CameraLifecycle` has its details.

### GammaCalib

`findMax` on the serial executor, the UI thread with its clicks, `onProgressUpdate` and
`onPostExecute`, the background looper with `process`, `unlockFocus` and
`onImageAvailable`, and the device. The nested loops over apertures and the loop over
grays are one counter `n`. Kept as they are: `btnCalibrate` is never disabled; the lists
belong to the activity and are cleared at the click, not at the start of the task, and
not at all when `mkdirs` fails; `ArrayList.add` is a read of the size and a write;
`process` reads the AF state where its variables say AE; `normalize` divides by an entry
it overwrites. A mean carries the pattern that lit its picture, which the code does not
know, so that a property can ask for it. Each commit of the preferences is a step of
its own, and the process may be killed between any two steps and started again.
`gammaValList` is left out: nothing reads it. `updatePresentation` in `onPreExecute` finds
its presentation in place (`PresentationRoute` has the other cases). `Null` stands for the
NaN of a division by 0 and for the entries that an `add` after a raced `clear` skips.
Devices that omit the AF state are left to `FrameCapture`. `fitter.fit` may throw for any
points (`life = "diverged"`). `cameraReady` is set by the image, so the completion of a
still may be delivered after the next `takePicture`: the sleep before a picture
(`Settled`) waits for the projector and the image, not for it. `unlockFocus` then takes
the new request back (`overtaken`, history), and the worker waits for ever.

### InterruptedCalib

Extends `GammaCalib` with what the user can do meanwhile. `onPause` clears session,
device and reader in three steps, and each use of a null field ends the process
(`Fails`), as only `CameraAccessException` is caught; `onResume` brings a new session
that inherits `mState` and `cameraReady`. `slideToExposuretime`, which also stands for
`setISO`, puts the preview on the UI looper: `process` runs there and on the background
looper, each looper reads `mState` in one step (`decide`) and acts in a later one, the
still's completion comes on the looper that captured it, and `unlockFocus` brings the
preview back. `interrupted`, `stills` and `raced` are history: a request that was open at
a pause, and requests that got more than one still. Deaths are left to `GammaCalib`.

### PresentationRoute

The media router, displays that come and go, and the UI looper with its late messages:
the router's callback, the `Presentation`'s own listener, the dismiss message, the
progress of a worker. `updatePresentation` is one operator with its three outcomes,
called from five handlers. `activity` is either of the two activities, whose code differs
in `onPause` only. A window is a display and a number, a picture the number of the
pattern it shows.

### NativeImage

Pure functions, one call per behaviour. A `Mat` has its size and the value at each place;
in a spectrum the value is the frequency, so that a result says where everything went.
`circularShift` is its four copies in order. `calcDPC` keeps the ratios exactly, as
multiples of 1/`Scale`, a constant that every sum of two gray values in use divides.
Undefined results (a division by 0 that ends in a conversion, a
read outside an image) are the value `Undefined`, exceptions of OpenCV `Failed`. What
OpenCV does is external and taken from how the code uses it: `Mat.ones` on three
channels fills the first only, an integer division by 0 gives 0, and a copy of an empty
rectangle, which a shift by a multiple of a side makes, may be accepted or refused
(`EmptyCopy`).

### AcquireTasks

The layer above: the user (`Touch`: at most `MaxEvents` actions on the `Controls`
chosen), the serial executor's worker, the UI thread's queue, and the camera reduced
to "a request becomes a still, lit by what the projector shows at that moment".
A pattern is named by what it was made for (`Default`, `UserPattern`,
`FramePattern`, `Optimum`), a directory by mode, background flag and the time
stamp (`clock`) of the touch that made it, a file by directory, task kind and
frame. So a picture records which task asked for it and which pattern lit it.

All five `run*Mode` tasks are one loop, `doInBackground`, `drawFrame`, `nameFrame`,
`takePicture`, `frameReady`, `saveSource`, `taskDone`, with their differences in
`MyDir`, `InLoop`, `NextFrame` and `SourceFiles`; `runCapture` enters it at
`nameFrame`. The oddities of the source are kept: `runMMMode` writes its new
directory to `g_BF_path` and goes on using the fixed `g_MM_path`; `runBFMode`
saves its light sources there too; only `runDPCMode` makes a new background
directory; `setAcqMethod` makes a pattern and does not show it.

Abstracted: the shape of patterns (with `global_na`, centre and
`g_illumination_processed`); `mkdirs` succeeds; the background inputs of
`runProcess`, which it replaces by ones when they are missing; the ImageSaver,
which is part of `onImageAvailable`; the steps inside `process`.

The camera's callbacks come on two loopers. `preview` says where those of the repeating
request do: on the background looper after `unlockFocus`, on the UI looper after
`slideToExposuretime`, which the exposure slider calls and every task but `runFPMMode`
at its end. `process` reads `mState` on a looper that is free and captures in a later
step of that looper, where the completion then comes too; so two loopers can take two
stills for one request. `Prompt` excludes just that: no looper reads `mState` while the
other is about to capture. While `runProcess.onPostExecute` spins, the UI looper delivers
nothing. `SleepSuffices` means that the `mSleep` between
`publishProgress` and the picture (200 to 500 ms) lets the UI thread work off its
messages and the last image arrive, unless the UI thread itself is held up in
`runProcess.onPostExecute`. `runCapture` does not sleep.

`Careful` users touch the screen only when nothing is going on; others any time
the UI thread is in its looper.

## 3. What the runs check

| Run | Instance | Checks | Result |
|---|---|---|---|
| `lifecycle` | 2 devices, 2 late losses | types, `PermitAccounting`, `OpenCloseExclusive`, `OpenWaitsOnlyOnItself`, `CameraReleasedOnPause`, `PauseCompletes` | hold |
| `frame_clean` | 5 frames, full results | types, `OnePicturePerFrame`, `ReaderWithinLimit`, `EveryFrameSaved`, `ImplementsStillCamera` | hold |
| `frame_races` | 2 frames, two loopers, late images | `NeverFromTheFuture`, `AcquisitionCompletes` | hold |
| `paused` | 3 frames, 2 pauses | `EachFileItsOwnFrame`, `MissingOnlyIfDropped`, `HangOnlyIfInterrupted` | hold |
| `tasks_careful` | all modes and controls, 4 rotations, counts 0 and 2, 5 touches | types, `LitByOwnPattern`, `SourceSavedWithFrame`, `DpcSetComplete` | hold |
| `tasks_hasty` | DPC, 1 rotation, 3 touches at any time, not `Prompt` | `ResultBesideInputs`, `ProcessFindsItsInputs`, `BackgroundKeptApart`, `EveryTaskFinishes` | hold |
| `tasks_optimum` | DPC, 1 rotation, a careful user who acquires and processes | `OptimumIsTaken` | violated: A 1555 waits on the looper that must answer |
| `gamma` | 3 apertures, 1 gray, 2 clicks, 1 death | types, `MapOfOwnApertures`, `RampAtTheCentre`, `StoredAsAPrefix`, `CalibrationEnds` | hold |
| `interrupted` | 2 apertures, 1 gray, 1 click, 1 pause, 1 touch of the slider | `MapOfOwnApertures`, `ThrowsOnlyIfInterrupted`, `EndsUnlessTakenBack` | hold |
| `gamma_map` | 2 apertures, 1 click | `MapInPercent` | violated: G 1452 divides by what G 1454 overwrites |
| `presentation` | both activities, 5 events | types, `NoOrphanWindow`, `SettledOnTheRoute`, `ProjectorLit` | hold |
| `native` | sides 1 to 5 (spectra 10), shifts of both signs, 2 pixels of 4 grays | `ShiftIsCyclic`, `SpectrumInOrder`, `DpcIgnoresShading`, `RoundingErasesNeverInverts` | hold |

The two violations are quoted under `findings` in `PROJECT.json`.

`EveryTaskFinishes` excepts the state in which the UI thread waits for a callback of its
own looper (`WaitsForItself`); that this state is reached, by an acquisition and a
processing after it, is what `tasks_optimum` shows. It is not certain to happen: the
result of `takePicture`'s own request comes on the background looper, and when the focus
is locked by then the picture is taken there. The type invariants of the two modules that
extend another, `PausedTypeOK` and `InterruptedTypeOK`, hold in `paused` and `interrupted`
too, the first also by theorem; the runs leave them out.

Several runs hold only under an assumption that the code does not enforce, and each
of these assumptions is a constant, or a bound, of a configuration. Changing it
shows what is lost:

- `CameraClosedBeforeExit` ("prevent the app from exiting before closing the camera",
  A 2472) as invariant of `lifecycle`: violated even with `MaxLate = 0`, because A 2180
  releases the lock before A 2181 stores the device. `CameraReleasedOnPause` is what
  remains true.
- `SleepSuffices = FALSE` in `frame_clean`: a late image takes the name of the next frame
  (A 2450), and neither `EachFileItsOwnFrame` nor the refinement holds.
- `OnUiThread = TRUE`, `UiPreview = TRUE` in `frame_races`: `runProcess.onPostExecute`
  (A 1555) waits on the UI thread for a callback of its own looper, for ever.
- `Careful = FALSE` in `tasks_careful`: a second acquisition queued behind the first has
  its first pattern replaced by the first one's default circle (A 1289), against
  `LitByOwnPattern`.
- `CaptureSourceTrue` ("Capture with current light source!", A 780) as invariant of
  `tasks_careful`: `setAcqMethod` makes a pattern that is not shown (A 3051), and
  `runCapture` saves it (A 813).
- `Prompt = FALSE` in `tasks_careful`: two loopers capture for one request, and the
  second image is lit by, or saved for, the next frame.
- `MaxClicks = 2` in `gamma`: the properties of the map except the tasks that shared the
  lists (`disturbed`); those do throw and mix values.
- `HiddenWhenStopped` ("Dismiss the presentation when the activity is not visible", A 741)
  as invariant of `presentation`: `AcquireActivity` does not remove its callback in
  `onPause` (A 681), and a display that changes while it is stopped opens a new window.
- `MissingBackgroundIsNeutral` ("handle case if background is empty", A 1374) as invariant
  of `native`: a missing background becomes `Mat.ones` of a three-channel type (A 1394),
  which is 0 in the green channel that is used; the quotient is 0 and the stretched image
  is not defined.
- `AfStates` with `Null` in `frame_races`: `process()` captures without leaving
  `STATE_WAITING_LOCK` (A 2495), and every such result takes one more still;
  `NeverFromTheFuture` and `AcquisitionCompletes` still hold, in 1.1 million states.
- `RampAtTheCentre` as invariant of `interrupted` with `Means = {0, 200}`: with two stills for one request the
  mean that `doInBackground` compares and the one it adds to the list can differ.
- `overtaken` left out of `CalibrationEnds` in `gamma`: the completion of a still after
  the next `takePicture` sets `mState` back to `STATE_PREVIEW` (G 1135).

**Bounds.** Two devices are one that was opened before an `onPause` and one after;
device objects are used again once nobody refers to them, so behaviours are not
limited to two opens. Five frames are a whole DPC acquisition; two are enough for
an image to meet the next frame's name. `Depth` bounds queued capture results: more
of them only repeat a decision on the same `mState`. `MaxPending` keeps the user
from moving the slider endlessly while stills are in flight. For tasks, two touches
make two tasks overlap on worker and UI thread and a third starts one behind them; five careful touches let the
user change the mode, the count and the pattern between two acquisitions. The counts
0 and 2 are the empty loop and one with a second frame; `runFPMMode` then takes 4.
Two pauses interrupt an acquisition and the one that was resumed. Three apertures let
the brightest be first, last or between; two clicks overlap, one death falls between
any two commits. One pause and one touch of the slider fall on any step of a calibration
and on each other; two apertures are a request before them and one after. Five events
are, for example, an unplugged display, a new one, another choice of route and two
patterns. Sides from 1 to 5 have even and odd, equal and unequal
pairs; spectra up to 10 include the sizes 7, which is padded, and 9, which is odd and
not.

**Deadlock** is checked in `lifecycle` and `frame_clean`, and in `gamma`, where the preview
never stops. The others may stop: the acquisition is over, the process has died, the
user has used up the touches, or the one call of `native` has returned.

**Fairness.** Threads that are not blocked go on and loopers run what is in their
inbox (weak fairness of each thread's actions), because Android schedules runnable
threads and a looper's queue is FIFO. The camera service answers an open, completes
a still and delivers its image (weak fairness). In `FrameCapture`, strong fairness of
a result with locked focus and of a completion on each looper: the preview repeats
as long as it runs, a device that never locks its focus is excluded, and a looper
shared by results and completions gets to each; the same in `PausedAcquisition`, in
`GammaCalib`, where only the background looper delivers, and in `InterruptedCalib` on both
loopers. In `AcquireTasks` each thread and each looper that is not blocked goes on; of
the background looper without the preview nothing is assumed but what it has begun.
`EndsUnlessTakenBack` is about a user who, once back, stays (`<>[]session`).
`PresentationRoute` only assumes
that the UI looper delivers its messages. Nothing is assumed of the user, who need not
come back or click, of losses, deaths and exceptions, and of displays.

## 4. What is proved

Each component's proofs are in modules of their own: `CameraLifecycleProofs`,
`FrameCaptureProofs` and `FrameCaptureCleanProofs` (with the refinement),
`PausedAcquisitionProofs`, `AcquireTasksProofs`, `PresentationRouteProofs`,
`GammaCalibProofs`, `NativeImageProofs`. The inductive invariants are defined in the modules
they are about.
The theorems hold for every value of the constants allowed by the modules' `ASSUME`s
and, where the second column says so, under a choice of environment:

| Theorem | Environment | Says |
|---|---|---|
| `TypeCorrect`, `CaptureTypeCorrect`, `TasksTypeCorrect`, `RouteTypeCorrect`, `CalibTypeCorrect` | any | `TypeOK` of each module |
| `PermitsAccounted` | any | `PermitAccounting` |
| `Exclusive` | any | `OpenCloseExclusive` |
| `WaitsOnlyOnItself` | any | `OpenWaitsOnlyOnItself` |
| `ReleasedOnPause` | any | `CameraReleasedOnPause` |
| `NothingFromTheFuture` | any | `NeverFromTheFuture` |
| `CleanOnePicture` | `Clean` | `OnePicturePerFrame` |
| `CleanReader` | `Clean` | `ReaderWithinLimit` |
| `CleanFiles` | `Clean` | `EachFileItsOwnFrame` |
| `CleanRefinement` | `Clean` | `FrameCapture` implements the safety part of `StillCamera` |
| `PausedTypeCorrect` | `Clean` | `PausedTypeOK` |
| `PausedFiles` | `Clean` | `EachFileItsOwnFrame` with pauses |
| `PausedKeepsPictures` | `Clean` | `MissingOnlyIfDropped` |
| `ResultsBesideInputs` | any | `ResultBesideInputs` |
| `BackgroundApart` | any | `BackgroundKeptApart` |
| `ProcessHasItsInputs` | `SleepSuffices` | `ProcessFindsItsInputs` |
| `PicturesLit` | `Careful`, `SleepSuffices`, `Prompt` | `LitByOwnPattern` |
| `SourcesTrue` | `Careful`, `SleepSuffices`, `Prompt` | `SourceSavedWithFrame` |
| `DpcSetsComplete` | `Careful`, `SleepSuffices`, `Prompt` | `DpcSetComplete` |
| `NoWindowLeftBehind` | any | `NoOrphanWindow` |
| `SettlesOnTheRoute` | any | `SettledOnTheRoute` |
| `StaysHidden` | any | `HiddenOnceRemoved`; it is about `GammaCalibActivity`, `AcquireActivity` never removes its callback (see `HiddenWhenStopped` above) |
| `StoredPrefix` | `SleepSuffices`, `ReportsAf` | `StoredAsAPrefix` |
| `OwnApertures` | `SleepSuffices`, `ReportsAf` | `MapOfOwnApertures` |
| `RampCentred` | `SleepSuffices`, `ReportsAf` | `RampAtTheCentre` |
| `ShiftsAreCyclic` | any | `ShiftIsCyclic` |
| `SpectraInOrder` | any | `SpectrumInOrder` |
| `ShadingIgnored` | any | `DpcIgnoresShading` |
| `RoundingNeverInverts` | any | `RoundingErasesNeverInverts` |
| `FlatWithoutBackgrounds` | any | with both backgrounds missing, `runProcess` has no defined result for any images |

The environments are the ones of the runs that check the same properties. `Clean` is
one looper (`~UiPreview`), `SleepSuffices`, and a device that reports its AF state
(`ReportsAf`: `Null` is not among `AfStates`). A result without AF state sends
`process` to `captureStillPicture` again and again (A 2496), so that a frame has several
pictures; without `SleepSuffices` an image takes the name or the light of the next frame.
With the preview on the UI looper two loopers decide over one `mState`. All three are real
behaviours of the code, and section 3 says what they break; the theorems say that nothing
else does.

*Lifecycle.* `PermitAccounting` is inductive with the types, and gives
`OpenCloseExclusive` at once: with no late release there is one permit, and
`closeCamera` has it. `OpenWaitsOnlyOnItself` needs more. When `openCamera` finds no
permit, the accounting says that someone owes one; the invariant must say that
it is not an open left over from before the last `onPause`. `LifecycleInv` adds
that the background thread lives from `onResume` to the end of `closeCamera`
(`BackgroundWhileResumed`), and that opens which have lost their callback were paid
for by late releases (`StrandedPaidFor`).

*Release.* `CameraReleasedOnPause` is about what `closeCamera` can reach. `ReleaseInv` adds
to `LifecycleInv` that a device's callbacks come on its own looper and after what they
tell of (`CallbacksInStep`), that the background looper has the callbacks of one device at
most, and none before `openCamera` (`BackgroundInStep`), that the UI looper opens and
loses no device meanwhile (`UiLooperDone`), and that an open device of the background
looper is in `mCameraDevice` or has the end of its `onOpened` before it
(`DeviceInReach`).

*Still capture.* `NeverFromTheFuture` speaks of files; a picture becomes a file
after passing `exposed` and `bgQueue`. `CaptureInv` says of both that they hold
pictures of frames already asked for, and of the loop that it sets the name before
it asks (`NamesInStep`). `RestsUntilAsked` covers the time before the first request,
when a picture would belong to no frame.

*Still capture in a clean environment.* `StepInv` adds that only the background looper
decides (`OneLooper`), that a decision taken on an `mState` still finds it
(`DecisionInStep`), how request, completion and `cameraReady` follow each other
(`RequestInStep`), how many stills each frame has had (`ShotsInStep`), and where its
image is (`ImagesInStep`): of the many contents the queues could have, `OneInFlight`
leaves six. `CleanInv` adds that no picture is lost and no image refused. The refinement
follows from it: `takePictureLock` is `Ask`, `captureStillPicture` is `Expose`, the
completion is `Ready`, the `ImageSaver` is `File`, and every other step changes nothing
of the abstract state.

*Pauses.* `StepInv` is proved action by action, so that the same lemmas serve
`PausedAcquisition`, whose actions are those of `FrameCapture` with a guard, or change
only what `StepInv` does not tie down. `PausedInv` is `StepInv` with the picture
balance `Kept(dropped)`: a picture is on its way, in its file, or in `dropped`.

*Presentation.* A message tells of something that has already happened, and more may have
happened since. `RouteInv` says so for each kind: a dismissed window is gone before its
message is delivered (`WindowsInStep`); the router has a display that is there, or will
look again (`RouteInStep`); a resumed activity follows the route unless that has lost its
display (`FollowsRoute`); an older picture is shown only while a progress message is
queued (`PictureInStep`). `SystemInStep` and `ShownInStep` say that displays and windows
are new when they come.

*Tasks.* `runProcess` reads `g_DPC_path` when it is made and again when it writes.
`OneProcess` says why the two agree: there is at most one `runProcess` between
its `onPreExecute` and its `onPostExecute`, the buttons are disabled as long as it is
queued or its result waits in the UI queue, and its input directory is still
`g_DPC_path`. It needs to speak of both queues, since the task moves from one to
the other while the next one may already run. `BackgroundInv` carries the agreement
of flag and directory from the fields over the executor's queue and `full_image_file`
to the files. For `ProcessFindsItsInputs`, `InputsInv` follows a DPC directory from the
touch that makes it: either its acquisition is before the `runProcess` in the queue
(`ObjectFirst`, `AtHead`), or the frames it is past are filed or on their way
(`FramesFiled`, `InputsFiled`). For careful users, `CarefulInv` adds that one task is
going on (`OneTask`), that the projector shows what the task has drawn once its
progress is delivered, and the images on their way were lit by it (`LampInStep`), that
the camera works, on one looper at a time, for the one who waits for `cameraReady`
(`CameraInStep`), and the same of what is saved (`SourceTrue`, `SetFiled`).

*Calibration.* `TypeInv` needs `WorkerInStep`: how far the counter `n` may be at each
place of the loop. `StoredInv` adds the lamp and
the camera as above, that tasks run in the order of their clicks (`TasksInOrder`), and
that each commit moves a border between two calibrations by one key (`SavingInOrder`),
so that only a kill can leave one behind. `CalibInv` adds that an undisturbed task is
alone (`Alone`), and follows its lists through the queue, the worker, the UI thread and
the preferences (`ListsInStep`). `RampAtTheCentre` rests on `IsFirstMax`: the comparison
of `doInBackground` and `getMaxIndex` both take the first of the largest values. That a
list has a largest value is derived from the well-foundedness of `<`, as a least
counterexample.

*Native images.* Each behaviour is one call, so these theorems are about what the
functions return, for every size of image and range of gray values (`MaxSide`, `MaxGray`,
`Lit` and `Scale` are any that the assumptions allow; `OutcomeAssumption` only keeps the
values `Failed`, `Undefined` and `Missing` apart from images). They rest on the uniqueness
of quotient and remainder (`DivUnique`). The corrected remainder of C is that of TLA+
(`ShiftOfIsRemainder`); the four rectangles of `circularShift` cover every place once, and
the place each copies from is the remainder of the rotation (`ShiftTurns`), whatever is in
the image. Then `ifftShift` undoes `fftShift` because the two halves of a side add up to it
(`TurnedBack`), and a new Mat with rows and columns exchanged cannot hold the first
rectangle (`TransposedFails`). For even sides half a turn to the left is one to the right
(`HalfTurn`), which brings the spectrum, the kernel and the rows of the vector
(`RowByRow`) together. For `calcDPC`, `Scale` being a common multiple makes the contrast of
doubled gray values the same and that of exchanged ones the opposite (`ContrastFacts`);
least and greatest value exist by the well-foundedness of `<` and change places
(`OppositeExtremes`); and two rounded shares of 255 add up to 255 up to one
(`RoundedShares`). For `runProcess`, rounding half to even keeps the order of two
quotients (`RoundsInOrder`): if a larger one were rounded to a smaller integer, both would
lie half way between two neighbours, and both neighbours would have to be even.

Only model-checked: all liveness (`PauseCompletes`, `EveryFrameSaved`,
`AcquisitionCompletes`, `EveryTaskFinishes`, `HangOnlyIfInterrupted`, `CalibrationEnds`,
`EndsUnlessTakenBack`, `ProjectorLit`, and the fairness in `ImplementsStillCamera`), which
is out of the provers' reach; the properties of `interrupted`; and the two violations.
Every other property of the runs is proved.

## 5. What could come next

The plan the project was built along is done but for one step: every component of
section 1 that carries state of its own has its module, run and proofs, except that the
invariants of `InterruptedCalib` are model-checked only. The rest is out of reach of the tools
(liveness for every value of the constants; what a padded spectrum holds, which would need
the arithmetic of `cv::dft`), or is a matter of upkeep: when the code enforces one of the
assumptions of section 3, its constant can go, and with it a row's environment in
section 4.

## 6. Not modelled

- The floating-point computations: `qDPC_loop`, the other complex arithmetic of
  `cvComplex.cpp`, the curve fit, the network. They have no state, and what they compute
  is beyond small integers. `NativeImage` has the parts that can be said exactly.
- Drawing (`CreatePatterns`), where a pattern's shape matters to no other part.
- The values `setISO`, the zoom and the exposure slider compute (what their restart of the
  preview does is modelled), `chooseOptimalSize`, `getOrientation`: single
  formulas without a second reader of their state.
- The lock and the failing callbacks of `GammaCalibActivity`'s `openCamera` and
  `closeCamera`, which are those of `AcquireActivity`; what a pause does to a calibration
  is in `InterruptedCalib`.
- `CaptureImageFragment` (two copies), the file and folder choosers, `Dataset`, `Logger`,
  `computeFocusDPC`, the Java `fftshift` and `ifftshift`: code that no activity reaches.
- Navigation and views, without state of their own.
- `jni-native_OLD`, `openCVLibrary300`, `beamerscope/src/main/include` and the generated
  protocol buffers: more than 99 in 100 lines of C++ in the repository are the vendored
  sources of TensorFlow, protobuf, Eigen and OpenCV, which are not this program. Of its
  own C++, about 1100 lines, most is floating-point arithmetic, display helpers for
  debugging and code that is commented out.
