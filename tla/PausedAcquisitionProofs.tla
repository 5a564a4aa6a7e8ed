---------------------- MODULE PausedAcquisitionProofs -----------------------
(***************************************************************************)
(* An acquisition that is paused and resumed at any moment, for every      *)
(* number of frames and pauses: what FrameCaptureCleanProofs shows of each *)
(* action of FrameCapture, and of the actions the pauses add.              *)
(***************************************************************************)
EXTENDS PausedAcquisition, FrameCaptureCleanProofs

(* The ImageSavers of a queue of at most two messages.                     *)
LEMMA ShortSavers ==
    ASSUME NEW q, Len(q) \in 0..2
    PROVE  /\ Len(q) = 0 => Savers(q) = <<>>
           /\ Len(q) = 1 /\ q[1].kind # "saver" => Savers(q) = <<>>
           /\ Len(q) = 1 /\ q[1].kind = "saver" => Savers(q) = <<q[1]>>
           /\ Len(q) = 2 /\ q[1].kind = "saver" /\ q[2].kind # "saver" => Savers(q) = <<q[1]>>
  <1> DEFINE first == IF q[1].kind = "saver" THEN Append(<<>>, q[1]) ELSE <<>>
             second == IF q[2].kind = "saver" THEN Append(first, q[2]) ELSE first
             w == [n \in 0..Len(q) |-> IF n = 0 THEN <<>> ELSE IF n = 1 THEN first ELSE second]
             Step(u, n) == IF n = 0 THEN <<>>
                           ELSE IF q[n].kind = "saver" THEN Append(u[n - 1], q[n])
                           ELSE u[n - 1]
             Is(u) == u = [n \in 0..Len(q) |-> Step(u, n)]
  <1>1. \A n \in 0..Len(q) : w[n] = IF n = 0 THEN <<>> ELSE IF n = 1 THEN first ELSE second
    OBVIOUS
  <1> HIDE DEF w
  <1>2. \A n \in 0..Len(q) : w[n] = Step(w, n)
    <2> TAKE n \in 0..Len(q)
    <2>1. CASE n = 0
      BY <1>1, <2>1
    <2>2. CASE n = 1
      <3>1. w[n - 1] = <<>> /\ w[n] = first
        BY <1>1, <2>2
      <3> QED BY <3>1, <2>2
    <2>3. CASE n = 2
      <3>1. w[n - 1] = first /\ w[n] = second
        BY <1>1, <2>3
      <3> QED BY <3>1, <2>3
    <2> QED BY <2>1, <2>2, <2>3
  <1>3. Is(w)
    BY <1>2 DEF w
  <1>4. PICK v : v = CHOOSE u : Is(u)
    OBVIOUS
  <1>5. Is(v)
    BY <1>3, <1>4
  <1>6. \A n \in 0..Len(q) : v[n] = Step(v, n)
    BY <1>5
  <1>7. Savers(q) = v[Len(q)]
    BY <1>4 DEF Savers
  <1> HIDE DEF Is, Step
  <1>8. v[0] = <<>>
    <2>1. 0 \in 0..Len(q)
      OBVIOUS
    <2> QED BY <2>1, <1>6, Zenon DEF Step
  <1>9. Len(q) > 0 => v[1] = first
    <2>1. Len(q) > 0 => 1 \in 0..Len(q)
      OBVIOUS
    <2>2. Len(q) > 0 => v[1] = Step(v, 1)
      BY <2>1, <1>6, Zenon
    <2>3. Len(q) > 0 => v[1] = IF q[1].kind = "saver" THEN Append(v[0], q[1]) ELSE v[0]
      BY <2>2 DEF Step
    <2> QED BY <2>3, <1>8
  <1>10. Len(q) = 2 => v[2] = second
    <2>1. Len(q) = 2 => 2 \in 0..Len(q)
      OBVIOUS
    <2>2. Len(q) = 2 => v[2] = Step(v, 2)
      BY <2>1, <1>6, Zenon
    <2>3. Len(q) = 2 => v[1] = first
      BY <1>9
    <2> HIDE DEF first
    <2> QED BY <2>2, <2>3 DEF Step
  <1> HIDE DEF first, second
  <1>11. Len(q) = 0 => Savers(q) = <<>>
    BY <1>7, <1>8
  <1>12. Len(q) = 1 => Savers(q) = first
    BY <1>7, <1>9
  <1>13. Len(q) = 2 => Savers(q) = second
    BY <1>7, <1>10
  <1>14. Append(<<>>, q[1]) = <<q[1]>>
    BY ShortSequences
  <1> QED BY <1>11, <1>12, <1>13, <1>14 DEF first, second

LEMMA SaversCases ==
    ASSUME NEW a, NEW f
    PROVE  /\ Savers(<<>>) = <<>>
           /\ Savers(<<Available(a)>>) = <<>>
           /\ Savers(<<Saver(f)>>) = <<Saver(f)>>
           /\ Savers(<<Saver(f), Available(a)>>) = <<Saver(f)>>
  <1>1. Available(a).kind = "available" /\ Saver(f).kind = "saver"
    BY DEF Available, Saver
  <1>2. Savers(<<>>) = <<>>
    <2> DEFINE q == <<>>
    <2>1. Len(q) = 0
      OBVIOUS
    <2> HIDE DEF q
    <2>2. Savers(q) = <<>>
      BY <2>1, ShortSavers
    <2> QED BY <2>2 DEF q
  <1>3. Savers(<<Available(a)>>) = <<>>
    <2> DEFINE q == <<Available(a)>>
    <2>1. Len(q) = 1 /\ q[1].kind # "saver"
      BY <1>1
    <2> HIDE DEF q
    <2>2. Savers(q) = <<>>
      BY <2>1, ShortSavers
    <2> QED BY <2>2 DEF q
  <1>4. Savers(<<Saver(f)>>) = <<Saver(f)>>
    <2> DEFINE q == <<Saver(f)>>
    <2>1. Len(q) = 1 /\ q[1].kind = "saver" /\ q[1] = Saver(f)
      BY <1>1
    <2> HIDE DEF q
    <2>2. Savers(q) = <<q[1]>>
      BY <2>1, ShortSavers
    <2> QED BY <2>1, <2>2 DEF q
  <1>5. Savers(<<Saver(f), Available(a)>>) = <<Saver(f)>>
    <2> DEFINE q == <<Saver(f), Available(a)>>
    <2>1. Len(q) = 2 /\ q[1].kind = "saver" /\ q[1] = Saver(f) /\ q[2].kind # "saver"
      BY <1>1
    <2> HIDE DEF q
    <2>2. Savers(q) = <<q[1]>>
      BY <2>1, ShortSavers
    <2> QED BY <2>1, <2>2 DEF q
  <1> QED BY <1>2, <1>3, <1>4, <1>5

------------------------------------------------------------------------------
(* A step that changes the state machine only, in ways StepInv allows.     *)
LEMMA MachineStepKeeps ==
    ASSUME StepInv, UNCHANGED <<loopVars, cameraReady, images, asked, shots>>, dead' \in BOOLEAN,
           MachineType', OneLooper', DecisionInStep', RequestInStep', RestsUntilAsked',
           completions'["bg"] \in {0, completions["bg"]},
           mState' \in {mState, STATE_PICTURE_TAKEN}
    PROVE  StepInv'
  <1>0. CaptureInv /\ TypeOK /\ completions["bg"] \in 0..1
    BY StepFacts DEF StepInv, CaptureInv
  <1>1. LoopType' /\ ImageType'
    BY <1>0 DEF TypeOK, LoopType, ImageType, loopVars, images
  <1>2. /\ NamesInStep' /\ NeverFromTheFuture' /\ EachFileItsOwnFrame'
        /\ (exposed \in Seq(1..asked))' /\ (bgQueue \in Seq(Past(asked)))'
    BY <1>0 DEF CaptureInv, NamesInStep, NeverFromTheFuture, EachFileItsOwnFrame, Past,
                StepInv, loopVars, images
  <1>3. CaptureInv'
    BY <1>1, <1>2 DEF CaptureInv, TypeOK
  <1>4. ShotsInStep'
    BY <1>0 DEF StepInv, ShotsInStep, loopVars, STATE_PICTURE_TAKEN
  <1>5. ImagesInStep'
    BY ImagesUntouched DEF StepInv, loopVars, images
  <1> QED BY <1>2, <1>3, <1>4, <1>5 DEF StepInv

(* An exception changes nothing but dead.                                  *)
LEMMA CrashKeepsStep == ASSUME StepInv, Crash PROVE StepInv'
  <1>1. UNCHANGED <<loopVars, cameraReady, machine, images, asked, shots>> /\ dead' \in BOOLEAN
    BY DEF Crash
  <1>2. CaptureInv /\ TypeOK /\ MachineType
    BY DEF StepInv, CaptureInv, TypeOK
  <1>3. MachineType'
    BY <1>1, <1>2, MachineSame
  <1>4. OneLooper' /\ DecisionInStep' /\ RequestInStep' /\ RestsUntilAsked'
    BY <1>1, <1>2 DEF StepInv, CaptureInv, OneLooper, DecisionInStep, RequestInStep, Open,
                      RestsUntilAsked, machine, loopVars
  <1> QED BY <1>1, <1>3, <1>4, MachineStepKeeps DEF machine

(* captureStillPicture without a device leaves STATE_PICTURE_TAKEN behind. *)
LEMMA NoDeviceKeepsStep == ASSUME StepInv, stillWithoutDevice PROVE StepInv'
  <1>1. /\ todo["bg"] \in {"still", "takenStill"}
        /\ todo' = [todo EXCEPT !["bg"] = "nothing"]
        /\ UNCHANGED <<loopVars, cameraReady, repeating, results, completions, images,
                       asked, shots, dead>>
    BY DEF stillWithoutDevice
  <1>2. /\ loop = "wait" /\ ~cameraReady /\ asked \in Frame /\ completions["bg"] = 0
        /\ todo["bg"] = "takenStill" /\ asked = frame
    BY <1>1, StillFacts
  <1>3. mState' = STATE_PICTURE_TAKEN
    BY <1>2 DEF stillWithoutDevice
  <1>4. CaptureInv /\ TypeOK /\ MachineType /\ dead \in BOOLEAN /\ "bg" \in Looper
    BY StepFacts DEF StepInv, CaptureInv, TypeOK, LoopType
  <1>5. MachineType'
    BY <1>1, <1>3, <1>4 DEF MachineType, Todo, STATE_PICTURE_TAKEN
  <1>6. OneLooper' /\ DecisionInStep'
    BY <1>1, StepFacts DEF StepInv, OneLooper, DecisionInStep
  <1>7. RequestInStep'
    BY <1>1, <1>2, <1>3 DEF StepInv, RequestInStep, Open, loopVars, STATE_PREVIEW,
                            STATE_PICTURE_TAKEN
  <1>8. RestsUntilAsked'
    BY <1>1, <1>2, Constants DEF RestsUntilAsked, Frame
  <1> QED BY <1>1, <1>3, <1>4, <1>5, <1>6, <1>7, <1>8, MachineStepKeeps

(* onPause, closing the device, and a new session.                         *)
LEMMA CameraKeepsStep ==
    ASSUME StepInv, onPause \/ closeDevice \/ cameraOpened
    PROVE  StepInv' /\ UNCHANGED <<images, shots, dropped>>
  <1>1. /\ UNCHANGED <<loopVars, cameraReady, mState, todo, images, asked, shots, dead, dropped>>
        /\ repeating' \in {repeating, "none", "bg"}
        /\ results' \in {results, [results EXCEPT !["bg"] = 0]}
        /\ completions' \in {completions, [completions EXCEPT !["bg"] = 0]}
    BY DEF onPause, closeDevice, cameraOpened, history
  <1>2. /\ CaptureInv /\ TypeOK /\ MachineType /\ dead \in BOOLEAN /\ "bg" \in Looper
        /\ completions["bg"] \in 0..1 /\ completions \in [Looper -> Nat]
        /\ results \in [Looper -> 0..Depth] /\ Depth \in Nat
    BY StepFacts, Constants DEF StepInv, CaptureInv, TypeOK, LoopType
  <1>3. completions'["bg"] \in {0, completions["bg"]} /\ completions' \in [Looper -> Nat]
    BY <1>1, <1>2
  <1>4. results' \in [Looper -> 0..Depth]
    BY <1>1, <1>2
  <1>5. MachineType'
    BY <1>1, <1>2, <1>3, <1>4 DEF MachineType, Looper
  <1>6. OneLooper' /\ DecisionInStep'
    BY <1>1, StepFacts DEF StepInv, OneLooper, DecisionInStep
  <1>7. RequestInStep'
    BY <1>1, <1>2, <1>3 DEF StepInv, RequestInStep, Open, loopVars
  <1>8. RestsUntilAsked'
    BY <1>1, <1>2 DEF CaptureInv, RestsUntilAsked
  <1>9. StepInv'
    BY <1>1, <1>2, <1>3, <1>5, <1>6, <1>7, <1>8, MachineStepKeeps
  <1> QED BY <1>1, <1>9

(* Closing the reader leaves at most the one saver, and every picture that *)
(* was on its way is among the dropped ones.                               *)
LEMMA ReaderKeepsStep ==
    ASSUME StepInv, closeReader
    PROVE  /\ StepInv' /\ OnTheWay' \subseteq OnTheWay /\ dropped' = dropped \cup OnTheWay
           /\ UNCHANGED <<files, shots>>
  <1>1. /\ exposed' = <<>> /\ bgQueue' = Savers(bgQueue) /\ dropped' = dropped \cup OnTheWay
        /\ UNCHANGED <<loopVars, cameraReady, machine, files, asked, shots, dead>>
    BY DEF closeReader
  <1>2. \/ bgQueue' = <<>>
        \/ \E f \in Frame : bgQueue' = <<Saver(f)>> /\ bgQueue[1] = Saver(f) /\ f \in OnTheWay
    <2>1. CASE bgQueue = <<>>
      BY <1>1, <2>1, SaversCases
    <2>2. CASE bgQueue = <<Available(asked)>>
      <3>1. Savers(<<Available(asked)>>) = <<>>
        BY SaversCases
      <3> QED BY <1>1, <2>2, <3>1
    <2>3. ASSUME NEW f \in Frame, bgQueue = <<Saver(f)>>, exposed = <<>> \/ exposed = <<asked>>
          PROVE  bgQueue' = <<Saver(f)>> /\ bgQueue[1] = Saver(f) /\ f \in OnTheWay
      <3>1. Savers(<<Saver(f)>>) = <<Saver(f)>>
        BY SaversCases
      <3>2. Carried(<<>>, <<Saver(f)>>) = {f} /\ Carried(<<asked>>, <<Saver(f)>>) = {asked, f}
        BY CarriedCases
      <3>3. f \in OnTheWay
        BY <2>3, <3>2 DEF OnTheWay
      <3> QED BY <1>1, <2>3, <3>1, <3>3
    <2>4. ASSUME NEW f \in Frame, bgQueue = <<Saver(f), Available(asked)>>, exposed = <<>>
          PROVE  bgQueue' = <<Saver(f)>> /\ bgQueue[1] = Saver(f) /\ f \in OnTheWay
      <3>1. Savers(<<Saver(f), Available(asked)>>) = <<Saver(f)>>
        BY SaversCases
      <3>2. Carried(<<>>, <<Saver(f), Available(asked)>>) = {asked, f}
        BY CarriedCases
      <3>3. f \in OnTheWay
        BY <2>4, <3>2 DEF OnTheWay
      <3> QED BY <1>1, <2>4, <3>1, <3>3
    <2> QED BY <2>1, <2>2, <2>3, <2>4 DEF StepInv, ImagesInStep, OneInFlight
  <1>3. OnTheWay' \subseteq OnTheWay
    <2>1. CASE bgQueue' = <<>>
      <3>1. Carried(<<>>, <<>>) = {}
        BY CarriedCases
      <3> QED BY <1>1, <2>1, <3>1 DEF OnTheWay
    <2>2. ASSUME NEW f \in Frame, bgQueue' = <<Saver(f)>>, f \in OnTheWay
          PROVE  OnTheWay' \subseteq OnTheWay
      <3>1. Carried(<<>>, <<Saver(f)>>) = {f}
        BY CarriedCases
      <3>2. OnTheWay' = {f}
        BY <1>1, <2>2, <3>1 DEF OnTheWay
      <3> QED BY <2>2, <3>2
    <2> QED BY <1>2, <2>1, <2>2
  <1>4. OneInFlight' /\ ~ImageOutstanding'
    <2>1. OneInFlight'
      BY <1>1, <1>2 DEF OneInFlight
    <2>2. CASE bgQueue' = <<>>
      BY <1>1, <2>1, <2>2 DEF ImageOutstanding
    <2>3. ASSUME NEW f \in Frame, bgQueue' = <<Saver(f)>>
          PROVE  ~ImageOutstanding'
      BY <1>1, <2>3 DEF ImageOutstanding, Saver
    <2> QED BY <1>2, <2>1, <2>2, <2>3
  <1>5. ImagesInStep'
    BY <1>1, <1>3, <1>4 DEF StepInv, ImagesInStep
  <1>6. /\ CaptureInv /\ TypeOK /\ LoopType /\ MachineType /\ ImageType /\ NamesInStep
        /\ RestsUntilAsked /\ NeverFromTheFuture
        /\ bgQueue \in Seq(Past(asked)) /\ bgQueue \in Seq(QueueItem)
    BY DEF StepInv, CaptureInv, TypeOK, ImageType
  <1>7. bgQueue' \in Seq(Past(asked)) /\ bgQueue' \in Seq(QueueItem)
    <2>1. ASSUME NEW f \in Frame, bgQueue' = <<Saver(f)>>, bgQueue[1] = Saver(f), f \in OnTheWay
          PROVE  Saver(f) \in Past(asked) /\ Saver(f) \in QueueItem
      <3>1. Saver(f) \in QueueItem /\ Saver(f).img = f /\ Saver(f).file = f
        BY <2>1 DEF Saver, QueueItem, Frame
      <3>2. f <= asked
        <4>1. shots[f] = 1
          BY <2>1 DEF StepInv, ImagesInStep
        <4>2. ~(f > frame \/ (f = frame /\ loop # "wait"))
          BY <4>1 DEF StepInv, ShotsInStep
        <4> QED BY <4>2, StepFacts DEF StepInv, RequestInStep, Frame
      <3> QED BY <3>1, <3>2 DEF Past, Frame
    <2>2. CASE bgQueue' = <<>>
      BY <2>2
    <2>3. ASSUME NEW S, NEW x \in S PROVE <<x>> \in Seq(S)
      OBVIOUS
    <2>4. ASSUME NEW f \in Frame, bgQueue' = <<Saver(f)>>, bgQueue[1] = Saver(f), f \in OnTheWay
          PROVE  bgQueue' \in Seq(Past(asked)) /\ bgQueue' \in Seq(QueueItem)
      BY <2>1, <2>3, <2>4
    <2> QED BY <1>2, <2>2, <2>4
  <1>8. CaptureInv'
    <2>1. LoopType' /\ MachineType'
      BY <1>1, <1>6, LoopSame, MachineSame DEF loopVars
    <2>2. ImageType'
      BY <1>1, <1>6, <1>7 DEF ImageType
    <2>3. /\ NamesInStep' /\ RestsUntilAsked' /\ NeverFromTheFuture' /\ Past(asked)' = Past(asked)
          /\ asked' = asked
      BY <1>1, <1>6 DEF NamesInStep, RestsUntilAsked, NeverFromTheFuture, Past, machine, loopVars
    <2> QED BY <1>1, <1>7, <2>1, <2>2, <2>3 DEF CaptureInv, TypeOK
  <1>9. OneLooper' /\ DecisionInStep' /\ RequestInStep' /\ ShotsInStep' /\ EachFileItsOwnFrame'
    BY <1>1 DEF StepInv, OneLooper, DecisionInStep, RequestInStep, ShotsInStep, Open,
                EachFileItsOwnFrame, loopVars, machine
  <1> QED BY <1>1, <1>3, <1>5, <1>8, <1>9 DEF StepInv

------------------------------------------------------------------------------
(* The steps of an acquisition with pauses: those of FrameCapture, those   *)
(* that fail or do nothing for want of the camera, and those of the UI     *)
(* thread.                                                                 *)
LEMMA PausedKinds ==
    ASSUME PausedNext
    PROVE  \/ CleanStep /\ UNCHANGED dropped
           \/ (Crash \/ stillWithoutDevice \/ UNCHANGED vars) /\ UNCHANGED dropped
           \/ onPause \/ closeDevice \/ cameraOpened
           \/ closeReader
  <1>1. CASE worker \/ workerLocks
    BY <1>1 DEF worker, workerLocks, Quiet, history, CleanStep, NoPicture
  <1>2. CASE bgResult \/ bgPrecaptureStarted \/ bgPreview
    BY <1>2 DEF bgResult, bgPrecaptureStarted, bgPreview, Quiet, history, CleanStep, NoPicture
  <1>3. CASE bgPrecapture \/ bgCompleted
    BY <1>3 DEF bgPrecapture, bgCompleted, Quiet, history, CleanStep, NoPicture
  <1>4. CASE bgStill \/ bgImages
    BY <1>4 DEF bgStill, bgImages, Quiet, history, CleanStep
  <1>5. CASE onPause \/ cameraOpened \/ closeDevice \/ closeReader
    BY <1>5
  <1>6. CASE stopBackgroundThread \/ onResume
    BY <1>6 DEF stopBackgroundThread, onResume, history
  <1> QED BY <1>1, <1>2, <1>3, <1>4, <1>5, <1>6 DEF PausedNext, uiThread

LEMMA StutterKeepsStep == ASSUME StepInv, UNCHANGED vars PROVE StepInv'
  <1>1. UNCHANGED <<loopVars, cameraReady, machine, images, asked, shots, dead>>
    BY DEF vars
  <1>2. CaptureInv /\ TypeOK /\ MachineType /\ dead \in BOOLEAN
    BY DEF StepInv, CaptureInv, TypeOK, LoopType
  <1>3. MachineType'
    BY <1>1, <1>2, MachineSame
  <1>4. OneLooper' /\ DecisionInStep' /\ RequestInStep' /\ RestsUntilAsked'
    BY <1>1, <1>2 DEF StepInv, CaptureInv, OneLooper, DecisionInStep, RequestInStep, Open,
                      RestsUntilAsked, machine, loopVars
  <1> QED BY <1>1, <1>2, <1>3, <1>4, MachineStepKeeps DEF machine

(* StepInv, and that every picture is kept or dropped.                     *)
LEMMA PausedStepKeeps ==
    ASSUME Clean, StepInv, Kept(dropped), PausedNext \/ UNCHANGED pausedVars
    PROVE  StepInv' /\ Kept(dropped)'
  <1>1. CASE CleanStep /\ UNCHANGED dropped
    <2>1. StepInv'
      BY <1>1, CleanStepKeepsStep
    <2>2. \A f \in Frame : Held(f)' \/ (~Held(f) /\ shots'[f] = shots[f])
      BY <1>1, HeldStays
    <2> QED BY <1>1, <2>1, <2>2 DEF Kept
  <1>2. CASE (Crash \/ stillWithoutDevice \/ UNCHANGED vars) /\ UNCHANGED dropped
    <2>1. StepInv'
      BY <1>2, CrashKeepsStep, NoDeviceKeepsStep, StutterKeepsStep
    <2>2. UNCHANGED <<exposed, bgQueue, files, shots, dropped>>
      BY <1>2 DEF Crash, stillWithoutDevice, vars, images
    <2> QED BY <2>1, <2>2 DEF Kept, Held, OnTheWay
  <1>3. CASE onPause \/ closeDevice \/ cameraOpened
    <2>1. StepInv' /\ UNCHANGED <<exposed, bgQueue, files, shots, dropped>>
      BY <1>3, CameraKeepsStep DEF images
    <2> QED BY <2>1 DEF Kept, Held, OnTheWay
  <1>4. CASE closeReader
    BY <1>4, ReaderKeepsStep DEF Kept, Held
  <1>5. CASE UNCHANGED pausedVars
    BY <1>2, <1>5 DEF pausedVars, history
  <1> QED BY <1>1, <1>2, <1>3, <1>4, <1>5, PausedKinds

(* The variables of the activity stay in their types.                      *)
LEMMA PausedTypeKept ==
    ASSUME PausedTypeOK, StepInv, StepInv', PausedNext \/ UNCHANGED pausedVars
    PROVE  PausedTypeOK'
  <1>0. TypeOK' /\ MaxPauses \in Nat
    BY PauseAssumption DEF StepInv, CaptureInv
  <1>q. ASSUME Quiet PROVE PausedTypeOK'
    BY <1>0, <1>q DEF PausedTypeOK, Quiet, cameraVars, history
  <1>1. CASE worker \/ bgResult \/ bgPrecapture \/ bgPrecaptureStarted \/ bgStill \/ bgCompleted
             \/ bgImages \/ bgPreview
    BY <1>q, <1>1 DEF worker, bgResult, bgPrecapture, bgPrecaptureStarted, bgStill, bgCompleted,
                      bgImages, bgPreview
  <1>2. CASE workerLocks
    BY <1>0, <1>q, <1>2 DEF PausedTypeOK, workerLocks, history
  <1>3. CASE onPause
    <2>1. pauses' \in 0..MaxPauses
      BY <1>0, <1>3 DEF PausedTypeOK, onPause
    <2>2. {session', device', triggered', interrupted'} \subseteq BOOLEAN
      BY <1>3, Zenon DEF PausedTypeOK, onPause
    <2>3. ui' = "closeDevice" /\ UNCHANGED dropped
      BY <1>3 DEF onPause
    <2> QED BY <1>0, <2>1, <2>2, <2>3 DEF PausedTypeOK
  <1>4. CASE closeDevice
    BY <1>0, <1>4 DEF PausedTypeOK, closeDevice, history
  <1>5. CASE closeReader
    <2>1. OnTheWay \subseteq Frame
      <3>1. exposed \in Seq(Frame) /\ bgQueue \in Seq(QueueItem)
        BY DEF StepInv, CaptureInv, TypeOK, ImageType
      <3>2. \A i \in 1..Len(exposed) : exposed[i] \in Frame
        BY <3>1
      <3>3. \A i \in 1..Len(bgQueue) : bgQueue[i] \in QueueItem
        BY <3>1
      <3>4. \A q \in QueueItem : q.img \in Frame
        BY DEF QueueItem
      <3> QED BY <3>2, <3>3, <3>4 DEF OnTheWay, Carried
    <2> QED BY <1>0, <1>5, <2>1 DEF PausedTypeOK, closeReader, cameraVars
  <1>6. CASE stopBackgroundThread \/ onResume
    BY <1>0, <1>6 DEF PausedTypeOK, stopBackgroundThread, onResume, cameraVars, history
  <1>7. CASE cameraOpened
    BY <1>0, <1>7 DEF PausedTypeOK, cameraOpened, history
  <1>8. CASE UNCHANGED pausedVars
    BY <1>q, <1>8 DEF pausedVars, Quiet
  <1> QED BY <1>1, <1>2, <1>3, <1>4, <1>5, <1>6, <1>7, <1>8 DEF PausedNext, uiThread

LEMMA PausedInvariant == ASSUME Clean PROVE PausedSpec => []PausedInv
  <1>1. PausedInit => PausedInv
    <2> SUFFICES ASSUME PausedInit PROVE PausedInv
      OBVIOUS
    <2>1. StepInv /\ Kept({}) /\ dropped = {}
      BY CleanInitially DEF PausedInit, CleanInv
    <2>2. PausedTypeOK
      <3>1. TypeOK /\ pauses \in 0..MaxPauses
        BY <2>1, PauseAssumption DEF PausedInit, StepInv, CaptureInv
      <3>2. {session, device, triggered, interrupted} \subseteq BOOLEAN
        BY DEF PausedInit
      <3> QED BY <2>1, <3>1, <3>2 DEF PausedTypeOK, PausedInit
    <2> QED BY <2>1, <2>2 DEF PausedInv
  <1>2. PausedInv /\ [PausedNext]_pausedVars => PausedInv'
    BY PausedStepKeeps, PausedTypeKept DEF PausedInv
  <1>3. QED BY <1>1, <1>2, PTL DEF PausedSpec

------------------------------------------------------------------------------
(* Every variable stays in its type while the activity is paused and       *)
(* resumed: closeCamera and the tasks leave no field half-way.             *)
THEOREM PausedTypeCorrect == ASSUME Clean PROVE PausedSpec => []PausedTypeOK
  <1>1. PausedInv => PausedTypeOK
    BY DEF PausedInv
  <1> QED BY <1>1, PausedInvariant, PTL

(* A pause, wherever in takePicture, process() or onImageAvailable it      *)
(* falls, never makes an ImageSaver write a picture to another frame's     *)
(* file.                                                                   *)
THEOREM PausedFiles == ASSUME Clean PROVE PausedSpec => []EachFileItsOwnFrame
  <1>1. PausedInv => EachFileItsOwnFrame
    BY DEF PausedInv, StepInv
  <1> QED BY <1>1, PausedInvariant, PTL

(* When the frame loop has ended and the queues are empty, the only files  *)
(* that are missing are those whose picture was in the reader, or on its   *)
(* way there, when closeCamera closed it: the worker goes on to the next   *)
(* frame only once a still was taken for this one.                         *)
THEOREM PausedKeepsPictures == ASSUME Clean PROVE PausedSpec => []MissingOnlyIfDropped
  <1>1. PausedInv => MissingOnlyIfDropped
    <2> SUFFICES ASSUME PausedInv, loop = "done", exposed = <<>>, bgQueue = <<>>, NEW f \in Frame
                 PROVE  files[f] = f \/ f \in dropped
      BY DEF MissingOnlyIfDropped
    <2>1. StepInv /\ Kept(dropped)
      BY DEF PausedInv
    <2>2. f < frame
      BY <2>1, Constants DEF StepInv, RequestInStep, Frame
    <2>3. shots[f] = 1
      BY <2>1, <2>2 DEF StepInv, ShotsInStep
    <2>4. Carried(<<>>, <<>>) = {}
      BY CarriedCases
    <2>5. f \notin OnTheWay
      BY <2>4 DEF OnTheWay
    <2> QED BY <2>1, <2>3, <2>5 DEF Kept, Held
  <1> QED BY <1>1, PausedInvariant, PTL

==============================================================================
