---------------------- MODULE FrameCaptureCleanProofs -----------------------
(***************************************************************************)
(* What holds of FrameCapture in a clean environment, for every number of  *)
(* frames and every device: one picture per frame, each in its own file,   *)
(* no image refused by the reader; and that FrameCapture is then a         *)
(* StillCamera.  StepInv is kept by every action on its own, so that       *)
(* PausedAcquisition can use the same lemmas.                              *)
(***************************************************************************)
EXTENDS FrameCaptureRefinement, FrameCaptureProofs, FiniteSetTheorems

LEMMA SeqEqual ==
    ASSUME NEW S, NEW s \in Seq(S), NEW t \in Seq(S), Len(s) = Len(t),
           \A i \in 1..Len(s) : s[i] = t[i]
    PROVE  s = t
  OBVIOUS

LEMMA ShortSequences ==
    ASSUME NEW x, NEW y
    PROVE  /\ Append(<<>>, x) = <<x>> /\ Append(<<x>>, y) = <<x, y>>
           /\ Head(<<x>>) = x /\ Tail(<<x>>) = <<>>
           /\ Head(<<x, y>>) = x /\ Tail(<<x, y>>) = <<y>>
  <1>1. Append(<<>>, x) = <<x>>
    OBVIOUS
  <1>2. Append(<<x>>, y) = <<x, y>>
    <2>1. Append(<<x>>, y) \in Seq({x, y}) /\ <<x, y>> \in Seq({x, y})
      OBVIOUS
    <2>2. Len(Append(<<x>>, y)) = 2 /\ Append(<<x>>, y)[1] = x /\ Append(<<x>>, y)[2] = y
      OBVIOUS
    <2>3. Len(<<x, y>>) = 2 /\ <<x, y>>[1] = x /\ <<x, y>>[2] = y
      OBVIOUS
    <2>4. \A i \in 1..2 : Append(<<x>>, y)[i] = <<x, y>>[i]
      BY <2>2, <2>3
    <2> QED BY <2>1, <2>2, <2>3, <2>4, SeqEqual
  <1>3. Head(<<x>>) = x /\ Tail(<<x>>) = <<>> /\ Head(<<x, y>>) = x
    OBVIOUS
  <1>4. Tail(<<x, y>>) = <<y>>
    OBVIOUS
  <1> QED BY <1>1, <1>2, <1>3, <1>4

(* What is carried, and whether an image is outstanding, in each of the    *)
(* states of OneInFlight.                                                  *)
LEMMA CarriedCases ==
    ASSUME NEW a, NEW f
    PROVE  /\ Carried(<<>>, <<>>) = {}
           /\ Carried(<<a>>, <<>>) = {a}
           /\ Carried(<<>>, <<Available(a)>>) = {a}
           /\ Carried(<<>>, <<Saver(f)>>) = {f}
           /\ Carried(<<a>>, <<Saver(f)>>) = {a, f}
           /\ Carried(<<>>, <<Saver(f), Available(a)>>) = {a, f}
  <1>1. /\ {<<>>[i] : i \in 1..Len(<<>>)} = {}
        /\ {<<a>>[i] : i \in 1..Len(<<a>>)} = {a}
    OBVIOUS
  <1>2. /\ {<<>>[i].img : i \in 1..Len(<<>>)} = {}
        /\ {<<Available(a)>>[i].img : i \in 1..Len(<<Available(a)>>)} = {a}
        /\ {<<Saver(f)>>[i].img : i \in 1..Len(<<Saver(f)>>)} = {f}
        /\ {<<Saver(f), Available(a)>>[i].img : i \in 1..Len(<<Saver(f), Available(a)>>)} = {a, f}
    BY DEF Available, Saver
  <1> QED BY <1>1, <1>2 DEF Carried

LEMMA OutstandingCases ==
    OneInFlight =>
        /\ ~ImageOutstanding =>
            exposed = <<>> /\ (bgQueue = <<>> \/ \E f \in Frame : bgQueue = <<Saver(f)>>)
        /\ ImageOutstanding => asked \in OnTheWay
  <1> SUFFICES ASSUME OneInFlight
               PROVE  \/ ~ImageOutstanding /\ exposed = <<>> /\ bgQueue = <<>>
                      \/ ~ImageOutstanding /\ \E f \in Frame : exposed = <<>> /\ bgQueue = <<Saver(f)>>
                      \/ ImageOutstanding /\ asked \in OnTheWay
    OBVIOUS
  <1>1. CASE exposed = <<>> /\ bgQueue = <<>>
    BY <1>1 DEF ImageOutstanding
  <1>a. exposed = <<asked>> => ImageOutstanding
    <2>1. <<asked>> # <<>>
      OBVIOUS
    <2> QED BY <2>1 DEF ImageOutstanding
  <1>2. CASE exposed = <<asked>> /\ bgQueue = <<>>
    <2>1. Carried(<<asked>>, <<>>) = {asked}
      BY CarriedCases
    <2>2. ImageOutstanding
      BY <1>2, <1>a
    <2>3. asked \in OnTheWay
      BY <1>2, <2>1 DEF OnTheWay
    <2> QED BY <2>2, <2>3
  <1>3. CASE exposed = <<>> /\ bgQueue = <<Available(asked)>>
    <2>1. Carried(<<>>, <<Available(asked)>>) = {asked}
      BY CarriedCases
    <2>2. bgQueue[1].kind = "available" /\ 1 \in 1..Len(bgQueue)
      BY <1>3 DEF Available
    <2>3. ImageOutstanding
      BY <2>2 DEF ImageOutstanding
    <2> QED BY <1>3, <2>1, <2>3 DEF OnTheWay
  <1>4. ASSUME NEW f \in Frame, exposed = <<>>, bgQueue = <<Saver(f)>>
        PROVE  ~ImageOutstanding
    BY <1>4 DEF ImageOutstanding, Saver
  <1>5. ASSUME NEW f \in Frame, exposed = <<asked>>, bgQueue = <<Saver(f)>>
        PROVE  ImageOutstanding /\ asked \in OnTheWay
    <2>1. Carried(<<asked>>, <<Saver(f)>>) = {asked, f}
      BY CarriedCases
    <2> QED BY <1>5, <1>a, <2>1 DEF OnTheWay
  <1>6. ASSUME NEW f \in Frame, exposed = <<>>, bgQueue = <<Saver(f), Available(asked)>>
        PROVE  ImageOutstanding /\ asked \in OnTheWay
    <2>1. bgQueue[2].kind = "available" /\ 2 \in 1..Len(bgQueue)
      BY <1>6 DEF Available
    <2>2. ImageOutstanding
      BY <2>1 DEF ImageOutstanding
    <2> QED BY <1>6, <2>2, CarriedCases, ZenonT(40) DEF OnTheWay
  <1> QED BY <1>1, <1>2, <1>3, <1>4, <1>5, <1>6 DEF OneInFlight

(* The types and bounds the steps below use.                               *)
LEMMA StepFacts ==
    ASSUME StepInv
    PROVE  /\ frame \in 1..(NFrames + 1) /\ asked \in 0..NFrames /\ NFrames \in Nat
           /\ loop \in {"name", "take", "lock", "wait", "done"}
           /\ cameraReady \in BOOLEAN /\ mState \in 0..4
           /\ completions["bg"] \in 0..1 /\ completions \in [Looper -> Nat]
           /\ todo \in [Looper -> Todo] /\ results \in [Looper -> 0..Depth]
           /\ shots \in [Frame -> 0..2] /\ files \in [0..NFrames -> 0..NFrames]
           /\ loop # "done" => frame \in Frame
           /\ "bg" \in Looper /\ "ui" \in Looper
  <1>1. CaptureInv /\ TypeOK /\ NamesInStep /\ RequestInStep
    BY DEF StepInv, CaptureInv
  <1>2. completions["bg"] \in 0..1
    BY <1>1 DEF TypeOK, MachineType, RequestInStep, Looper
  <1>3. loop # "done" => frame \in Frame
    BY <1>1, Constants DEF TypeOK, LoopType, NamesInStep, Frame
  <1> QED BY <1>1, <1>2, <1>3, Constants DEF TypeOK, LoopType, MachineType, ImageType, Looper

(* A step that does not touch a part of the state keeps what is said of it.*)
LEMMA ImagesUntouched ==
    ASSUME ImagesInStep, UNCHANGED <<exposed, bgQueue, asked, full_image_file, shots>>
    PROVE  ImagesInStep'
  BY DEF ImagesInStep, OneInFlight, ImageOutstanding, OnTheWay

LEMMA LooperUntouched ==
    ASSUME OneLooper, UNCHANGED todo, UNCHANGED repeating, UNCHANGED completions,
           results' \in {results, Queued("bg")}, TypeOK
    PROVE  OneLooper'
  BY DEF OneLooper, Queued, TypeOK, MachineType, Looper

(* The frame loop keeps StepInv.                                           *)
LEMMA NameKeepsStep == ASSUME Clean, StepInv, nameFrame PROVE StepInv'
  <1>1. /\ loop = "name" /\ loop' = "take" /\ full_image_file' = frame /\ cameraReady' = FALSE
        /\ ~ImageOutstanding
        /\ UNCHANGED <<frame, machine, images, asked, shots, dead>>
    BY DEF nameFrame, Clean
  <1>2. CaptureInv'
    BY FrameLoopKeeps DEF StepInv, FrameLoop
  <1>3. OneLooper' /\ DecisionInStep'
    BY <1>1 DEF StepInv, OneLooper, DecisionInStep, machine
  <1>4. RequestInStep'
    BY <1>1 DEF StepInv, RequestInStep, Open, machine
  <1>5. ShotsInStep'
    BY <1>1 DEF StepInv, ShotsInStep, machine
  <1>6. ImagesInStep' /\ EachFileItsOwnFrame'
    BY <1>1 DEF StepInv, ImagesInStep, OneInFlight, ImageOutstanding, OnTheWay,
                EachFileItsOwnFrame, images
  <1> QED BY <1>2, <1>3, <1>4, <1>5, <1>6 DEF StepInv

LEMMA TakeKeepsStep == ASSUME StepInv, takePicture PROVE StepInv'
  <1>1. /\ loop = "take" /\ loop' = "lock" /\ cameraReady' = FALSE
        /\ UNCHANGED <<frame, full_image_file, machine, images, asked, shots, dead>>
    BY DEF takePicture
  <1>2. CaptureInv'
    BY FrameLoopKeeps DEF StepInv, FrameLoop
  <1>3. OneLooper' /\ DecisionInStep'
    BY <1>1 DEF StepInv, OneLooper, DecisionInStep, machine
  <1>4. RequestInStep'
    BY <1>1 DEF StepInv, RequestInStep, Open, machine
  <1>5. ShotsInStep'
    BY <1>1 DEF StepInv, ShotsInStep, machine
  <1>6. ImagesInStep' /\ EachFileItsOwnFrame'
    BY <1>1, ImagesUntouched DEF StepInv, EachFileItsOwnFrame, images
  <1> QED BY <1>2, <1>3, <1>4, <1>5, <1>6 DEF StepInv

LEMMA LockKeepsStep == ASSUME StepInv, takePictureLock PROVE StepInv'
  <1>1. /\ loop = "lock" /\ loop' = "wait" /\ asked' = frame
        /\ mState' = STATE_WAITING_LOCK /\ results' = Queued("bg")
        /\ UNCHANGED <<frame, full_image_file, cameraReady, todo, repeating, completions,
                       images, shots, dead>>
    BY DEF takePictureLock
  <1>2. CaptureInv'
    BY FrameLoopKeeps DEF StepInv, FrameLoop
  <1>f. /\ frame \in Frame /\ asked = frame - 1 /\ ~cameraReady /\ mState = STATE_PREVIEW
        /\ completions["bg"] = 0 /\ full_image_file = frame /\ frame \in Nat
    BY <1>1, StepFacts DEF StepInv, CaptureInv, RequestInStep, NamesInStep, Open,
                           STATE_PREVIEW, STATE_PICTURE_TAKEN
  <1>3. OneLooper' /\ DecisionInStep'
    <2>1. OneLooper'
      BY <1>1, LooperUntouched DEF StepInv, CaptureInv
    <2>2. todo["bg"] = "nothing"
      BY <1>f, StepFacts DEF StepInv, DecisionInStep, Todo, Looper, STATE_PREVIEW, STATE_WAITING_LOCK,
            STATE_WAITING_PRECAPTURE, STATE_WAITING_NON_PRECAPTURE
    <2> QED BY <1>1, <2>1, <2>2 DEF DecisionInStep
  <1>4. RequestInStep'
    BY <1>1, <1>f DEF RequestInStep, Open, STATE_WAITING_LOCK, STATE_PREVIEW
  <1>5. ShotsInStep'
    BY <1>1, <1>f DEF StepInv, ShotsInStep, STATE_WAITING_LOCK
  <1>6. ~ImageOutstanding
    BY <1>f DEF StepInv, ImagesInStep
  <1>7. /\ exposed = <<>> /\ (bgQueue = <<>> \/ \E f \in Frame : bgQueue = <<Saver(f)>>)
        /\ UNCHANGED <<exposed, bgQueue>>
    BY <1>1, <1>6, OutstandingCases DEF StepInv, ImagesInStep, images
  <1>8. ImagesInStep'
    <2>1. OneInFlight'
      BY <1>7 DEF OneInFlight
    <2>2. ~ImageOutstanding'
      BY <1>6, <1>7 DEF ImageOutstanding
    <2> QED BY <1>1, <1>7, <2>1, <2>2 DEF StepInv, ImagesInStep, OnTheWay
  <1>9. EachFileItsOwnFrame'
    BY <1>1 DEF StepInv, EachFileItsOwnFrame, images
  <1> QED BY <1>2, <1>3, <1>4, <1>5, <1>8, <1>9 DEF StepInv

LEMMA ReadyKeepsStep == ASSUME StepInv, frameReady PROVE StepInv'
  <1>1. /\ loop = "wait" /\ cameraReady /\ frame' = frame + 1
        /\ loop' = (IF frame = NFrames THEN "done" ELSE "name")
        /\ UNCHANGED <<full_image_file, cameraReady, machine, images, asked, shots, dead>>
    BY DEF frameReady
  <1>2. CaptureInv'
    BY FrameLoopKeeps DEF StepInv, FrameLoop
  <1>f. /\ frame \in Frame /\ asked = frame /\ mState = STATE_PREVIEW
        /\ completions["bg"] = 0 /\ frame \in Nat /\ shots[frame] = 1
    <2>1. asked = frame /\ mState = STATE_PREVIEW
      BY <1>1 DEF StepInv, RequestInStep, Open
    <2>2. frame \in Frame /\ frame \in Nat
      BY <1>1, StepFacts
    <2>3. completions["bg"] = 0
      BY <2>1, StepFacts DEF StepInv, RequestInStep, STATE_PREVIEW, STATE_PICTURE_TAKEN
    <2> QED BY <1>1, <2>1, <2>2, <2>3 DEF StepInv, ShotsInStep
  <1>3. OneLooper' /\ DecisionInStep'
    BY <1>1 DEF StepInv, OneLooper, DecisionInStep, machine
  <1>4. RequestInStep'
    BY <1>1, <1>f, Constants DEF RequestInStep, Open, machine
  <1>5. ShotsInStep'
    BY <1>1, <1>f DEF StepInv, ShotsInStep, machine, Frame, STATE_PREVIEW
  <1>6. ImagesInStep' /\ EachFileItsOwnFrame'
    BY <1>1, ImagesUntouched DEF StepInv, EachFileItsOwnFrame, images
  <1> QED BY <1>2, <1>3, <1>4, <1>5, <1>6 DEF StepInv

(* The callbacks of the background looper keep StepInv.                    *)
LEMMA ResultKeepsStep == ASSUME Clean, StepInv, onCaptureResult("bg") PROVE StepInv'
  <1>1. PICK af \in AfStates, ae \in AeStates :
            todo' = [todo EXCEPT !["bg"] = process(mState, af, ae)]
    BY DEF onCaptureResult
  <1>2. /\ results' = [results EXCEPT !["bg"] = @ - 1]
        /\ UNCHANGED <<loopVars, cameraReady, mState, repeating, completions, images,
                       asked, shots, dead>>
    BY DEF onCaptureResult
  <1>3. CaptureInv'
    BY StepFacts, CallbacksKeep DEF StepInv, Callbacks
  <1>4. OneLooper'
    BY <1>1, <1>2, StepFacts DEF StepInv, OneLooper
  <1>5. DecisionInStep'
    <2>1. af # Null
      BY DEF Clean
    <2>2. /\ process(mState, af, ae) # "still"
          /\ process(mState, af, ae) = "precapture" => mState = STATE_WAITING_LOCK
          /\ process(mState, af, ae) = "nonPrecapture" => mState = STATE_WAITING_PRECAPTURE
          /\ process(mState, af, ae) = "takenStill" => mState = STATE_WAITING_NON_PRECAPTURE
      BY <2>1 DEF process, AF_FOCUSED_LOCKED, AF_NOT_FOCUSED_LOCKED, AE_CONVERGED,
                  STATE_WAITING_LOCK, STATE_WAITING_PRECAPTURE, STATE_WAITING_NON_PRECAPTURE
    <2> QED BY <1>1, <1>2, <2>2, StepFacts DEF DecisionInStep
  <1>6. RequestInStep' /\ ShotsInStep'
    BY <1>2 DEF StepInv, RequestInStep, ShotsInStep, Open, loopVars
  <1>7. ImagesInStep' /\ EachFileItsOwnFrame'
    BY <1>2, ImagesUntouched DEF StepInv, EachFileItsOwnFrame, images, loopVars
  <1> QED BY <1>3, <1>4, <1>5, <1>6, <1>7 DEF StepInv

LEMMA PrecaptureKeepsStep ==
    ASSUME StepInv, runPrecaptureSequence("bg") \/ precaptureStarted("bg")
    PROVE  StepInv'
  <1>1. /\ todo' = [todo EXCEPT !["bg"] = "nothing"]
        /\ \/ mState = STATE_WAITING_LOCK /\ mState' = STATE_WAITING_PRECAPTURE
           \/ mState = STATE_WAITING_PRECAPTURE /\ mState' = STATE_WAITING_NON_PRECAPTURE
        /\ results' \in {results, Queued("bg")}
        /\ UNCHANGED <<loopVars, cameraReady, repeating, completions, images, asked, shots, dead>>
    BY DEF runPrecaptureSequence, precaptureStarted, StepInv, DecisionInStep
  <1>2. CaptureInv'
    BY StepFacts, CallbacksKeep DEF StepInv, Callbacks
  <1>3. OneLooper' /\ DecisionInStep'
    <2>1. OneLooper'
      BY <1>1, StepFacts DEF StepInv, OneLooper, Queued
    <2> QED BY <1>1, <2>1, StepFacts DEF DecisionInStep
  <1>4. RequestInStep' /\ ShotsInStep'
    BY <1>1, StepFacts DEF StepInv, RequestInStep, ShotsInStep, Open, loopVars, STATE_PREVIEW,
       STATE_WAITING_LOCK, STATE_WAITING_PRECAPTURE, STATE_WAITING_NON_PRECAPTURE,
       STATE_PICTURE_TAKEN
  <1>5. ImagesInStep' /\ EachFileItsOwnFrame'
    BY <1>1, ImagesUntouched DEF StepInv, EachFileItsOwnFrame, images, loopVars
  <1> QED BY <1>2, <1>3, <1>4, <1>5 DEF StepInv

(* The still capture finds no other picture of its frame.                  *)
LEMMA StillFacts ==
    ASSUME StepInv, todo["bg"] \in {"still", "takenStill"}
    PROVE  /\ todo["bg"] = "takenStill" /\ mState = STATE_WAITING_NON_PRECAPTURE
           /\ loop = "wait" /\ ~cameraReady /\ asked = frame /\ asked \in Frame
           /\ completions["bg"] = 0 /\ shots[asked] = 0 /\ full_image_file = asked
           /\ asked \notin OnTheWay /\ ~ImageOutstanding
  <1>1. todo["bg"] = "takenStill" /\ mState = STATE_WAITING_NON_PRECAPTURE
    BY DEF StepInv, DecisionInStep
  <1>2. loop = "wait" /\ ~cameraReady /\ asked = frame /\ completions["bg"] = 0
    BY <1>1, StepFacts DEF StepInv, RequestInStep, Open, STATE_PREVIEW,
       STATE_WAITING_NON_PRECAPTURE, STATE_PICTURE_TAKEN
  <1>3. asked \in Frame /\ full_image_file = asked
    BY <1>2, StepFacts DEF StepInv, CaptureInv, NamesInStep
  <1>4. shots[asked] = 0
    BY <1>1, <1>2, <1>3 DEF StepInv, ShotsInStep, STATE_WAITING_NON_PRECAPTURE
  <1>5. asked \notin OnTheWay
    BY <1>4 DEF StepInv, ImagesInStep
  <1> QED BY <1>1, <1>2, <1>3, <1>4, <1>5, OutstandingCases DEF StepInv, ImagesInStep

LEMMA StillKeepsStep ==
    ASSUME StepInv, captureStillPicture("bg")
    PROVE  /\ StepInv' /\ OnTheWay' = OnTheWay \cup {asked}
           /\ \A f \in Frame : shots'[f] = IF f = asked THEN 1 ELSE shots[f]
  <1>1. /\ todo["bg"] \in {"still", "takenStill"}
        /\ mState' = (IF todo["bg"] = "takenStill" THEN STATE_PICTURE_TAKEN ELSE mState)
        /\ repeating' = "none"
        /\ completions' = [completions EXCEPT !["bg"] = @ + 1]
        /\ exposed' = Append(exposed, asked)
        /\ shots' = [shots EXCEPT ![asked] = IF @ < 2 THEN @ + 1 ELSE @]
        /\ todo' = [todo EXCEPT !["bg"] = "nothing"]
        /\ UNCHANGED <<loopVars, cameraReady, results, bgQueue, files, asked, dead>>
    BY DEF captureStillPicture
  <1>f. /\ todo["bg"] = "takenStill" /\ mState = STATE_WAITING_NON_PRECAPTURE
        /\ loop = "wait" /\ ~cameraReady /\ asked = frame /\ asked \in Frame
        /\ completions["bg"] = 0 /\ shots[asked] = 0 /\ full_image_file = asked
        /\ asked \notin OnTheWay /\ ~ImageOutstanding
    BY <1>1, StillFacts
  <1>2. CaptureInv'
    BY StepFacts, CallbacksKeep DEF StepInv, Callbacks
  <1>3. OneLooper' /\ DecisionInStep'
    BY <1>1, StepFacts DEF StepInv, OneLooper, DecisionInStep
  <1>s. /\ \A f \in Frame : shots'[f] = IF f = asked THEN 1 ELSE shots[f]
        /\ completions'["bg"] = 1 /\ mState' = STATE_PICTURE_TAKEN
    BY <1>1, <1>f, StepFacts
  <1>4. RequestInStep'
    BY <1>1, <1>f, <1>s DEF StepInv, RequestInStep, Open, loopVars, STATE_PREVIEW,
       STATE_WAITING_NON_PRECAPTURE, STATE_PICTURE_TAKEN
  <1>5. ShotsInStep'
    BY <1>1, <1>f, <1>s, StepFacts DEF StepInv, ShotsInStep, loopVars, STATE_PICTURE_TAKEN, Frame
  <1>6. exposed = <<>> /\ (bgQueue = <<>> \/ \E f \in Frame : bgQueue = <<Saver(f)>>)
    BY <1>f, OutstandingCases DEF StepInv, ImagesInStep
  <1>7. exposed' = <<asked>> /\ bgQueue' = bgQueue /\ asked' = asked
    BY <1>1, <1>6
  <1>8. OneInFlight' /\ OnTheWay' = OnTheWay \cup {asked}
    <2>1. CASE bgQueue = <<>>
      <3>1. Carried(<<>>, <<>>) = {} /\ Carried(<<asked>>, <<>>) = {asked}
        BY CarriedCases
      <3> QED BY <1>6, <1>7, <2>1, <3>1 DEF OneInFlight, OnTheWay
    <2>2. ASSUME NEW f \in Frame, bgQueue = <<Saver(f)>>
          PROVE  OneInFlight' /\ OnTheWay' = OnTheWay \cup {asked}
      <3>1. Carried(<<>>, <<Saver(f)>>) = {f} /\ Carried(<<asked>>, <<Saver(f)>>) = {asked, f}
        BY CarriedCases
      <3>2. OnTheWay = {f}
        BY <1>6, <2>2, <3>1 DEF OnTheWay
      <3>3. OnTheWay' = {asked, f}
        BY <1>7, <2>2, <3>1 DEF OnTheWay
      <3>4. f # asked
        BY <1>f, <3>2
      <3>5. OneInFlight'
        BY <1>7, <2>2, <3>4 DEF OneInFlight
      <3> QED BY <3>2, <3>3, <3>5
    <2> QED BY <1>6, <2>1, <2>2
  <1>9. OnTheWay \subseteq Frame
    <2>1. CASE bgQueue = <<>>
      BY <1>6, <2>1, CarriedCases DEF OnTheWay
    <2>2. ASSUME NEW f \in Frame, bgQueue = <<Saver(f)>> PROVE OnTheWay = {f}
      BY <1>6, <2>2, CarriedCases DEF OnTheWay
    <2> QED BY <1>6, <2>1, <2>2
  <1>10. ImagesInStep'
    <2>1. \A f \in OnTheWay' : shots'[f] = 1
      BY <1>8, <1>9, <1>s, <1>f DEF StepInv, ImagesInStep
    <2>2. asked' > 0 /\ full_image_file' = asked'
      BY <1>1, <1>f, Constants DEF loopVars, Frame
    <2> QED BY <1>8, <2>1, <2>2 DEF ImagesInStep
  <1>11. EachFileItsOwnFrame'
    BY <1>1 DEF StepInv, EachFileItsOwnFrame
  <1> QED BY <1>2, <1>3, <1>4, <1>5, <1>8, <1>10, <1>11, <1>s DEF StepInv

LEMMA CompletedKeepsStep == ASSUME StepInv, stillCompleted("bg") PROVE StepInv'
  <1>1. /\ completions["bg"] > 0 /\ completions' = [completions EXCEPT !["bg"] = @ - 1]
        /\ results' = Queued("bg") /\ mState' = STATE_PREVIEW
        /\ repeating' = "bg" /\ cameraReady' = TRUE /\ todo["bg"] = "nothing"
        /\ UNCHANGED <<loopVars, todo, images, asked, shots, dead>>
    BY DEF stillCompleted, Free
  <1>f. loop = "wait" /\ ~cameraReady /\ completions'["bg"] = 0
    BY <1>1, StepFacts DEF StepInv, RequestInStep, Open, STATE_PREVIEW, STATE_PICTURE_TAKEN
  <1>2. CaptureInv'
    BY StepFacts, CallbacksKeep DEF StepInv, Callbacks
  <1>3. OneLooper' /\ DecisionInStep'
    BY <1>1, StepFacts DEF StepInv, OneLooper, DecisionInStep, Queued
  <1>4. RequestInStep'
    BY <1>1, <1>f DEF StepInv, RequestInStep, Open, loopVars
  <1>5. ShotsInStep'
    BY <1>1, <1>f DEF StepInv, ShotsInStep, loopVars, STATE_PREVIEW
  <1>6. ImagesInStep' /\ EachFileItsOwnFrame'
    BY <1>1, ImagesUntouched DEF StepInv, EachFileItsOwnFrame, images, loopVars
  <1> QED BY <1>2, <1>3, <1>4, <1>5, <1>6 DEF StepInv

LEMMA PreviewKeepsStep == ASSUME StepInv, previewResult PROVE StepInv'
  <1>1. /\ repeating # "none" /\ results' = Queued(repeating)
        /\ UNCHANGED <<loopVars, cameraReady, mState, todo, repeating, completions,
                       images, asked, shots, dead>>
    BY DEF previewResult
  <1>2. repeating = "bg"
    BY <1>1 DEF StepInv, OneLooper, CaptureInv, TypeOK, MachineType, Looper
  <1>3. CaptureInv'
    BY PreviewKeeps DEF StepInv
  <1>4. OneLooper' /\ DecisionInStep'
    BY <1>1, <1>2, LooperUntouched DEF StepInv, DecisionInStep, CaptureInv
  <1>5. RequestInStep' /\ ShotsInStep'
    BY <1>1 DEF StepInv, RequestInStep, ShotsInStep, Open, loopVars
  <1>6. ImagesInStep' /\ EachFileItsOwnFrame'
    BY <1>1, ImagesUntouched DEF StepInv, EachFileItsOwnFrame, images, loopVars
  <1> QED BY <1>3, <1>4, <1>5, <1>6 DEF StepInv

(* The way of an image keeps StepInv: each lemma also says what the step   *)
(* does to the pictures on their way.                                      *)
LEMMA ImageKeepsStep ==
    ASSUME StepInv, imageReady
    PROVE  StepInv' /\ OnTheWay' = OnTheWay
  <1>1. /\ exposed # <<>>
        /\ bgQueue' = Append(bgQueue, Available(Head(exposed)))
        /\ exposed' = Tail(exposed)
        /\ UNCHANGED <<loopVars, cameraReady, machine, files, asked, shots, dead>>
    BY DEF imageReady, Available
  <1>2. CaptureInv'
    BY ImagesKeep DEF StepInv, Images
  <1>3. OneLooper' /\ DecisionInStep' /\ RequestInStep' /\ ShotsInStep' /\ EachFileItsOwnFrame'
    BY <1>1 DEF StepInv, OneLooper, DecisionInStep, RequestInStep, ShotsInStep, Open,
                EachFileItsOwnFrame, loopVars, machine
  <1>4. exposed = <<asked>> /\ (bgQueue = <<>> \/ \E f \in Frame \ {asked} : bgQueue = <<Saver(f)>>)
    BY <1>1 DEF StepInv, ImagesInStep, OneInFlight
  <1>5. exposed' = <<>> /\ bgQueue' = Append(bgQueue, Available(asked)) /\ asked' = asked
    BY <1>1, <1>4
  <1>6. OneInFlight' /\ OnTheWay' = OnTheWay
    <2>1. CASE bgQueue = <<>>
      <3>1. Carried(<<>>, <<Available(asked)>>) = {asked} /\ Carried(<<asked>>, <<>>) = {asked}
        BY CarriedCases
      <3>2. bgQueue' = <<Available(asked)>>
        BY <1>5, <2>1
      <3> QED BY <1>4, <1>5, <2>1, <3>1, <3>2 DEF OneInFlight, OnTheWay
    <2>2. ASSUME NEW f \in Frame \ {asked}, bgQueue = <<Saver(f)>>
          PROVE  OneInFlight' /\ OnTheWay' = OnTheWay
      <3>1. /\ Carried(<<asked>>, <<Saver(f)>>) = {asked, f}
            /\ Carried(<<>>, <<Saver(f), Available(asked)>>) = {asked, f}
        BY CarriedCases
      <3>2. bgQueue' = <<Saver(f), Available(asked)>>
        BY <1>5, <2>2, ShortSequences
      <3>3. OneInFlight'
        BY <1>5, <3>2 DEF OneInFlight
      <3> QED BY <1>4, <1>5, <2>2, <3>1, <3>2, <3>3 DEF OnTheWay
    <2> QED BY <1>4, <2>1, <2>2
  <1>7. ImageOutstanding
    BY <1>1 DEF ImageOutstanding
  <1>8. ImagesInStep'
    BY <1>1, <1>6, <1>7 DEF StepInv, ImagesInStep, loopVars
  <1> QED BY <1>2, <1>3, <1>6, <1>8 DEF StepInv

(* onImageAvailable finds its image alone on the looper, so that the       *)
(* reader has lent none.                                                   *)
LEMMA AvailableKeepsStep ==
    ASSUME StepInv, onImageAvailable
    PROVE  StepInv' /\ OnTheWay' = OnTheWay /\ dead' = dead
  <1>1. /\ bgQueue # <<>> /\ Head(bgQueue).kind = "available"
        /\ UNCHANGED <<loopVars, cameraReady, machine, exposed, files, asked, shots>>
    BY DEF onImageAvailable
  <1>2. exposed = <<>> /\ bgQueue = <<Available(asked)>>
    <2>1. ASSUME NEW f \in Frame, bgQueue = <<Saver(f)>> PROVE FALSE
      BY <1>1, <2>1 DEF Saver
    <2>2. ASSUME NEW f \in Frame, bgQueue = <<Saver(f), Available(asked)>> PROVE FALSE
      BY <1>1, <2>2 DEF Saver
    <2> QED BY <1>1, <2>1, <2>2 DEF StepInv, ImagesInStep, OneInFlight
  <1>3. ImageOutstanding
    <2>1. bgQueue[1].kind = "available" /\ 1 \in 1..Len(bgQueue)
      BY <1>2 DEF Available
    <2> QED BY <2>1 DEF ImageOutstanding
  <1>4. asked \in Frame /\ full_image_file = asked
    BY <1>3, StepFacts DEF StepInv, ImagesInStep, Frame
  <1>5. Acquired = 0
    <2>1. {i \in 1..Len(bgQueue) : bgQueue[i].kind = "saver"} = {}
      BY <1>2 DEF Available
    <2> QED BY <2>1, FS_EmptySet DEF Acquired
  <1>6. dead' = dead /\ bgQueue' = <<Saver(asked)>>
    <2>1. ~(Acquired >= MaxImages)
      BY <1>5, CaptureAssumption
    <2>2. dead' = dead /\ bgQueue' = Append(Tail(bgQueue), [kind |-> "saver",
                                        img |-> Head(bgQueue).img, file |-> full_image_file])
      BY <2>1 DEF onImageAvailable
    <2>3. Tail(bgQueue) = <<>> /\ Head(bgQueue).img = asked
      BY <1>2 DEF Available
    <2>4. bgQueue' = Append(<<>>, Saver(asked))
      BY <1>4, <2>2, <2>3 DEF Saver
    <2> QED BY <2>2, <2>4, ShortSequences
  <1>7. CaptureInv'
    BY ImagesKeep DEF StepInv, Images
  <1>8. OneLooper' /\ DecisionInStep' /\ RequestInStep' /\ ShotsInStep' /\ EachFileItsOwnFrame'
    BY <1>1 DEF StepInv, OneLooper, DecisionInStep, RequestInStep, ShotsInStep, Open,
                EachFileItsOwnFrame, loopVars, machine
  <1>9. OneInFlight' /\ OnTheWay' = OnTheWay
    <2>1. Carried(<<>>, <<Available(asked)>>) = {asked} /\ Carried(<<>>, <<Saver(asked)>>) = {asked}
      BY CarriedCases
    <2>2. exposed' = <<>>
      BY <1>1, <1>2
    <2>3. OneInFlight'
      BY <1>4, <1>6, <2>2 DEF OneInFlight
    <2> QED BY <1>2, <1>6, <2>1, <2>2, <2>3 DEF OnTheWay
  <1>10. ImagesInStep'
    BY <1>1, <1>3, <1>9 DEF StepInv, ImagesInStep, loopVars
  <1> QED BY <1>6, <1>7, <1>8, <1>9, <1>10 DEF StepInv

(* An ImageSaver writes a picture to the file of its own frame.            *)
LEMMA SaverKeepsStep ==
    ASSUME StepInv, ImageSaverRun
    PROVE  /\ StepInv'
           /\ \E f \in Frame : /\ f \in OnTheWay /\ OnTheWay' = OnTheWay \ {f}
                               /\ files' = [files EXCEPT ![f] = f]
  <1>1. /\ bgQueue # <<>> /\ Head(bgQueue).kind = "saver" /\ bgQueue' = Tail(bgQueue)
        /\ files' = [files EXCEPT ![Head(bgQueue).file] = Head(bgQueue).img]
        /\ UNCHANGED <<loopVars, cameraReady, machine, exposed, asked, shots, dead>>
    BY DEF ImageSaverRun
  <1>2. PICK f \in Frame :
            \/ exposed = <<>> /\ bgQueue = <<Saver(f)>>
            \/ f # asked /\ exposed = <<asked>> /\ bgQueue = <<Saver(f)>>
            \/ f # asked /\ exposed = <<>> /\ bgQueue = <<Saver(f), Available(asked)>>
    <2>1. bgQueue # <<Available(asked)>>
      BY <1>1 DEF Available
    <2> QED BY <1>1, <2>1 DEF StepInv, ImagesInStep, OneInFlight
  <1>3. files' = [files EXCEPT ![f] = f]
    <2>1. Head(bgQueue) = Saver(f)
      BY <1>2
    <2>2. Saver(f).file = f /\ Saver(f).img = f
      BY DEF Saver
    <2> QED BY <1>1, <2>1, <2>2
  <1>4. CaptureInv'
    BY ImagesKeep DEF StepInv, Images
  <1>5. OneLooper' /\ DecisionInStep' /\ RequestInStep' /\ ShotsInStep'
    BY <1>1 DEF StepInv, OneLooper, DecisionInStep, RequestInStep, ShotsInStep, Open,
                loopVars, machine
  <1>6. EachFileItsOwnFrame'
    BY <1>3, StepFacts DEF StepInv, EachFileItsOwnFrame, Frame
  <1>7. OneInFlight' /\ f \in OnTheWay /\ OnTheWay' = OnTheWay \ {f}
        /\ (ImageOutstanding' => ImageOutstanding)
    <2>1. CASE exposed = <<>> /\ bgQueue = <<Saver(f)>>
      <3>1. Carried(<<>>, <<Saver(f)>>) = {f} /\ Carried(<<>>, <<>>) = {}
        BY CarriedCases
      <3>2. exposed' = <<>> /\ bgQueue' = <<>>
        BY <1>1, <2>1
      <3>3. OneInFlight' /\ ~ImageOutstanding'
        BY <3>2 DEF OneInFlight, ImageOutstanding
      <3>4. OnTheWay = {f} /\ OnTheWay' = {}
        BY <2>1, <3>1, <3>2 DEF OnTheWay
      <3> QED BY <3>3, <3>4
    <2>2. CASE f # asked /\ exposed = <<asked>> /\ bgQueue = <<Saver(f)>>
      <3>1. Carried(<<asked>>, <<Saver(f)>>) = {asked, f} /\ Carried(<<asked>>, <<>>) = {asked}
        BY CarriedCases
      <3>2. exposed' = <<asked>> /\ bgQueue' = <<>> /\ asked' = asked
        BY <1>1, <2>2
      <3>3. OneInFlight'
        BY <3>2 DEF OneInFlight
      <3>4. OnTheWay = {asked, f} /\ OnTheWay' = {asked}
        BY <2>2, <3>1, <3>2 DEF OnTheWay
      <3>5. ImageOutstanding
        <4>1. <<asked>> # <<>>
          OBVIOUS
        <4> QED BY <2>2, <4>1 DEF ImageOutstanding
      <3> QED BY <2>2, <3>3, <3>4, <3>5
    <2>3. CASE f # asked /\ exposed = <<>> /\ bgQueue = <<Saver(f), Available(asked)>>
      <3>1. /\ Carried(<<>>, <<Saver(f), Available(asked)>>) = {asked, f}
            /\ Carried(<<>>, <<Available(asked)>>) = {asked}
        BY CarriedCases
      <3>2. exposed' = <<>> /\ bgQueue' = <<Available(asked)>> /\ asked' = asked
        BY <1>1, <2>3
      <3>3. OneInFlight'
        BY <3>2 DEF OneInFlight
      <3>4. OnTheWay = {asked, f} /\ OnTheWay' = {asked}
        BY <2>3, <3>1, <3>2 DEF OnTheWay
      <3>5. bgQueue[2].kind = "available" /\ 2 \in 1..Len(bgQueue)
        BY <2>3 DEF Available
      <3>6. ImageOutstanding
        BY <3>5 DEF ImageOutstanding
      <3> QED BY <2>3, <3>3, <3>4, <3>6
    <2> QED BY <1>2, <2>1, <2>2, <2>3
  <1>8. ImagesInStep'
    BY <1>1, <1>7 DEF StepInv, ImagesInStep, loopVars
  <1> QED BY <1>3, <1>4, <1>5, <1>6, <1>7, <1>8 DEF StepInv

------------------------------------------------------------------------------
(* Every step of a clean environment is one of these: the first kind does  *)
(* not touch the pictures, their files and the stills.                     *)
NoPicture ==
    \/ nameFrame \/ takePicture \/ takePictureLock \/ frameReady
    \/ onCaptureResult("bg") \/ runPrecaptureSequence("bg") \/ precaptureStarted("bg")
    \/ stillCompleted("bg") \/ previewResult

CleanStep == NoPicture \/ captureStillPicture("bg") \/ Images

LEMMA NextIsClean == ASSUME Clean, StepInv, Next PROVE CleanStep
  <1>1. todo["ui"] = "nothing" /\ results["ui"] = 0 /\ completions["ui"] = 0
    BY DEF StepInv, OneLooper
  <1>2. ~Callbacks("ui")
    BY <1>1 DEF Callbacks, onCaptureResult, runPrecaptureSequence, precaptureStarted,
                captureStillPicture, stillCompleted
  <1>3. ~slideToExposuretime
    BY DEF slideToExposuretime, Clean
  <1>4. Callbacks("bg") => CleanStep
    BY DEF Callbacks, CleanStep, NoPicture
  <1> QED BY <1>2, <1>3, <1>4 DEF Next, FrameLoop, CleanStep, NoPicture, Looper

LEMMA NoPictureKeepsStep ==
    ASSUME Clean, StepInv, NoPicture
    PROVE  StepInv' /\ UNCHANGED <<exposed, bgQueue, files, shots, dead>>
  <1>1. UNCHANGED <<exposed, bgQueue, files, shots, dead>>
    BY DEF NoPicture, nameFrame, takePicture, takePictureLock, frameReady, onCaptureResult,
           runPrecaptureSequence, precaptureStarted, stillCompleted, previewResult, images
  <1> QED BY <1>1, NameKeepsStep, TakeKeepsStep, LockKeepsStep, ReadyKeepsStep, ResultKeepsStep,
             PrecaptureKeepsStep, CompletedKeepsStep, PreviewKeepsStep DEF NoPicture

LEMMA CleanStepKeepsStep ==
    ASSUME Clean, StepInv, CleanStep
    PROVE  StepInv' /\ dead' = dead
  <1>1. CASE NoPicture
    BY <1>1, NoPictureKeepsStep
  <1>2. CASE captureStillPicture("bg")
    BY <1>2, StillKeepsStep DEF captureStillPicture
  <1>3. CASE imageReady
    BY <1>3, ImageKeepsStep DEF imageReady
  <1>4. CASE onImageAvailable
    BY <1>4, AvailableKeepsStep
  <1>5. CASE ImageSaverRun
    BY <1>5, SaverKeepsStep DEF ImageSaverRun
  <1> QED BY <1>1, <1>2, <1>3, <1>4, <1>5 DEF CleanStep, Images

(* A picture that has been taken stays on its way until it is in its file. *)
LEMMA HeldStays ==
    ASSUME Clean, StepInv, CleanStep, NEW f \in Frame
    PROVE  Held(f)' \/ (~Held(f) /\ shots'[f] = shots[f])
  <1>0. files \in [0..NFrames -> 0..NFrames] /\ f \in 0..NFrames
    BY StepFacts DEF Frame
  <1>1. CASE NoPicture
    BY <1>1, NoPictureKeepsStep DEF Held, OnTheWay
  <1>2. CASE captureStillPicture("bg")
    BY <1>2, StillKeepsStep DEF captureStillPicture, Held
  <1>3. CASE imageReady
    BY <1>3, ImageKeepsStep DEF imageReady, Held
  <1>4. CASE onImageAvailable
    BY <1>4, AvailableKeepsStep DEF onImageAvailable, Held
  <1>5. CASE ImageSaverRun
    <2>1. PICK g \in Frame : /\ OnTheWay' = OnTheWay \ {g} /\ files' = [files EXCEPT ![g] = g]
      BY <1>5, SaverKeepsStep
    <2>2. UNCHANGED shots
      BY <1>5 DEF ImageSaverRun
    <2>3. CASE f = g
      BY <1>0, <2>1, <2>3 DEF Held
    <2>4. CASE f # g
      BY <1>0, <2>1, <2>2, <2>4 DEF Held
    <2> QED BY <2>3, <2>4
  <1> QED BY <1>1, <1>2, <1>3, <1>4, <1>5 DEF CleanStep, Images

LEMMA CleanInitially == ASSUME Clean, Init PROVE CleanInv
  <1>1. CaptureInv
    BY InitiallyCapture
  <1>2. OneLooper /\ DecisionInStep
    BY DEF Init, OneLooper, DecisionInStep, Looper, Clean
  <1>3. RequestInStep /\ ShotsInStep
    BY Constants DEF Init, RequestInStep, ShotsInStep, Open, Looper, STATE_PREVIEW, Frame
  <1>4. OnTheWay = {} /\ ~ImageOutstanding
    <2>1. Carried(<<>>, <<>>) = {}
      BY CarriedCases
    <2>2. OnTheWay = {}
      BY <2>1 DEF Init, OnTheWay
    <2>3. ~ImageOutstanding
      BY DEF Init, ImageOutstanding
    <2> QED BY <2>2, <2>3
  <1>5. ImagesInStep
    BY <1>4 DEF Init, ImagesInStep, OneInFlight
  <1>6. EachFileItsOwnFrame /\ Kept({}) /\ ~dead
    BY DEF Init, EachFileItsOwnFrame, Kept, Frame
  <1> QED BY <1>1, <1>2, <1>3, <1>5, <1>6 DEF CleanInv, StepInv

LEMMA CleanInvariant == ASSUME Clean PROVE Spec => []CleanInv
  <1>1. Init => CleanInv
    BY CleanInitially
  <1>2. CleanInv /\ [Next]_vars => CleanInv'
    <2> SUFFICES ASSUME CleanInv, [Next]_vars PROVE CleanInv'
      OBVIOUS
    <2>0. StepInv /\ Kept({}) /\ ~dead
      BY DEF CleanInv
    <2>1. CASE UNCHANGED vars
      BY <2>1 DEF vars, loopVars, machine, images, CleanInv, StepInv, CaptureInv, TypeOK, LoopType,
         MachineType, ImageType, NamesInStep, RestsUntilAsked, NeverFromTheFuture, Past,
         OneLooper, DecisionInStep, RequestInStep, Open, ShotsInStep, ImagesInStep, OneInFlight,
         ImageOutstanding, OnTheWay, EachFileItsOwnFrame, Kept, Held
    <2>2. CASE Next
      <3>1. CleanStep
        BY <2>0, <2>2, NextIsClean
      <3>2. StepInv' /\ ~dead'
        BY <2>0, <3>1, CleanStepKeepsStep
      <3>3. Kept({})'
        BY <2>0, <3>1, HeldStays DEF Kept
      <3> QED BY <3>2, <3>3 DEF CleanInv
    <2> QED BY <2>1, <2>2
  <1>3. QED BY <1>1, <1>2, PTL DEF Spec

------------------------------------------------------------------------------
(* Every frame the loop is past has had exactly one still capture, the     *)
(* current one at most one: no result of the preview, of the focus trigger *)
(* or of the precapture trigger makes process() call captureStillPicture   *)
(* twice for one takePicture, whatever the device reports and however      *)
(* many frames there are, as long as the results come on one looper.       *)
THEOREM CleanOnePicture == ASSUME Clean PROVE Spec => []OnePicturePerFrame
  <1>1. CleanInv => OnePicturePerFrame
    BY DEF CleanInv, StepInv, ShotsInStep, OnePicturePerFrame
  <1> QED BY <1>1, CleanInvariant, PTL

(* acquireNextImage of onImageAvailable never throws: an image comes to    *)
(* the reader only when the saver of the one before has closed its own.    *)
(* One image would do for the maxImages of the reader.                     *)
THEOREM CleanReader == ASSUME Clean PROVE Spec => []ReaderWithinLimit
  <1>1. CleanInv => ReaderWithinLimit
    BY DEF CleanInv, ReaderWithinLimit
  <1> QED BY <1>1, CleanInvariant, PTL

(* A file of the acquisition holds the picture of its own frame or none:   *)
(* the ImageSaver gets full_image_file only when onImageAvailable runs,    *)
(* and mSleep has kept the loop from naming the next file until then.      *)
THEOREM CleanFiles == ASSUME Clean PROVE Spec => []EachFileItsOwnFrame
  <1>1. CleanInv => EachFileItsOwnFrame
    BY DEF CleanInv, StepInv
  <1> QED BY <1>1, CleanInvariant, PTL

------------------------------------------------------------------------------
(* The refinement.                                                         *)

(* A step that leaves what StillCamera shows alone is a stutter.           *)
LEMMA Unseen ==
    ASSUME UNCHANGED <<asked, shots, exposed, bgQueue, files>>,
           \/ UNCHANGED <<loop, cameraReady>>
           \/ (loop # "wait" \/ cameraReady) /\ (loop' # "wait" \/ cameraReady')
    PROVE  UNCHANGED Camera!vars
  <1>1. UNCHANGED AbstractPhase
    BY DEF AbstractPhase
  <1>2. UNCHANGED OnTheWay
    BY DEF OnTheWay
  <1>3. UNCHANGED [f \in Frame |-> files[f]]
    OBVIOUS
  <1> QED BY <1>1, <1>2, <1>3 DEF Camera!vars

(* takePicture is Ask.                                                     *)
LEMMA LockAsks == ASSUME StepInv, takePictureLock PROVE Camera!Ask
  <1>1. /\ loop = "lock" /\ loop' = "wait" /\ asked' = frame
        /\ UNCHANGED <<cameraReady, exposed, bgQueue, files, shots>>
    BY DEF takePictureLock, images
  <1>2. frame \in Frame /\ asked = frame - 1 /\ ~cameraReady /\ NFrames \in Nat
    BY <1>1, StepFacts DEF StepInv, RequestInStep
  <1>3. shots[frame] = 0
    BY <1>1, <1>2 DEF StepInv, ShotsInStep
  <1>4. AbstractPhase = "idle" /\ AbstractPhase' = "asked"
    BY <1>1, <1>2, <1>3 DEF AbstractPhase
  <1>5. asked < NFrames /\ asked' = asked + 1
    BY <1>1, <1>2 DEF Frame
  <1>6. UNCHANGED OnTheWay
    BY <1>1 DEF OnTheWay
  <1>7. UNCHANGED [f \in Frame |-> files[f]]
    BY <1>1
  <1> QED BY <1>4, <1>5, <1>6, <1>7 DEF Camera!Ask

(* captureStillPicture is Expose.                                          *)
LEMMA StillExposes == ASSUME StepInv, captureStillPicture("bg") PROVE Camera!Expose
  <1>1. /\ loop = "wait" /\ ~cameraReady /\ asked \in Frame /\ shots[asked] = 0
    BY StillFacts DEF captureStillPicture
  <1>2. UNCHANGED <<loop, cameraReady, asked, files>>
    BY DEF captureStillPicture, loopVars
  <1>3. OnTheWay' = OnTheWay \cup {asked} /\ shots'[asked] = 1
    BY <1>1, StillKeepsStep
  <1>4. AbstractPhase = "asked" /\ AbstractPhase' = "exposed"
    BY <1>1, <1>2, <1>3 DEF AbstractPhase
  <1>5. UNCHANGED [f \in Frame |-> files[f]]
    BY <1>2
  <1> QED BY <1>2, <1>3, <1>4, <1>5 DEF Camera!Expose

(* onCaptureCompleted of the still is Ready.                               *)
LEMMA CompletedIsReady == ASSUME StepInv, stillCompleted("bg") PROVE Camera!Ready
  <1>1. /\ completions["bg"] > 0 /\ cameraReady' = TRUE
        /\ UNCHANGED <<loop, asked, shots, exposed, bgQueue, files>>
    BY DEF stillCompleted, loopVars, images
  <1>2. loop = "wait" /\ ~cameraReady /\ asked = frame /\ frame \in Frame
    BY <1>1, StepFacts DEF StepInv, RequestInStep, Open, STATE_PREVIEW, STATE_PICTURE_TAKEN
  <1>3. shots[asked] = 1
    BY <1>1, <1>2 DEF StepInv, ShotsInStep
  <1>4. AbstractPhase = "exposed" /\ AbstractPhase' = "idle"
    BY <1>1, <1>2, <1>3 DEF AbstractPhase
  <1>5. UNCHANGED OnTheWay
    BY <1>1 DEF OnTheWay
  <1>6. UNCHANGED [f \in Frame |-> files[f]]
    BY <1>1
  <1> QED BY <1>1, <1>4, <1>5, <1>6 DEF Camera!Ready

(* An ImageSaver files the picture it holds.                               *)
LEMMA SaverFiles == ASSUME StepInv, ImageSaverRun PROVE \E f \in 1..NFrames : Camera!File(f)
  <1>1. PICK f \in Frame : /\ f \in OnTheWay /\ OnTheWay' = OnTheWay \ {f}
                           /\ files' = [files EXCEPT ![f] = f]
    BY SaverKeepsStep
  <1>2. UNCHANGED <<loop, cameraReady, asked, shots>>
    BY DEF ImageSaverRun, loopVars
  <1>3. UNCHANGED AbstractPhase
    BY <1>2 DEF AbstractPhase
  <1>4. [g \in Frame |-> files[g]]' = [[g \in Frame |-> files[g]] EXCEPT ![f] = f]
    <2>1. files \in [0..NFrames -> 0..NFrames] /\ \A g \in Frame : g \in 0..NFrames
      BY StepFacts DEF Frame
    <2>2. \A g \in Frame : files'[g] = IF g = f THEN f ELSE files[g]
      BY <1>1, <2>1
    <2>3. [g \in Frame |-> files'[g]] = [g \in Frame |-> IF g = f THEN f ELSE files[g]]
      BY <2>2
    <2>4. [g \in Frame |-> IF g = f THEN f ELSE files[g]]
              = [[g \in Frame |-> files[g]] EXCEPT ![f] = f]
      OBVIOUS
    <2> QED BY <2>3, <2>4
  <1>5. Camera!File(f)
    BY <1>1, <1>2, <1>3, <1>4 DEF Camera!File
  <1> QED BY <1>5 DEF Frame

(* Whatever the focus lock, the precapture, mState, the reader and the     *)
(* saver do, the task that takes the pictures sees a StillCamera: one      *)
(* picture for each takePicture, cameraReady only after it, each picture   *)
(* filed once and under the name set before takePicture.                   *)
THEOREM CleanRefinement == ASSUME Clean PROVE Spec => Camera!Spec
  <1>1. Init => Camera!Init
    <2> SUFFICES ASSUME Init PROVE Camera!Init
      OBVIOUS
    <2>1. Carried(<<>>, <<>>) = {}
      BY CarriedCases
    <2>2. OnTheWay = {}
      BY <2>1 DEF Init, OnTheWay
    <2>3. AbstractPhase = "idle" /\ asked = 0
      BY DEF Init, AbstractPhase
    <2>4. [f \in Frame |-> files[f]] = [f \in 1..NFrames |-> 0]
      BY DEF Init, Frame
    <2> QED BY <2>2, <2>3, <2>4 DEF Camera!Init
  <1>2. CleanInv /\ [Next]_vars => [Camera!Next]_Camera!vars
    <2> SUFFICES ASSUME CleanInv, [Next]_vars PROVE Camera!Next \/ UNCHANGED Camera!vars
      OBVIOUS
    <2>0. StepInv
      BY DEF CleanInv
    <2>1. CASE UNCHANGED vars
      BY <2>1, Unseen DEF vars, loopVars, images
    <2>2. CASE nameFrame \/ takePicture \/ frameReady
      BY <2>2, Unseen DEF nameFrame, takePicture, frameReady, images
    <2>3. CASE takePictureLock
      BY <2>0, <2>3, LockAsks DEF Camera!Next
    <2>4. CASE onCaptureResult("bg") \/ runPrecaptureSequence("bg") \/ precaptureStarted("bg")
               \/ previewResult
      BY <2>4, Unseen DEF onCaptureResult, runPrecaptureSequence, precaptureStarted, previewResult,
                          images, loopVars
    <2>5. CASE stillCompleted("bg")
      BY <2>0, <2>5, CompletedIsReady DEF Camera!Next
    <2>6. CASE captureStillPicture("bg")
      BY <2>0, <2>6, StillExposes DEF Camera!Next
    <2>7. CASE imageReady \/ onImageAvailable
      <3>1. UNCHANGED OnTheWay
        BY <2>0, <2>7, ImageKeepsStep, AvailableKeepsStep
      <3>2. UNCHANGED <<asked, shots, files, loop, cameraReady>>
        BY <2>7 DEF imageReady, onImageAvailable, loopVars
      <3>3. UNCHANGED AbstractPhase
        BY <3>2 DEF AbstractPhase
      <3>4. UNCHANGED [f \in Frame |-> files[f]]
        BY <3>2
      <3> QED BY <3>1, <3>2, <3>3, <3>4 DEF Camera!vars
    <2>8. CASE ImageSaverRun
      BY <2>0, <2>8, SaverFiles DEF Camera!Next
    <2>9. CASE Next
      BY <2>0, <2>9, <2>2, <2>3, <2>4, <2>5, <2>6, <2>7, <2>8, NextIsClean
         DEF CleanStep, NoPicture, Images
    <2> QED BY <2>1, <2>9
  <1>3. QED BY <1>1, <1>2, CleanInvariant, PTL DEF Spec, Camera!Spec

==============================================================================
