------------------------- MODULE FrameCaptureProofs -------------------------
(***************************************************************************)
(* What holds of FrameCapture for every number of frames, every device and *)
(* every environment: its types, and that no picture ends up in the file   *)
(* of an earlier frame.                                                    *)
(***************************************************************************)
EXTENDS FrameCapture, TLAPS

(* Taking the head of a sequence, and adding to its end.                   *)
LEMMA HeadTail ==
    ASSUME NEW S, NEW s \in Seq(S), s # <<>>
    PROVE  Head(s) \in S /\ Tail(s) \in Seq(S)
  OBVIOUS

LEMMA AppendTyped ==
    ASSUME NEW S, NEW s \in Seq(S), NEW x \in S
    PROVE  Append(s, x) \in Seq(S)
  OBVIOUS

LEMMA SeqMonotonic ==
    ASSUME NEW S, NEW T, S \subseteq T, NEW s \in Seq(S)
    PROVE  s \in Seq(T)
  OBVIOUS

(* What the proofs use of the constants.                                   *)
LEMMA Constants == NFrames \in Nat /\ NFrames > 0 /\ Depth \in Nat /\ Depth > 0
  BY CaptureAssumption

(* A step that leaves a part of the state alone leaves it well typed.      *)
LEMMA LoopSame ==
    ASSUME LoopType, UNCHANGED <<frame, loop, cameraReady, full_image_file, asked, dead>>
    PROVE  LoopType'
  BY DEF LoopType

LEMMA MachineSame == ASSUME MachineType, UNCHANGED machine PROVE MachineType'
  BY DEF MachineType, machine

LEMMA ImageSame == ASSUME ImageType, UNCHANGED <<images, shots>> PROVE ImageType'
  BY DEF ImageType, images

(* Queued keeps the number of queued results within its bound.             *)
LEMMA QueuedTyped ==
    ASSUME TypeOK, NEW l \in Looper
    PROVE  Queued(l) \in [Looper -> 0..Depth]
  <1> SUFFICES ASSUME NEW n \in 0..Depth
               PROVE  (IF n < Depth THEN n + 1 ELSE n) \in 0..Depth
    BY DEF TypeOK, MachineType, Queued
  <1> QED BY Constants

(* process() asks for nothing in STATE_PREVIEW, and for one of Todo always. *)
LEMMA ProcessTyped ==
    ASSUME NEW state \in 0..4, NEW af, NEW ae
    PROVE  /\ process(state, af, ae) \in Todo
           /\ state = STATE_PREVIEW => process(state, af, ae) = "nothing"
  BY DEF process, Todo, STATE_PREVIEW, STATE_WAITING_LOCK, STATE_WAITING_PRECAPTURE,
         STATE_WAITING_NON_PRECAPTURE

(* The frame loop keeps the invariant: only it moves the name forward.     *)
LEMMA FrameLoopKeeps == CaptureInv /\ FrameLoop => CaptureInv'
  <1> SUFFICES ASSUME CaptureInv, FrameLoop PROVE CaptureInv'
    OBVIOUS
  <1> USE Constants
  <1>0. /\ TypeOK /\ NamesInStep /\ RestsUntilAsked /\ NeverFromTheFuture
        /\ exposed \in Seq(1..asked) /\ bgQueue \in Seq(Past(asked))
        /\ LoopType /\ MachineType /\ ImageType
    BY DEF CaptureInv, TypeOK
  <1>n. frame \in Nat /\ asked \in Nat /\ full_image_file \in Nat /\ NFrames \in Nat
    BY <1>0 DEF LoopType
  <1>1. CASE nameFrame
    <2>1. /\ loop = "name" /\ loop' = "take" /\ full_image_file' = frame /\ cameraReady' = FALSE
          /\ UNCHANGED <<frame, machine, images, asked, shots, dead>>
      BY <1>1 DEF nameFrame
    <2>2. TypeOK'
      <3>1. full_image_file' \in 0..NFrames
        BY <1>0, <1>n, <2>1 DEF NamesInStep, LoopType
      <3>2. cameraReady' \in BOOLEAN /\ loop' \in {"name", "take", "lock", "wait", "done"}
        BY <2>1
      <3>3. LoopType'
        BY <1>0, <2>1, <3>1, <3>2 DEF LoopType
      <3> QED BY <1>0, <2>1, <3>3, MachineSame, ImageSame DEF TypeOK
    <2>3. NamesInStep'
      BY <1>0, <1>n, <2>1 DEF NamesInStep
    <2> QED BY <1>0, <2>1, <2>2, <2>3 DEF CaptureInv, RestsUntilAsked, NeverFromTheFuture,
                                          Past, machine, images
  <1>2. CASE takePictureLock
    <2>1. /\ loop = "lock" /\ loop' = "wait" /\ asked' = frame
          /\ mState' = STATE_WAITING_LOCK /\ results' = Queued("bg")
          /\ UNCHANGED <<frame, full_image_file, cameraReady, todo, repeating, completions,
                         images, shots, dead>>
      BY <1>2 DEF takePictureLock
    <2>2. asked' \in 1..NFrames /\ asked <= asked'
      BY <1>0, <1>n, <2>1 DEF NamesInStep, LoopType
    <2>3. results' \in [Looper -> 0..Depth]
      BY <1>0, <2>1, QueuedTyped DEF Looper
    <2>4. TypeOK'
      <3>1. LoopType'
        BY <1>0, <1>n, <2>1, <2>2 DEF LoopType
      <3>2. MachineType'
        BY <1>0, <2>1, <2>3 DEF MachineType, STATE_WAITING_LOCK
      <3> QED BY <1>0, <2>1, <3>1, <3>2, ImageSame DEF TypeOK
    <2>5. NamesInStep' /\ RestsUntilAsked'
      BY <1>0, <1>n, <2>1, <2>2 DEF NamesInStep, RestsUntilAsked
    <2>6. exposed' \in Seq(1..asked')
      <3>1. (1..asked) \subseteq 1..asked'
        BY <1>n, <2>2
      <3>2. exposed' = exposed
        BY <2>1 DEF images
      <3> QED BY <1>0, <3>1, <3>2, SeqMonotonic
    <2>7. bgQueue' \in Seq(Past(asked)')
      <3>1. Past(asked) \subseteq Past(asked')
        BY <1>n, <2>2 DEF Past, QueueItem, Frame
      <3>2. bgQueue' = bgQueue
        BY <2>1 DEF images
      <3> QED BY <1>0, <3>1, <3>2, SeqMonotonic DEF Past
    <2> QED BY <1>0, <2>1, <2>4, <2>5, <2>6, <2>7 DEF CaptureInv, NeverFromTheFuture, images
  <1>3. CASE frameReady
    <2>1. /\ loop = "wait" /\ frame' = frame + 1
          /\ loop' = (IF frame = NFrames THEN "done" ELSE "name")
          /\ UNCHANGED <<full_image_file, cameraReady, machine, images, asked, shots, dead>>
      BY <1>3 DEF frameReady
    <2>2. TypeOK'
      <3>1. LoopType'
        BY <1>0, <1>n, <2>1 DEF LoopType, NamesInStep
      <3> QED BY <1>0, <2>1, <3>1, MachineSame, ImageSame DEF TypeOK
    <2>3. NamesInStep'
      BY <1>0, <1>n, <2>1 DEF NamesInStep
    <2> QED BY <1>0, <2>1, <2>2, <2>3 DEF CaptureInv, RestsUntilAsked, NeverFromTheFuture,
                                          Past, machine, images
  <1>4. CASE takePicture
    <2>1. /\ loop = "take" /\ loop' = "lock" /\ cameraReady' = FALSE
          /\ UNCHANGED <<frame, full_image_file, machine, images, asked, shots, dead>>
      BY <1>4 DEF takePicture
    <2>2. TypeOK'
      <3>1. cameraReady' \in BOOLEAN /\ loop' \in {"name", "take", "lock", "wait", "done"}
        BY <2>1
      <3>2. LoopType'
        BY <1>0, <2>1, <3>1 DEF LoopType
      <3> QED BY <1>0, <2>1, <3>2, MachineSame, ImageSame DEF TypeOK
    <2>3. NamesInStep'
      BY <1>0, <2>1 DEF NamesInStep
    <2> QED BY <1>0, <2>1, <2>2, <2>3 DEF CaptureInv, RestsUntilAsked, NeverFromTheFuture,
                                          Past, machine, images
  <1> QED BY <1>1, <1>2, <1>3, <1>4 DEF FrameLoop

(* A capture callback keeps it: a still is exposed for the frame asked for.*)
LEMMA CallbacksKeep == ASSUME CaptureInv, NEW l \in Looper, Callbacks(l) PROVE CaptureInv'
  <1> USE Constants
  <1>0. /\ TypeOK /\ NamesInStep /\ RestsUntilAsked /\ NeverFromTheFuture
        /\ exposed \in Seq(1..asked) /\ bgQueue \in Seq(Past(asked))
        /\ LoopType /\ MachineType /\ ImageType
    BY DEF CaptureInv, TypeOK
  <1>a. ASSUME TypeOK', RestsUntilAsked', UNCHANGED <<loopVars, images, asked>>
        PROVE  CaptureInv'
    BY <1>0, <1>a DEF CaptureInv, NamesInStep, NeverFromTheFuture, Past, loopVars, images
  <1>1. CASE onCaptureResult(l)
    <2>1. PICK af \in AfStates, ae \in AeStates :
            todo' = [todo EXCEPT ![l] = process(mState, af, ae)]
      BY <1>1 DEF onCaptureResult
    <2>2. /\ results[l] > 0 /\ results' = [results EXCEPT ![l] = @ - 1]
          /\ UNCHANGED <<loopVars, cameraReady, mState, repeating, completions, images,
                         asked, shots, dead>>
      BY <1>1 DEF onCaptureResult
    <2>3. /\ process(mState, af, ae) \in Todo
          /\ mState = STATE_PREVIEW => process(mState, af, ae) = "nothing"
      BY <1>0, ProcessTyped DEF MachineType
    <2>4. todo' \in [Looper -> Todo] /\ RestsUntilAsked'
      BY <1>0, <2>1, <2>2, <2>3 DEF MachineType, RestsUntilAsked
    <2>5. results' \in [Looper -> 0..Depth]
      <3>1. results[l] \in 1..Depth
        BY <1>0, <2>2 DEF MachineType
      <3>2. results[l] - 1 \in 0..Depth
        BY <3>1
      <3> QED BY <1>0, <2>2, <3>2 DEF MachineType
    <2>6. TypeOK'
      <3>1. LoopType'
        BY <1>0, <2>2, LoopSame DEF loopVars
      <3>2. MachineType'
        BY <1>0, <2>2, <2>4, <2>5 DEF MachineType
      <3> QED BY <1>0, <2>2, <3>1, <3>2, ImageSame DEF TypeOK
    <2> QED BY <1>a, <2>2, <2>4, <2>6
  <1>2. CASE runPrecaptureSequence(l) \/ precaptureStarted(l)
    <2>1. /\ todo[l] # "nothing" /\ todo' = [todo EXCEPT ![l] = "nothing"]
          /\ mState' \in {STATE_WAITING_PRECAPTURE, STATE_WAITING_NON_PRECAPTURE}
          /\ results' \in {results, Queued("bg")}
          /\ UNCHANGED <<loopVars, cameraReady, repeating, completions, images, asked, shots, dead>>
      BY <1>2 DEF runPrecaptureSequence, precaptureStarted
    <2>2. results' \in [Looper -> 0..Depth]
      BY <1>0, <2>1, QueuedTyped DEF Looper, MachineType
    <2>3. TypeOK'
      <3>1. LoopType'
        BY <1>0, <2>1, LoopSame DEF loopVars
      <3>2. mState' \in 0..4 /\ todo' \in [Looper -> Todo]
        BY <1>0, <2>1 DEF MachineType, Todo, STATE_WAITING_PRECAPTURE, STATE_WAITING_NON_PRECAPTURE
      <3>3. MachineType'
        BY <1>0, <2>1, <2>2, <3>2 DEF MachineType
      <3> QED BY <1>0, <2>1, <3>1, <3>3, ImageSame DEF TypeOK
    <2>4. RestsUntilAsked'
      BY <1>0, <2>1 DEF RestsUntilAsked
    <2> QED BY <1>a, <2>1, <2>3, <2>4
  <1>3. CASE captureStillPicture(l)
    <2>1. /\ todo[l] # "nothing" /\ todo' = [todo EXCEPT ![l] = "nothing"]
          /\ mState' \in {STATE_PICTURE_TAKEN, mState} /\ repeating' = "none"
          /\ completions' = [completions EXCEPT ![l] = @ + 1]
          /\ exposed' = Append(exposed, asked)
          /\ shots' = [shots EXCEPT ![asked] = IF @ < 2 THEN @ + 1 ELSE @]
          /\ UNCHANGED <<loopVars, cameraReady, results, bgQueue, files, asked, dead>>
      BY <1>3 DEF captureStillPicture
    <2>2. asked # 0
      BY <1>0, <2>1 DEF RestsUntilAsked
    <2>3. asked \in Frame /\ asked \in 1..asked
      BY <1>0, <2>2 DEF LoopType, Frame
    <2>4. exposed' \in Seq(1..asked) /\ exposed' \in Seq(Frame)
      BY <1>0, <2>1, <2>3, AppendTyped DEF ImageType
    <2>5. /\ todo' \in [Looper -> Todo] /\ completions' \in [Looper -> Nat]
          /\ shots' \in [Frame -> 0..2] /\ mState' \in 0..4
      <3>1. todo' \in [Looper -> Todo]
        BY <1>0, <2>1 DEF MachineType, Todo
      <3>2. completions' \in [Looper -> Nat]
        BY <1>0, <2>1 DEF MachineType
      <3>3. shots' \in [Frame -> 0..2]
        <4>1. shots[asked] \in 0..2
          BY <1>0, <2>3 DEF ImageType
        <4>2. (IF shots[asked] < 2 THEN shots[asked] + 1 ELSE shots[asked]) \in 0..2
          BY <4>1
        <4> QED BY <1>0, <2>1, <4>2 DEF ImageType
      <3>4. mState' \in 0..4
        BY <1>0, <2>1 DEF MachineType, STATE_PICTURE_TAKEN
      <3> QED BY <3>1, <3>2, <3>3, <3>4
    <2>6. TypeOK'
      <3>1. LoopType'
        BY <1>0, <2>1, LoopSame DEF loopVars
      <3>2. MachineType'
        BY <1>0, <2>1, <2>5 DEF MachineType
      <3>3. ImageType'
        BY <1>0, <2>1, <2>4, <2>5 DEF ImageType
      <3> QED BY <3>1, <3>2, <3>3 DEF TypeOK
    <2> QED BY <1>0, <2>1, <2>2, <2>4, <2>6
            DEF CaptureInv, NamesInStep, RestsUntilAsked, NeverFromTheFuture, Past, loopVars
  <1>4. CASE stillCompleted(l)
    <2>1. /\ completions[l] > 0 /\ completions' = [completions EXCEPT ![l] = @ - 1]
          /\ results' = Queued("bg") /\ mState' = STATE_PREVIEW
          /\ repeating' = "bg" /\ cameraReady' = TRUE
          /\ UNCHANGED <<loopVars, todo, images, asked, shots, dead>>
      BY <1>4 DEF stillCompleted
    <2>2. results' \in [Looper -> 0..Depth] /\ completions' \in [Looper -> Nat]
      <3>1. results' \in [Looper -> 0..Depth]
        BY <1>0, <2>1, QueuedTyped DEF Looper
      <3>2. completions' \in [Looper -> Nat]
        BY <1>0, <2>1 DEF MachineType
      <3> QED BY <3>1, <3>2
    <2>3. TypeOK'
      <3>1. LoopType'
        BY <1>0, <2>1 DEF LoopType, loopVars
      <3>2. MachineType'
        BY <1>0, <2>1, <2>2 DEF MachineType, STATE_PREVIEW, Looper
      <3> QED BY <1>0, <2>1, <3>1, <3>2, ImageSame DEF TypeOK
    <2>4. RestsUntilAsked'
      BY <1>0, <2>1 DEF RestsUntilAsked
    <2> QED BY <1>a, <2>1, <2>3, <2>4
  <1> QED BY <1>1, <1>2, <1>3, <1>4 DEF Callbacks

(* The way of an image keeps it: the file name it gets is not behind it.   *)
LEMMA ImagesKeep == CaptureInv /\ Images => CaptureInv'
  <1> SUFFICES ASSUME CaptureInv, Images PROVE CaptureInv'
    OBVIOUS
  <1> USE Constants
  <1>0. /\ TypeOK /\ NamesInStep /\ RestsUntilAsked /\ NeverFromTheFuture
        /\ exposed \in Seq(1..asked) /\ bgQueue \in Seq(Past(asked))
        /\ LoopType /\ MachineType /\ ImageType
    BY DEF CaptureInv, TypeOK
  <1>n. asked \in Nat /\ full_image_file \in Nat /\ asked <= full_image_file
    BY <1>0 DEF LoopType, NamesInStep
  <1>1. CASE imageReady
    <2> DEFINE q == [kind |-> "available", img |-> Head(exposed)]
    <2>1. /\ exposed # <<>> /\ exposed' = Tail(exposed) /\ bgQueue' = Append(bgQueue, q)
          /\ UNCHANGED <<loopVars, cameraReady, machine, files, asked, shots, dead>>
      BY <1>1 DEF imageReady
    <2>2. Head(exposed) \in 1..asked /\ Head(exposed) \in Frame
      BY <1>0, <2>1, HeadTail DEF ImageType
    <2>3. q \in QueueItem /\ q \in Past(asked)
      BY <1>n, <2>2 DEF Past, QueueItem
    <2> HIDE DEF q
    <2>4. bgQueue' \in Seq(QueueItem) /\ bgQueue' \in Seq(Past(asked))
      BY <1>0, <2>1, <2>3, AppendTyped DEF ImageType
    <2>5. exposed' \in Seq(Frame) /\ exposed' \in Seq(1..asked)
      BY <1>0, <2>1, HeadTail DEF ImageType
    <2>6. TypeOK'
      <3>1. ImageType'
        BY <1>0, <2>1, <2>4, <2>5 DEF ImageType
      <3> QED BY <1>0, <2>1, <3>1, LoopSame, MachineSame DEF TypeOK, loopVars
    <2> QED BY <1>0, <2>1, <2>4, <2>5, <2>6
            DEF CaptureInv, NamesInStep, RestsUntilAsked, NeverFromTheFuture, Past, loopVars, machine
  <1>2. CASE onImageAvailable
    <2>1. /\ bgQueue # <<>>
          /\ UNCHANGED <<loopVars, cameraReady, machine, exposed, files, asked, shots>>
      BY <1>2 DEF onImageAvailable
    <2>2. Head(bgQueue) \in QueueItem /\ Tail(bgQueue) \in Seq(QueueItem)
      BY <1>0, <2>1, HeadTail DEF ImageType
    <2>3. Head(bgQueue) \in Past(asked) /\ Tail(bgQueue) \in Seq(Past(asked))
      BY <1>0, <2>1, HeadTail
    <2> DEFINE i == Head(bgQueue).img
               q == [kind |-> "saver", img |-> i, file |-> full_image_file]
    <2>4. i \in Frame /\ i <= asked
      BY <2>2, <2>3 DEF Past, QueueItem
    <2>5. \/ dead' = TRUE /\ bgQueue' = bgQueue
          \/ dead' = dead /\ bgQueue' = Append(Tail(bgQueue), q)
      BY <1>2 DEF onImageAvailable
    <2> HIDE DEF i
    <2>6. q \in QueueItem /\ q \in Past(asked)
      <3>1. full_image_file \in 0..NFrames /\ i <= full_image_file
        BY <1>0, <1>n, <2>4 DEF LoopType, Frame
      <3>2. q \in QueueItem
        BY <2>4, <3>1 DEF QueueItem
      <3> QED BY <2>4, <3>1, <3>2 DEF Past
    <2> HIDE DEF q
    <2>7. bgQueue' \in Seq(QueueItem) /\ bgQueue' \in Seq(Past(asked))
      <3>1. Append(Tail(bgQueue), q) \in Seq(QueueItem)
        BY <2>2, <2>6, AppendTyped
      <3>2. Append(Tail(bgQueue), q) \in Seq(Past(asked))
        BY <2>3, <2>6, AppendTyped
      <3>3. bgQueue \in Seq(QueueItem) /\ bgQueue \in Seq(Past(asked))
        BY <1>0 DEF ImageType
      <3> QED BY <2>5, <3>1, <3>2, <3>3
    <2>8. TypeOK'
      <3>1. LoopType'
        BY <1>0, <2>1, <2>5 DEF LoopType, loopVars
      <3>2. ImageType'
        BY <1>0, <2>1, <2>7 DEF ImageType
      <3> QED BY <1>0, <2>1, <3>1, <3>2, MachineSame DEF TypeOK
    <2> QED BY <1>0, <2>1, <2>7, <2>8
            DEF CaptureInv, NamesInStep, RestsUntilAsked, NeverFromTheFuture, Past, loopVars, machine
  <1>3. CASE ImageSaverRun
    <2>1. /\ bgQueue # <<>> /\ Head(bgQueue).kind = "saver" /\ bgQueue' = Tail(bgQueue)
          /\ files' = [files EXCEPT ![Head(bgQueue).file] = Head(bgQueue).img]
          /\ UNCHANGED <<loopVars, cameraReady, machine, exposed, asked, shots, dead>>
      BY <1>3 DEF ImageSaverRun
    <2>2. Head(bgQueue) \in QueueItem /\ Tail(bgQueue) \in Seq(QueueItem)
      BY <1>0, <2>1, HeadTail DEF ImageType
    <2>3. Head(bgQueue) \in Past(asked) /\ Tail(bgQueue) \in Seq(Past(asked))
      BY <1>0, <2>1, HeadTail
    <2> DEFINE i == Head(bgQueue).img
               f == Head(bgQueue).file
    <2>4. i \in Frame /\ f \in 0..NFrames /\ i <= f
      BY <2>1, <2>2, <2>3 DEF Past, QueueItem
    <2>5. files' = [files EXCEPT ![f] = i]
      BY <2>1
    <2> HIDE DEF i, f
    <2>6. files' \in [0..NFrames -> 0..NFrames] /\ NeverFromTheFuture'
      <3>1. files \in [0..NFrames -> 0..NFrames] /\ i \in 0..NFrames
        BY <1>0, <2>4 DEF ImageType, Frame
      <3>2. files' \in [0..NFrames -> 0..NFrames]
        BY <2>5, <3>1
      <3>3. ASSUME NEW g \in 0..NFrames PROVE files'[g] <= g
        BY <1>0, <2>4, <2>5, <3>1 DEF NeverFromTheFuture
      <3> QED BY <3>2, <3>3 DEF NeverFromTheFuture
    <2>7. TypeOK'
      <3>1. ImageType'
        BY <1>0, <2>1, <2>2, <2>6 DEF ImageType
      <3> QED BY <1>0, <2>1, <3>1, LoopSame, MachineSame DEF TypeOK, loopVars
    <2> QED BY <1>0, <2>1, <2>3, <2>6, <2>7
            DEF CaptureInv, NamesInStep, RestsUntilAsked, Past, loopVars, machine
  <1> QED BY <1>1, <1>2, <1>3 DEF Images

(* The preview and the exposure slider keep it.                            *)
LEMMA PreviewKeeps == CaptureInv /\ (previewResult \/ slideToExposuretime) => CaptureInv'
  <1> SUFFICES ASSUME CaptureInv, previewResult \/ slideToExposuretime PROVE CaptureInv'
    OBVIOUS
  <1>1. /\ UNCHANGED <<loopVars, cameraReady, mState, todo, completions, images, asked, shots, dead>>
        /\ repeating' \in Looper \cup {"none"}
        /\ results' = results \/ \E l \in Looper : results' = Queued(l)
    BY DEF previewResult, slideToExposuretime, CaptureInv, TypeOK, MachineType, Looper
  <1>2. results' \in [Looper -> 0..Depth]
    BY <1>1, QueuedTyped DEF CaptureInv, TypeOK, MachineType
  <1>3. TypeOK'
    <2>1. LoopType'
      BY <1>1, LoopSame DEF CaptureInv, TypeOK, loopVars
    <2>2. MachineType'
      BY <1>1, <1>2 DEF CaptureInv, TypeOK, MachineType
    <2> QED BY <1>1, <2>1, <2>2, ImageSame DEF CaptureInv, TypeOK
  <1> QED BY <1>1, <1>3 DEF CaptureInv, NamesInStep, RestsUntilAsked, NeverFromTheFuture, Past,
                            loopVars, images

(* The initial state satisfies it.                                         *)
LEMMA InitiallyCapture == Init => CaptureInv
  <1> SUFFICES ASSUME Init PROVE CaptureInv
    OBVIOUS
  <1> USE Constants
  <1>1. exposed \in Seq(1..asked) /\ exposed \in Seq(Frame)
    BY DEF Init
  <1>2. bgQueue \in Seq(Past(asked)) /\ bgQueue \in Seq(QueueItem)
    BY DEF Init
  <1>3. /\ results \in [Looper -> 0..Depth] /\ completions \in [Looper -> Nat]
        /\ todo \in [Looper -> Todo] /\ repeating \in Looper \cup {"none"}
    BY DEF Init, Todo, Looper
  <1>4. files \in [0..NFrames -> 0..NFrames] /\ shots \in [Frame -> 0..2]
    BY DEF Init
  <1>5. TypeOK
    BY <1>1, <1>2, <1>3, <1>4 DEF Init, TypeOK, LoopType, MachineType, ImageType, STATE_PREVIEW
  <1>6. NamesInStep /\ RestsUntilAsked /\ NeverFromTheFuture
    BY DEF Init, NamesInStep, RestsUntilAsked, NeverFromTheFuture
  <1> QED BY <1>1, <1>2, <1>5, <1>6 DEF CaptureInv

(* CaptureInv holds in every behaviour.                                    *)
LEMMA CaptureInvariant == Spec => []CaptureInv
  <1>1. Init => CaptureInv
    BY InitiallyCapture
  <1>2. CaptureInv /\ [Next]_vars => CaptureInv'
    <2> SUFFICES ASSUME CaptureInv, [Next]_vars PROVE CaptureInv'
      OBVIOUS
    <2>1. CASE UNCHANGED vars
      BY <2>1 DEF vars, loopVars, machine, images, CaptureInv, TypeOK, LoopType,
                  MachineType, ImageType, NamesInStep, RestsUntilAsked, NeverFromTheFuture, Past
    <2> QED BY <2>1, FrameLoopKeeps, CallbacksKeep, ImagesKeep, PreviewKeeps DEF Next
  <1>3. QED BY <1>1, <1>2, PTL DEF Spec

(* The state of a capture is well typed in every behaviour.                *)
THEOREM CaptureTypeCorrect == Spec => []TypeOK
  <1>1. CaptureInv => TypeOK
    BY DEF CaptureInv
  <1>2. QED BY <1>1, CaptureInvariant, PTL

(* Whatever the device reports, however the two loopers interleave and     *)
(* however late the images come, no picture is written to the file of an   *)
(* earlier frame.                                                          *)
THEOREM NothingFromTheFuture == Spec => []NeverFromTheFuture
  <1>1. CaptureInv => NeverFromTheFuture
    BY DEF CaptureInv
  <1>2. QED BY <1>1, CaptureInvariant, PTL

=============================================================================
