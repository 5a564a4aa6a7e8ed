----------------------- MODULE FrameCaptureRefinement ------------------------
(***************************************************************************)
(* FrameCapture as an implementation of StillCamera.  It is one only in a  *)
(* clean environment: one looper, whole results, and a sleep before each   *)
(* frame that covers the last image (see the runs of FrameCapture).        *)
(***************************************************************************)
EXTENDS FrameCapture

(* A request is open from takePictureLock until cameraReady; it has its    *)
(* picture once captureStillPicture has run for it.                        *)
AbstractPhase ==
    IF loop # "wait" \/ cameraReady THEN "idle"
    ELSE IF shots[asked] = 0 THEN "asked" ELSE "exposed"

Camera == INSTANCE StillCamera
            WITH phase <- AbstractPhase,
                 current <- asked,
                 due <- OnTheWay,
                 album <- [f \in Frame |-> files[f]]

(* The still capture of AcquireActivity is a still camera: whatever the    *)
(* state machine, the reader and the saver do, a task sees one picture per *)
(* takePicture, filed under the name set before it, and always an answer.  *)
ImplementsStillCamera == Camera!FairSpec

==============================================================================
