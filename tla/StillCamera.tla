----------------------------- MODULE StillCamera -----------------------------
(***************************************************************************)
(* What a run*Mode task expects of the camera: it asks for one picture at  *)
(* a time and waits until it is told to go on; the camera exposes exactly  *)
(* one picture for each request and files it, sooner or later, under the   *)
(* name that was given with the request.  The picture of a frame may still *)
(* be on its way to its file when the next one is asked for.               *)
(*                                                                         *)
(* How AcquireActivity does this (focus lock, precapture, mState, reader   *)
(* and saver) is FrameCapture; that it does is FrameCaptureRefinement.     *)
(***************************************************************************)
EXTENDS Integers

CONSTANT NFrames   \* requests of the acquisition

VARIABLES
    phase,     \* "idle", "asked" or "exposed"
    current,   \* the last request
    due,       \* pictures that have been exposed and not filed
    album      \* the picture each file holds; 0: none

vars == <<phase, current, due, album>>

Init ==
    /\ phase = "idle"
    /\ current = 0
    /\ due = {}
    /\ album = [f \in 1..NFrames |-> 0]

(* takePicture for the next frame.                                         *)
Ask ==
    /\ phase = "idle"
    /\ current < NFrames
    /\ current' = current + 1
    /\ phase' = "asked"
    /\ UNCHANGED <<due, album>>

(* The one still capture of this request.                                  *)
Expose ==
    /\ phase = "asked"
    /\ phase' = "exposed"
    /\ due' = due \cup {current}
    /\ UNCHANGED <<current, album>>

(* cameraReady: the task may go on.                                        *)
Ready ==
    /\ phase = "exposed"
    /\ phase' = "idle"
    /\ UNCHANGED <<current, due, album>>

(* Picture f is written to the file of frame f.                            *)
File(f) ==
    /\ f \in due
    /\ album' = [album EXCEPT ![f] = f]
    /\ due' = due \ {f}
    /\ UNCHANGED <<phase, current>>

Next == Ask \/ Expose \/ Ready \/ \E f \in 1..NFrames : File(f)

Spec == Init /\ [][Next]_vars

(* The camera answers every request and files every picture; nothing is    *)
(* promised about the task that asks.                                      *)
FairSpec ==
    /\ Spec
    /\ WF_vars(Expose)
    /\ WF_vars(Ready)
    /\ \A f \in 1..NFrames : WF_vars(File(f))

==============================================================================
