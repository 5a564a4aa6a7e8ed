------------------------- MODULE MCPausedAcquisition -------------------------
(* The results of FrameCapture's full device, for PausedAcquisition.       *)
EXTENDS PausedAcquisition

FullAf == {3, AF_FOCUSED_LOCKED, AF_NOT_FOCUSED_LOCKED}
FullAe == {AE_CONVERGED, AE_PRECAPTURE}

==============================================================================
