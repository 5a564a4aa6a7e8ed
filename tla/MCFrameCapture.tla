--------------------------- MODULE MCFrameCapture ---------------------------
(* Capture results for FrameCapture: the AF codes are one that is still    *)
(* scanning and the two locked ones, the AE codes one settled and          *)
(* PRECAPTURE; partial results also omit the AE state.                     *)
EXTENDS FrameCaptureRefinement

FullAf == {3, AF_FOCUSED_LOCKED, AF_NOT_FOCUSED_LOCKED}
FullAe == {AE_CONVERGED, AE_PRECAPTURE}
PartialAe == FullAe \cup {Null}

=============================================================================
