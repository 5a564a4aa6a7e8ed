---------------------------- MODULE MCGammaCalib ----------------------------
(* Capture results and mean values for GammaCalib: a device that reports   *)
(* its AF and AE states, and means that divide each other without rest.    *)
EXTENDS GammaCalib

FullAf == {3} \cup AF_LOCKED
FullAe == {2, AE_PRECAPTURE}

=============================================================================
