-------------------------- MODULE MCInterruptedCalib --------------------------
(* Capture results for InterruptedCalib: a device that reports its AF and  *)
(* AE states.                                                              *)
EXTENDS InterruptedCalib

FullAf == {3} \cup AF_LOCKED
FullAe == {2, AE_PRECAPTURE}

===============================================================================
