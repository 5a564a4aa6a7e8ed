------------------------- MODULE MCCameraLifecycle -------------------------
(* The module TLC starts from for CameraLifecycle; the configurations give *)
(* it two device objects (one opened before an onPause, one after) as      *)
(* model values.                                                           *)
EXTENDS CameraLifecycle

=============================================================================
