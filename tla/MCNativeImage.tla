--------------------------- MODULE MCNativeImage ---------------------------
(* Images of a few rows and columns, and two pixels inside the circle.    *)
EXTENDS NativeImage

=============================================================================
