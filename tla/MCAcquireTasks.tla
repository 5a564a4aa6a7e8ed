--------------------------- MODULE MCAcquireTasks ---------------------------
(* The module TLC starts from for AcquireTasks.                            *)
EXTENDS AcquireTasks

=============================================================================
