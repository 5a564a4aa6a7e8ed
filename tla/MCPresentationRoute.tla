------------------------- MODULE MCPresentationRoute -------------------------
(* The module TLC starts from for PresentationRoute.                       *)
EXTENDS PresentationRoute

==============================================================================
