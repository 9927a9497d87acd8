--------------------------- MODULE MCToolBoundary ---------------------------
(***************************************************************************)
(* The constants the runs of ToolBoundary take.                            *)
(***************************************************************************)
EXTENDS ToolBoundary, TLC

CONSTANTS c1, c2   \* calls
=============================================================================
