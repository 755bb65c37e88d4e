--------------------------- MODULE MCToolProtocol ---------------------------
(***************************************************************************)
(* ToolProtocol with three requests, one of them the runner's own.         *)
(***************************************************************************)
EXTENDS ToolProtocol

CONSTANTS base, calls, slice

MCRequests == {base, calls, slice}
=============================================================================
