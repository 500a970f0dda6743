----------------------------- MODULE MCTuiState -----------------------------
(***************************************************************************)
(* A main session and one subagent.  The limit of the timeline is small    *)
(* enough to be reached within the events of one turn and large enough for *)
(* the rows of a turn that is not truncated; the second turn meets the     *)
(* rows that the first left.                                               *)
(***************************************************************************)
EXTENDS TuiState, TLC

CONSTANTS m, s
=============================================================================
