----------------------------- MODULE MCTuiDesk -----------------------------
(***************************************************************************)
(* Two agents, a file and two commands, so that questions meet about the   *)
(* same operation and about different ones, and one approval may stand for *)
(* another command.  Two turns with two questions, the second submitted    *)
(* while the first is being cancelled; or one turn with three questions,   *)
(* so that one comes behind an abandoned one and another is hidden; or     *)
(* more turns with fewer questions.                                        *)
(***************************************************************************)
EXTENDS TuiDesk, TLC

CONSTANTS a1, a2, o1, o2, o3

MCAgents == {a1, a2}
MCOperations == {o1, o2, o3}
MCCommands == {o2, o3}
=============================================================================
