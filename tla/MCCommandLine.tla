--------------------------- MODULE MCCommandLine ---------------------------
(***************************************************************************)
(* Two terminals, two sessions, two skill files.  Processes and skills are *)
(* interchangeable.                                                        *)
(***************************************************************************)
EXTENDS CommandLine, TLC

Symmetry == Permutations(Procs) \cup Permutations(Skills)
=============================================================================
