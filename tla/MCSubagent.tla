----------------------------- MODULE MCSubagent ----------------------------
(***************************************************************************)
(* Two of everything that repeats: the second try meets what the first     *)
(* left behind, and each limit is met with one repetition to spare.        *)
(***************************************************************************)
EXTENDS Subagent
=============================================================================
