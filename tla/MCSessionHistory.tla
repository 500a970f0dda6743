-------------------------- MODULE MCSessionHistory --------------------------
(***************************************************************************)
(* A small instance of SessionHistory and MessageFormat.  A response calls *)
(* todo and another tool with a long output, and a reminder follows the    *)
(* results; or it has text and one call with a short output.  A completed  *)
(* task has a short fact or a long one; a merged summary has room for one. *)
(***************************************************************************)
EXTENDS MessageFormat

MCRounds ==
    {[calls |-> <<"todo", "work">>, text |-> FALSE, size |-> "big", notice |-> TRUE],
     [calls |-> <<"work">>, text |-> TRUE, size |-> "small", notice |-> FALSE]}

MCFacts == {"short", "long", "beginning"}
MCTaskFacts == {<<"short">>, <<"long">>}
MCPreview == [short |-> "short", long |-> "beginning", beginning |-> "beginning"]

\* Four requests and a restart, or two requests with the screen for compression
\* by hand opened twice.
Bound == opened = 0 \/ (turn <= 2 /\ restarts = 0)
=============================================================================
