--------------------------- MODULE MCFileChanges ---------------------------
(***************************************************************************)
(* Two files, g as it is found from the directory of f, and the calls that *)
(* differ in what can go wrong: a new file, a replacement whose new text   *)
(* contains the old, one of a line that is there twice, one that is too    *)
(* large, some of lines that look like headers, and diffs that edit two    *)
(* files, rename, create, delete, and name a file without a prefix.        *)
(***************************************************************************)
EXTENDS FileChanges, TLC

MCBelow == [f |-> "g", g |-> "g"]

Write(p, new) == [tool |-> "write_file", path |-> p, new |-> new]
Replacement(p, old, new) == [tool |-> "replacement", path |-> p, old |-> old, new |-> new]
Diff(sections) == [tool |-> "diff", path |-> Absent, sections |-> sections]
Part(from, to, effect, old, new) ==
    [from |-> from, to |-> to, bare |-> FALSE, effect |-> effect, old |-> old, new |-> new]
Bare(p, effect, old, new) ==
    [from |-> p, to |-> p, bare |-> TRUE, effect |-> effect, old |-> old, new |-> new]

MCCalls ==
    {Write("g", <<Plus, "a", "b", "a", "b", "a", "b">>), Write("f", <<"b">>),
     [tool |-> "edit_file", path |-> "f"],
     Replacement("f", <<"a">>, <<"a", "b">>), Replacement("f", <<"a", "a", "b">>, <<"b">>),
     Replacement("f", <<Dash, Decrement>>, <<Increment>>),
     Diff(<<Part("f", "f", "edit", <<"a">>, <<"b">>), Part("g", "g", "edit", <<"b">>, <<"a">>)>>),
     Diff(<<Part("f", "g", "edit", <<"a">>, <<"b">>)>>),
     Diff(<<Bare("f", "edit", <<"b">>, <<"a">>)>>),
     Diff(<<Part("g", "g", "create", <<>>, <<Plus>>)>>),
     Diff(<<Part("f", "f", "delete", <<"a">>, <<>>)>>)}
MCEdits == {<<"a">>, <<"b">>}
MCStarts ==
    {[f |-> <<"a", "a", "b">>, g |-> Absent], [f |-> <<Dash, Decrement, "a">>, g |-> <<"b">>]}

\* Two calls, or one while the user edits files.
Bound == calls <= 1 \/ edits = 0
=============================================================================
