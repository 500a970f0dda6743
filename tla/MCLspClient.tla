---------------------------- MODULE MCLspClient ----------------------------
(***************************************************************************)
(* Two calls at a time and three in all, so that the third meets what two  *)
(* overlapping ones left behind; a file and queries without one; a server  *)
(* and its replacement, each with a request of its own under the number of *)
(* a query.  The replacement is left out once the server has sent one.     *)
(***************************************************************************)
EXTENDS LspClient, TLC

CONSTANTS t1, t2, f1

MCCallers == {t1, t2}
MCFiles == {f1}
MCServerIds == {1, 2}
Bound == created <= 1 \/ \A c \in Clients : server[c].own = {}
Symmetry == Permutations(MCCallers)
=============================================================================
