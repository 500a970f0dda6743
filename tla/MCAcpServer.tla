---------------------------- MODULE MCAcpServer ----------------------------
(***************************************************************************)
(* Small instances of AcpServer: two session ids, so that a prompt for one *)
(* meets lines for the other and an id can be loaded twice.                *)
(***************************************************************************)
EXTENDS AcpServer

CONSTANTS s1, s2

MCSids == {s1, s2}
=============================================================================
