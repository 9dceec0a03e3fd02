--------------------------- MODULE MCCliBoundary ---------------------------
(***************************************************************************)
(* Two commands on one database file; each may use the database, an output *)
(* of its own, both or neither.                                            *)
(***************************************************************************)
EXTENDS CliBoundary

CONSTANTS p1, p2
=============================================================================
