----------------------- MODULE MCPreparedContainment ------------------------
(* Two of everything that a candidate could be confused about.             *)
EXTENDS PreparedContainment
=============================================================================
