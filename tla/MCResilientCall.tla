--------------------------- MODULE MCResilientCall ---------------------------
(* Three callers of one service, one of them through a bulkhead that does  *)
(* not wait.                                                               *)
EXTENDS ResilientCall, TLC

CONSTANTS c1, c2, c3

MCCallers == {c1, c2, c3}
MCImpatient == {c3}

=============================================================================
