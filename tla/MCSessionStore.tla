--------------------------- MODULE MCSessionStore ---------------------------
(* Bounded instances of the in-memory store behind the middleware.         *)
EXTENDS SessionTimeout, TLC

CONSTANTS u1, u2

MCUsers == {u1, u2}

(* Users are interchangeable: nothing compares them.                       *)
MCSymmetry == Permutations(MCUsers)
=============================================================================
