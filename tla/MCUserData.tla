---------------------------- MODULE MCUserData ----------------------------
(* A client that asks for the deletion, beside an update and an export.   *)
EXTENDS UserData

CONSTANTS i1, i2, c1, u, x

MCItems == {i1, i2}
MCClients == {c1}
MCUpdates == {u}
MCExports == {x}

=============================================================================
