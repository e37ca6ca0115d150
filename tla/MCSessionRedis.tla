--------------------------- MODULE MCSessionRedis ---------------------------
(* Bounded instances of SessionStoreRedis.                                 *)
EXTENDS SessionStoreRedis

CONSTANTS u1, w1, w2

AllCalls == {"create", "get", "update", "refresh", "delete", "list",
             "revokeAll", "inactive", "deleteInactive"}

OneUser == {u1}
OneCaller == {w1}
TwoCallers == {w1, w2}
=============================================================================
