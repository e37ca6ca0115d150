--------------------------- MODULE MCTieredCache ---------------------------
(* Two instances; three callers of get_with_lock on the first, so that two *)
(* can wait at a time, and a decorated function on the second.             *)
EXTENDS TieredCache

CONSTANTS i1, i2, a, b, c, d, good, falsy

MCInstances == {i1, i2}
MCCallers == {a, b, c, d}
MCOn == [x \in MCCallers |-> IF x = d THEN i2 ELSE i1]
MCDecorated == {d}
MCValues == {good, falsy}
MCFalsy == {falsy}

=============================================================================
