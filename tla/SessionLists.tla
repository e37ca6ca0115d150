---------------------------- MODULE SessionLists ----------------------------
(***************************************************************************)
(* auth/session.py: removing ids from a user's list of session ids, with   *)
(* list.remove() in the in-memory store and with LREM in the Redis store.  *)
(* What stays keeps its order.                                             *)
(***************************************************************************)
EXTENDS Naturals, FiniteSets

(* How many members of a set of numbers do not exceed i.                   *)
Rank(set, i) == Cardinality({j \in set : j <= i})

(* The n-th smallest member of a set of numbers.                           *)
Nth(set, n) == CHOOSE i \in set : Rank(set, i) = n

(* The positions of a list that hold none of ids.                          *)
Staying(list, ids) == {i \in DOMAIN list : list[i] \notin ids}

Without(list, ids) ==
  LET stay == Staying(list, ids)
  IN  [n \in 1..Cardinality(stay) |-> list[Nth(stay, n)]]
=============================================================================
