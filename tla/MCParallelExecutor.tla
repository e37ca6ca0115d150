------------------------- MODULE MCParallelExecutor -------------------------
(* Bounded instances of ParallelExecutor.                                  *)
EXTENDS ParallelExecutor

CONSTANTS a, b, c, d, ghost

Inv(n, ds) == [id |-> n, deps |-> ds]

(* Dependency lists of at most two entries over S, repetitions included.   *)
Lists(S) == {<<>>} \cup {<<x>> : x \in S} \cup {<<x, y>> : x, y \in S}

Singles(S) == {<<>>} \cup {<<x>> : x \in S}

(* Three tools with every list of at most two dependencies for two of      *)
(* them: chains, forks, joins, self-loops, cycles, repeated entries.       *)
ThreeTools ==
  {<<Inv(a, p), Inv(b, q), Inv(c, r)>> :
     p \in Singles({b, ghost}), q \in Lists({a, b, c}), r \in Lists({a, b})}

(* An id that occurs twice: the later invocation is the one that counts.   *)
Repeated ==
  {<<Inv(a, p), Inv(b, q), Inv(a, r)>> : p, q, r \in Singles({a, b})}

(* Four tools: a diamond, two chains joined, three in parallel and a join. *)
FourTools ==
  {<<Inv(a, <<>>), Inv(b, <<a>>), Inv(c, <<a>>), Inv(d, <<b, c>>)>>,
   <<Inv(d, <<c, b>>), Inv(c, <<a>>), Inv(b, <<>>), Inv(a, <<>>)>>,
   <<Inv(a, <<>>), Inv(b, <<>>), Inv(c, <<>>), Inv(d, <<a, b, c>>)>>}

MCId == {a, b, c, d, ghost}
MCBatches == ThreeTools \cup Repeated \cup FourTools
=============================================================================
