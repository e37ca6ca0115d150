---------------------------- MODULE DagExecution ----------------------------
(***************************************************************************)
(* What ParallelToolExecutor.execute_parallel promises its caller, without *)
(* the algorithm: a batch of tools with dependencies is either refused     *)
(* before any tool starts, or every tool is run once, after its            *)
(* dependencies, with at most MaxParallelism of them at a time.            *)
(*                                                                         *)
(* graph is the batch: a function from its tools to the sets of names they *)
(* depend on, in the batch or not.                                         *)
(***************************************************************************)
EXTENDS Naturals, FiniteSets

CONSTANTS Graphs,          \* the batches a caller may submit
          MaxParallelism   \* tools running at a time

VARIABLES graph, task, verdict

vars == <<graph, task, verdict>>

Busy == {n \in DOMAIN graph : task[n] = "busy"}

TypeOK ==
  /\ graph \in Graphs
  /\ task \in [DOMAIN graph -> {"idle", "busy", "done"}]
  /\ verdict \in {"pending", "returned", "refused"}

Init ==
  /\ graph \in Graphs
  /\ task = [n \in DOMAIN graph |-> "idle"]
  /\ verdict = "pending"

Start(n) ==
  /\ verdict = "pending"
  /\ task[n] = "idle"
  /\ \A d \in graph[n] : d \in DOMAIN graph /\ task[d] = "done"
  /\ Cardinality(Busy) < MaxParallelism
  /\ task' = [task EXCEPT ![n] = "busy"]
  /\ UNCHANGED <<graph, verdict>>

Finish(n) ==
  /\ task[n] = "busy"
  /\ task' = [task EXCEPT ![n] = "done"]
  /\ UNCHANGED <<graph, verdict>>

Refuse ==
  /\ verdict = "pending"
  /\ \A n \in DOMAIN graph : task[n] = "idle"
  /\ verdict' = "refused"
  /\ UNCHANGED <<graph, task>>

Return ==
  /\ verdict = "pending"
  /\ \A n \in DOMAIN graph : task[n] = "done"
  /\ verdict' = "returned"
  /\ UNCHANGED <<graph, task>>

Next == (\E n \in DOMAIN graph : Start(n) \/ Finish(n)) \/ Refuse \/ Return

Spec == Init /\ [][Next]_vars
=============================================================================
