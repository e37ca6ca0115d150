-------------------------- MODULE ParallelExecutor --------------------------
(***************************************************************************)
(* core/parallel_executor.py: one call of execute_parallel.                *)
(*                                                                         *)
(* A batch is a list of invocations, each with an id and a list of         *)
(* dependency ids; ids may repeat and a dependency may name an id that is  *)
(* not in the batch, as nothing in the code forbids either.  The call      *)
(*   - sorts the dependency graph (Kahn's algorithm, one SortNode step per *)
(*     turn of its loop) and raises ValueError when the sort is not total, *)
(*   - groups the sorted nodes into levels (one GroupLevel step per turn), *)
(*   - runs the levels one after the other: the tasks of a level compete   *)
(*     for the semaphore, and gather() is a barrier between two levels.    *)
(*                                                                         *)
(* Abstracted: the order in which ready nodes leave the queue and tasks    *)
(* reach the semaphore (first-in first-out in the code) is any order here, *)
(* so queue, levels[k] and the waiting tasks are sets.                     *)
(***************************************************************************)
EXTENDS Naturals, Sequences, FiniteSets, Functions

CONSTANTS Id,              \* invocation ids
          Batches,         \* the lists of invocations a caller may pass
          MaxParallelism,  \* permits of the semaphore
          HasTimeout       \* whether task_timeout_seconds is set

ASSUME BatchesAssumption == Batches \subseteq Seq([id : Id, deps : Seq(Id)])
ASSUME MaxParallelismAssumption == MaxParallelism \in Nat \ {0}
ASSUME HasTimeoutAssumption == HasTimeout \in BOOLEAN

VARIABLES
  invs,        \* the batch
  phase,       \* where the call is
  inDegree,    \* Kahn: dependencies of a node not yet sorted
  queue,       \* Kahn: nodes of in-degree 0 not yet sorted
  sorted,      \* Kahn: the order built so far
  processed,   \* nodes already placed in a level
  levels,      \* the levels built so far
  level,       \* number of the level started last
  status,      \* the task of each node
  outcome,     \* how a finished task ended
  permits,     \* free permits of the semaphore
  allResults,  \* outcome of every node of the finished levels
  results      \* what the call returns

vars == <<invs, phase, inDegree, queue, sorted, processed, levels, level,
          status, outcome, permits, allResults, results>>

sortVars  == <<inDegree, queue, sorted>>
groupVars == <<processed, levels>>
runVars   == <<level, status, outcome, permits, allResults, results>>

----------------------------------------------------------------------------
(* The dependency graph.  A dict comprehension keeps the last invocation   *)
(* of an id; inv_lookup does the same.                                     *)

NodesOf(batch) == {batch[i].id : i \in DOMAIN batch}

DepsOf(batch, n) ==
  LET last == CHOOSE i \in DOMAIN batch :
                /\ batch[i].id = n
                /\ \A j \in DOMAIN batch : batch[j].id = n => j <= i
  IN  batch[last].deps

GraphOf(batch) == [n \in NodesOf(batch) |-> Range(DepsOf(batch, n))]

Nodes == NodesOf(invs)

Deps(n) == DepsOf(invs, n)

DepSet(n) == Range(Deps(n))

Sorted == Range(sorted)

(* A task that holds a permit: its tool runs, or was told to stop.         *)
Running == {n \in Nodes : status[n] \in {"running", "expired"}}

Outcomes == {"ok", "timeout", "error", "cancelled"}

----------------------------------------------------------------------------
Init ==
  /\ invs \in Batches
  /\ phase = "sort"
  /\ inDegree = [n \in Nodes |-> Len(Deps(n))]
  /\ queue = {n \in Nodes : Deps(n) = <<>>}
  /\ sorted = <<>>
  /\ processed = {}
  /\ levels = <<>>
  /\ level = 0
  /\ status = [n \in Nodes |-> "idle"]
  /\ outcome = [n \in Nodes |-> "none"]
  /\ permits = MaxParallelism
  /\ allResults = <<>>
  /\ results = <<>>

(* One turn of the while loop: a node leaves the queue, and every node     *)
(* that depends on it (once, however often it lists it) loses one of its   *)
(* in-degree.                                                              *)
SortNode ==
  /\ phase = "sort"
  /\ \E node \in queue :
       LET freed == {n \in Nodes : node \in DepSet(n) /\ inDegree[n] = 1}
       IN  /\ sorted' = Append(sorted, node)
           /\ inDegree' = [n \in Nodes |-> IF node \in DepSet(n)
                                             THEN inDegree[n] - 1
                                             ELSE inDegree[n]]
           /\ queue' = (queue \ {node}) \cup freed
  /\ UNCHANGED <<invs, phase, groupVars, runVars>>

(* Mutant of SortDone: the check for circular dependencies is missing.     *)
SortDoneUnchecked ==
  /\ phase = "sort"
  /\ queue = {}
  /\ phase' = "group"
  /\ UNCHANGED <<invs, sortVars, groupVars, runVars>>

(* The queue is empty: the sort is total, or ValueError is raised.         *)
SortDone ==
  /\ phase = "sort"
  /\ queue = {}
  /\ phase' = IF Len(sorted) = Cardinality(Nodes) THEN "group" ELSE "circular"
  /\ UNCHANGED <<invs, sortVars, groupVars, runVars>>

CurrentLevel == {n \in Sorted \ processed : DepSet(n) \subseteq processed}

(* One turn of _group_by_level: the nodes whose dependencies are all in    *)
(* earlier levels.                                                         *)
GroupLevel ==
  /\ phase = "group"
  /\ processed # Sorted
  /\ CurrentLevel # {}
  /\ levels' = Append(levels, CurrentLevel)
  /\ processed' = processed \cup CurrentLevel
  /\ UNCHANGED <<invs, phase, sortVars, runVars>>

(* The loop ends: all nodes are placed, or no node can be ("break").       *)
GroupDone ==
  /\ phase = "group"
  /\ processed = Sorted \/ CurrentLevel = {}
  /\ phase' = "run"
  /\ UNCHANGED <<invs, sortVars, groupVars, runVars>>

(* The head of the loop over the levels: gather() makes a task of every    *)
(* invocation of the next level.                                           *)
StartLevel ==
  /\ phase = "run"
  /\ level < Len(levels)
  /\ phase' = "gather"
  /\ level' = level + 1
  /\ status' = [n \in Nodes |-> IF n \in levels[level + 1] THEN "waiting"
                                                            ELSE status[n]]
  /\ UNCHANGED <<invs, sortVars, groupVars, outcome, permits, allResults, results>>

(* Mutant of Acquire: the semaphore is not awaited.                        *)
AcquireFreely(n) ==
  /\ status[n] = "waiting"
  /\ permits' = IF permits > 0 THEN permits - 1 ELSE 0
  /\ status' = [status EXCEPT ![n] = "running"]
  /\ UNCHANGED <<invs, phase, sortVars, groupVars, level, outcome, allResults, results>>

(* async with self.semaphore: a waiting task takes a permit and its tool   *)
(* starts.                                                                 *)
Acquire(n) ==
  /\ status[n] = "waiting"
  /\ permits > 0
  /\ permits' = permits - 1
  /\ status' = [status EXCEPT ![n] = "running"]
  /\ UNCHANGED <<invs, phase, sortVars, groupVars, level, outcome, allResults, results>>

(* Mutant of Expire: the deadline frees the permit of a running tool.      *)
ExpireReleasing(n) ==
  /\ HasTimeout
  /\ status[n] = "running"
  /\ status' = [status EXCEPT ![n] = "expired"]
  /\ permits' = permits + 1
  /\ UNCHANGED <<invs, phase, sortVars, groupVars, level, outcome, allResults, results>>

(* wait_for's deadline: the tool is cancelled, but the task still waits    *)
(* for it to stop, and keeps its permit until it does.                     *)
Expire(n) ==
  /\ HasTimeout
  /\ status[n] = "running"
  /\ status' = [status EXCEPT ![n] = "expired"]
  /\ UNCHANGED <<invs, phase, sortVars, groupVars, level, outcome, permits,
                 allResults, results>>

(* Mutant of Finish: a tool that fails keeps its permit.                   *)
FinishLeaking(n, how) ==
  /\ \/ status[n] = "running"
     \/ status[n] = "expired" /\ how # "cancelled"
  /\ status' = [status EXCEPT ![n] = "done"]
  /\ outcome' = [outcome EXCEPT ![n] = how]
  /\ permits' = IF how = "ok" THEN permits + 1 ELSE permits
  /\ UNCHANGED <<invs, phase, sortVars, groupVars, level, allResults, results>>

(* The tool ends and the permit is released.  A tool may return, raise     *)
(* (a TimeoutError of its own is reported as the executor's), or be        *)
(* cancelled: CancelledError is no Exception, so it leaves _execute_single *)
(* and gather() returns it in place of a ToolResult.  A tool that was told *)
(* to stop may also return or raise instead of obeying.                    *)
Finish(n, how) ==
  /\ \/ status[n] = "running"
     \/ status[n] = "expired" /\ how # "cancelled"
  /\ status' = [status EXCEPT ![n] = "done"]
  /\ outcome' = [outcome EXCEPT ![n] = how]
  /\ permits' = permits + 1
  /\ UNCHANGED <<invs, phase, sortVars, groupVars, level, allResults, results>>

(* Mutant of LevelDone: gather() without return_exceptions gives up at the *)
(* first task that raises, and the level is taken as done.                 *)
LevelDoneEarly ==
  /\ phase = "gather"
  /\ \/ \A n \in levels[level] : status[n] = "done"
     \/ \E n \in levels[level] : outcome[n] = "cancelled"
  /\ phase' = "run"
  /\ allResults' = [n \in DOMAIN allResults \cup levels[level] |->
                      IF n \in levels[level] THEN outcome[n] ELSE allResults[n]]
  /\ UNCHANGED <<invs, sortVars, groupVars, level, status, outcome, permits, results>>

(* gather() returns once every task of the level is done.                  *)
LevelDone ==
  /\ phase = "gather"
  /\ \A n \in levels[level] : status[n] = "done"
  /\ phase' = "run"
  /\ allResults' = [n \in DOMAIN allResults \cup levels[level] |->
                      IF n \in levels[level] THEN outcome[n] ELSE allResults[n]]
  /\ UNCHANGED <<invs, sortVars, groupVars, level, status, outcome, permits, results>>

(* After the last level, the results in the order of the batch; an id      *)
(* without a result is a KeyError.                                         *)
Return ==
  /\ phase = "run"
  /\ level = Len(levels)
  /\ IF Nodes \subseteq DOMAIN allResults
       THEN /\ phase' = "returned"
            /\ results' = [i \in DOMAIN invs |-> allResults[invs[i].id]]
       ELSE /\ phase' = "keyerror"
            /\ UNCHANGED results
  /\ UNCHANGED <<invs, sortVars, groupVars, level, status, outcome, permits, allResults>>

Task(n) == Acquire(n) \/ Expire(n) \/ \E how \in Outcomes : Finish(n, how)

Next ==
  \/ SortNode \/ SortDone \/ GroupLevel \/ GroupDone
  \/ StartLevel \/ LevelDone \/ Return
  \/ \E n \in Nodes : Task(n)

(* The event loop runs what is ready, and a tool ends at last (a tool      *)
(* without a deadline is the environment's promise).                       *)
Ends(n) == \E how \in Outcomes : Finish(n, how)

Fairness ==
  /\ WF_vars(SortNode \/ SortDone \/ GroupLevel \/ GroupDone
               \/ StartLevel \/ LevelDone \/ Return)
  /\ \A n \in Id : WF_vars(n \in Nodes /\ Acquire(n)) /\ WF_vars(n \in Nodes /\ Ends(n))

Spec == Init /\ [][Next]_vars

FairSpec == Spec /\ Fairness

----------------------------------------------------------------------------
(* Type invariant of the executor's state. *)
TypeOK ==
  /\ invs \in Batches
  /\ phase \in {"sort", "group", "run", "gather", "returned", "circular", "keyerror"}
  /\ inDegree \in [Nodes -> Nat]
  /\ queue \subseteq Nodes
  /\ sorted \in Seq(Nodes)
  /\ processed \subseteq Nodes
  /\ levels \in Seq(SUBSET Nodes)
  /\ level \in 0..Len(levels)
  /\ status \in [Nodes -> {"idle", "waiting", "running", "expired", "done"}]
  /\ outcome \in [Nodes -> Outcomes \cup {"none"}]
  /\ permits \in 0..MaxParallelism
  /\ DOMAIN allResults \subseteq Nodes
  /\ \A n \in DOMAIN allResults : allResults[n] \in Outcomes
  /\ DOMAIN results \subseteq DOMAIN invs

(* "Returns nodes in an order where dependencies come before dependents"   *)
(* (_topological_sort): at every step of the sort.                         *)
TopologicalOrder ==
  \A i \in DOMAIN sorted :
    DepSet(sorted[i]) \subseteq {sorted[j] : j \in 1..(i - 1)}

(* The batches the sort takes, said without the algorithm: every list of   *)
(* dependencies names nodes of the batch, none twice, and no set of nodes  *)
(* is closed under "has a dependency inside" (no cycle).                   *)
Sortable ==
  /\ \A n \in Nodes : DepSet(n) \subseteq Nodes
                      /\ Cardinality(DepSet(n)) = Len(Deps(n))
  /\ \A S \in SUBSET Nodes : S # {} => \E n \in S : DepSet(n) \cap S = {}

(* _topological_sort accepts exactly those: no batch that cannot be        *)
(* ordered is run, and none that can is refused.                           *)
AcceptsExactly ==
  /\ phase \in {"group", "run", "gather", "returned"} => Sortable
  /\ phase = "circular" => ~Sortable

(* A tool is started only when every tool it depends on has ended, and it  *)
(* is only asked to wait for a permit once they have.                      *)
DependenciesFirst ==
  \A n \in Nodes : status[n] # "idle" =>
    \A d \in DepSet(n) : d \in Nodes /\ status[d] = "done"

(* The semaphore: a permit is held by exactly the tasks whose tool has     *)
(* been started and has not ended, whatever ends it, so no more than       *)
(* max_parallelism tools run at a time and no permit is lost.              *)
PermitsConserved == permits + Cardinality(Running) = MaxParallelism

(* _group_by_level: the levels partition what was sorted, and each is as   *)
(* early as it can be: a node outside the first level has a dependency in  *)
(* the level just before, so independent tools are never serialised.       *)
LevelsTight ==
  \A k \in DOMAIN levels :
    /\ levels[k] # {}
    /\ \A m \in DOMAIN levels : m # k => levels[k] \cap levels[m] = {}
    /\ \A n \in levels[k] :
         /\ \A d \in DepSet(n) : \E m \in 1..(k - 1) : d \in levels[m]
         /\ k > 1 => DepSet(n) \cap levels[k - 1] # {}

(* Grouping an accepted batch never reaches its "break", so the collection *)
(* of results never meets an id without one.                               *)
NoKeyError == phase # "keyerror"

(* A call that returns has run every tool to its end, and the answer holds *)
(* one outcome per invocation, in the caller's order.                      *)
ResultsComplete ==
  phase = "returned" =>
    /\ \A n \in Nodes : status[n] = "done"
    /\ DOMAIN results = DOMAIN invs
    /\ \A i \in DOMAIN invs : results[i] = outcome[invs[i].id]

(* The call ends: no batch leaves a task waiting for a permit, or gather() *)
(* waiting for a task, for ever. *)
Terminates == <>(phase \in {"returned", "circular"})

----------------------------------------------------------------------------
(* The inductive invariant: what makes TopologicalOrder, AcceptsExactly,   *)
(* LevelsTight, DependenciesFirst and PermitsConserved hold.               *)

(* Kahn's loop: a node's in-degree is the length of its list less the      *)
(* dependencies already sorted; the queue holds the unsorted nodes whose   *)
(* in-degree is zero.                                                      *)
SortInv ==
  /\ \A i, j \in DOMAIN sorted : sorted[i] = sorted[j] => i = j
  /\ TopologicalOrder
  /\ queue \cap Sorted = {}
  /\ \A n \in Nodes :
       inDegree[n] = Len(Deps(n)) - Cardinality(DepSet(n) \cap Sorted)
  /\ \A n \in Nodes : inDegree[n] = 0 <=> n \in queue \cup Sorted
  /\ phase # "sort" => queue = {}
  /\ phase \in {"group", "run", "gather", "returned"} => Sorted = Nodes
  /\ phase = "circular" => Sorted # Nodes

(* Grouping: a node left over whose dependencies are all placed has one in *)
(* the last level; after grouping, none is left over.                      *)
GroupInv ==
  /\ LevelsTight
  /\ processed = UNION Range(levels)
  /\ processed \subseteq Sorted
  /\ phase \in {"sort", "circular"} => levels = <<>>
  /\ phase \in {"run", "gather", "returned"} => processed = Nodes
  /\ \A n \in Sorted \ processed :
       (levels # <<>> /\ DepSet(n) \subseteq processed)
         => DepSet(n) \cap levels[Len(levels)] # {}

(* Running: levels below the current one are done, levels above are idle,  *)
(* and the results known are those of the levels gathered.                 *)
RunInv ==
  /\ phase \in {"sort", "group", "circular"} => level = 0 /\ permits = MaxParallelism
  /\ \A n \in Nodes : level = 0 => status[n] = "idle"
  /\ \A k \in DOMAIN levels : \A n \in levels[k] :
       /\ k < level => status[n] = "done"
       /\ k = level => status[n] # "idle"
       /\ k = level /\ phase # "gather" => status[n] = "done"
       /\ k > level => status[n] = "idle"
       /\ n \in DOMAIN allResults <=> k < level \/ (k = level /\ phase # "gather")
  /\ \A n \in Nodes : status[n] = "done" <=> outcome[n] # "none"
  /\ \A n \in DOMAIN allResults : allResults[n] = outcome[n]
  /\ phase = "gather" => level > 0
  /\ phase = "returned" =>
       level = Len(levels) /\ results = [i \in DOMAIN invs |-> outcome[invs[i].id]]
  /\ phase # "keyerror"
  /\ PermitsConserved

IInv == TypeOK /\ SortInv /\ GroupInv /\ RunInv

----------------------------------------------------------------------------
(* The abstract execution this call implements. *)

TaskOf(n) == CASE status[n] \in {"idle", "waiting"}    -> "idle"
               [] status[n] \in {"running", "expired"} -> "busy"
               [] OTHER                                -> "done"

Dag == INSTANCE DagExecution
         WITH Graphs <- {GraphOf(batch) : batch \in Batches},
              graph <- GraphOf(invs),
              task <- [n \in Nodes |-> TaskOf(n)],
              verdict <- CASE phase = "returned" -> "returned"
                           [] phase = "circular" -> "refused"
                           [] OTHER              -> "pending"

(* The executor implements the abstract promise: a batch is refused whole, *)
(* or every tool runs once, after its dependencies, MaxParallelism at most *)
(* at a time.                                                              *)
ImplementsDag == Dag!Spec
=============================================================================
