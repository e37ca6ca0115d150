----------------------- MODULE ParallelExecutorProofs -----------------------
(***************************************************************************)
(* Theorems about ParallelExecutor, for every set of ids, every set of     *)
(* batches and every number of permits.                                    *)
(***************************************************************************)
EXTENDS ParallelExecutor, FiniteSetTheorems, FunctionTheorems, SequenceTheorems, TLAPS

----------------------------------------------------------------------------
(* A set of naturals that is not empty has a least element.                *)
LEMMA Least ==
  ASSUME NEW T, T \subseteq Nat, T # {}
  PROVE  \E m \in T : \A n \in T : m <= n
<1> DEFINE R == OpToRel(<, Nat)
<1>1. IsWellFoundedOn(R, Nat)
  BY NatLessThanWellFounded
<1>2. \A m, n \in Nat : <<n, m>> \in R <=> n < m
  BY DEF OpToRel
<1> HIDE DEF R
<1>3. \E m \in T : \A n \in T : ~ (<<n, m>> \in R)
  BY <1>1, WFMin, Zenon
<1>4. PICK m \in T : \A n \in T : ~ (<<n, m>> \in R)
  BY <1>3
<1>5. \A n \in T : ~ (n < m)
  BY <1>2, <1>4, Zenon
<1> QED
  BY <1>4, <1>5, SMT

(* The dependencies the graph holds for a node are one of the lists of the *)
(* batch: the dict comprehension finds an invocation for every id.         *)
LEMMA DepsType ==
  ASSUME NEW batch \in Batches, NEW n \in NodesOf(batch)
  PROVE  DepsOf(batch, n) \in Seq(Id)
<1> DEFINE Here == {i \in DOMAIN batch : batch[i].id = n}
           Back == {Len(batch) - i : i \in Here}
<1>1. batch \in Seq([id : Id, deps : Seq(Id)])
  BY BatchesAssumption
<1>2. DOMAIN batch = 1..Len(batch) /\ Len(batch) \in Nat
  BY <1>1, LenProperties
<1>3. Back \subseteq Nat /\ Back # {}
  BY <1>2 DEF NodesOf
<1>4. PICK m \in Back : \A k \in Back : m <= k
  BY <1>3, Least, Zenon
<1>5. PICK i \in Here : m = Len(batch) - i
  BY <1>4
<1>6. \A j \in Here : j <= i
  <2> SUFFICES ASSUME NEW j \in Here PROVE j <= i
    OBVIOUS
  <2>1. Len(batch) - j \in Back
    OBVIOUS
  <2>2. m <= Len(batch) - j
    BY <1>4, <2>1
  <2> QED
    BY <1>2, <1>5, <2>2
<1>7. \E l \in DOMAIN batch : /\ batch[l].id = n
                              /\ \A j \in DOMAIN batch : batch[j].id = n => j <= l
  BY <1>5, <1>6
<1>8. \E l \in DOMAIN batch : DepsOf(batch, n) = batch[l].deps
  BY <1>7, Zenon DEF DepsOf
<1>9. batch \in [1..Len(batch) -> [id : Id, deps : Seq(Id)]]
  BY <1>1, LenProperties
<1> QED
  BY <1>2, <1>8, <1>9

(* The set of names in a list is finite and no larger than the list.       *)
LEMMA RangeBound ==
  ASSUME NEW S, NEW s \in Seq(S)
  PROVE  /\ IsFiniteSet(Range(s))
         /\ Cardinality(Range(s)) \in Nat
         /\ Cardinality(Range(s)) <= Len(s)
<1>1. s \in [1..Len(s) -> S] /\ Len(s) \in Nat
  BY LenProperties
<1>2. s \in Surjection(1..Len(s), Range(s))
  BY <1>1, Fun_RangeProperties, Zenon
<1>3. IsFiniteSet(1..Len(s)) /\ Cardinality(1..Len(s)) = Len(s)
  <2>1. /\ IsFiniteSet(1..Len(s))
        /\ Cardinality(1..Len(s)) = IF 1 > Len(s) THEN 0 ELSE Len(s) - 1 + 1
    BY <1>1, FS_Interval
  <2> QED
    BY <1>1, <2>1
<1>4. IsFiniteSet(Range(s)) /\ Cardinality(Range(s)) <= Cardinality(1..Len(s))
  BY <1>2, <1>3, FS_Surjection, Zenon
<1> QED
  BY <1>3, <1>4, FS_CardinalityType

LEMMA NodesFinite ==
  ASSUME NEW batch \in Batches
  PROVE  IsFiniteSet(NodesOf(batch)) /\ Cardinality(NodesOf(batch)) \in Nat
<1> DEFINE ids == [i \in DOMAIN batch |-> batch[i].id]
<1>1. batch \in Seq([id : Id, deps : Seq(Id)])
  BY BatchesAssumption
<1>2. batch \in [1..Len(batch) -> [id : Id, deps : Seq(Id)]] /\ Len(batch) \in Nat
  BY <1>1, LenProperties
<1>3. ids \in [1..Len(batch) -> Id]
  BY <1>2
<1>4. ids \in Surjection(1..Len(batch), NodesOf(batch))
  BY <1>3, <1>2 DEF NodesOf, Surjection
<1>5. IsFiniteSet(1..Len(batch))
  BY <1>2, FS_Interval
<1> QED
  BY <1>4, <1>5, FS_Surjection, FS_CardinalityType, Zenon

----------------------------------------------------------------------------
(* The graph never changes during a call.                                  *)
LEMMA GraphFixed ==
  ASSUME invs' = invs
  PROVE  /\ Nodes' = Nodes
         /\ \A n : Deps(n)' = Deps(n) /\ DepSet(n)' = DepSet(n)
BY DEF Nodes, DepSet, Deps

LEMMA GraphFacts ==
  ASSUME invs \in Batches
  PROVE  /\ IsFiniteSet(Nodes)
         /\ Cardinality(Nodes) \in Nat
         /\ \A n \in Nodes : /\ Deps(n) \in Seq(Id)
                             /\ Len(Deps(n)) \in Nat
                             /\ IsFiniteSet(DepSet(n))
                             /\ Cardinality(DepSet(n)) \in Nat
                             /\ Cardinality(DepSet(n)) <= Len(Deps(n))
<1>1. IsFiniteSet(Nodes) /\ Cardinality(Nodes) \in Nat
  BY NodesFinite DEF Nodes
<1>2. ASSUME NEW n \in Nodes
      PROVE  /\ Deps(n) \in Seq(Id)
             /\ Len(Deps(n)) \in Nat
             /\ IsFiniteSet(DepSet(n))
             /\ Cardinality(DepSet(n)) \in Nat
             /\ Cardinality(DepSet(n)) <= Len(Deps(n))
  <2>1. Deps(n) \in Seq(Id)
    BY <1>2, DepsType DEF Nodes, Deps
  <2> QED
    BY <2>1, RangeBound, LenProperties DEF DepSet
<1> QED
  BY <1>1, <1>2

(* Counting the sorted dependencies of a node.                             *)
LEMMA SortedDeps ==
  ASSUME invs \in Batches, NEW n \in Nodes, NEW S
  PROVE  /\ IsFiniteSet(DepSet(n) \cap S)
         /\ Cardinality(DepSet(n) \cap S) \in Nat
         /\ Cardinality(DepSet(n) \cap S) <= Cardinality(DepSet(n))
         /\ Cardinality(DepSet(n) \cap S) = Len(Deps(n))
              => DepSet(n) \subseteq S /\ Cardinality(DepSet(n)) = Len(Deps(n))
         /\ \A x : Cardinality(DepSet(n) \cap (S \cup {x}))
                     = IF x \in DepSet(n) /\ x \notin S
                         THEN Cardinality(DepSet(n) \cap S) + 1
                         ELSE Cardinality(DepSet(n) \cap S)
<1> DEFINE D == DepSet(n)
<1>1. /\ IsFiniteSet(D) /\ Cardinality(D) \in Nat
      /\ Cardinality(D) <= Len(Deps(n)) /\ Len(Deps(n)) \in Nat
  BY GraphFacts
<1> HIDE DEF D
<1>2. /\ IsFiniteSet(D \cap S)
      /\ Cardinality(D \cap S) <= Cardinality(D)
      /\ Cardinality(D) = Cardinality(D \cap S) => D = D \cap S
  BY <1>1, FS_Subset, D \cap S \in SUBSET D
<1>3. Cardinality(D \cap S) \in Nat
  BY <1>2, FS_CardinalityType
<1>4. Cardinality(D \cap S) = Len(Deps(n)) => D \subseteq S /\ Cardinality(D) = Len(Deps(n))
  <2> SUFFICES ASSUME Cardinality(D \cap S) = Len(Deps(n))
               PROVE  D \subseteq S /\ Cardinality(D) = Len(Deps(n))
    OBVIOUS
  <2>1. Cardinality(D \cap S) = Cardinality(D)
    BY <1>1, <1>2, <1>3
  <2> QED
    BY <1>2, <2>1
<1>5. ASSUME NEW x
      PROVE  Cardinality(D \cap (S \cup {x}))
               = IF x \in D /\ x \notin S THEN Cardinality(D \cap S) + 1
                                          ELSE Cardinality(D \cap S)
  <2>1. CASE x \in D
    <3>1. D \cap (S \cup {x}) = (D \cap S) \cup {x}
      BY <2>1
    <3>2. x \in D \cap S <=> x \in S
      BY <2>1
    <3> QED
      BY <1>2, <2>1, <3>1, <3>2, FS_AddElement
  <2>2. CASE x \notin D
    <3>1. D \cap (S \cup {x}) = D \cap S
      BY <2>2
    <3> QED
      BY <2>2, <3>1
  <2> QED
    BY <2>1, <2>2
<1> QED
  BY <1>2, <1>3, <1>4, <1>5 DEF D

LEMMA SortedGrows ==
  ASSUME NEW S, NEW s \in Seq(S), NEW x \in S
  PROVE  /\ Append(s, x) \in Seq(S)
         /\ Len(Append(s, x)) = Len(s) + 1
         /\ DOMAIN Append(s, x) = 1..(Len(s) + 1)
         /\ \A i \in 1..Len(s) : Append(s, x)[i] = s[i]
         /\ Append(s, x)[Len(s) + 1] = x
         /\ Range(Append(s, x)) = Range(s) \cup {x}
<1>1. /\ Append(s, x) \in Seq(S)
      /\ Len(Append(s, x)) = Len(s) + 1
      /\ \A i \in 1..Len(s) : Append(s, x)[i] = s[i]
      /\ Append(s, x)[Len(s) + 1] = x
  BY AppendProperties
<1>2. DOMAIN Append(s, x) = 1..(Len(s) + 1) /\ Len(s) \in Nat
  BY <1>1, LenProperties
<1>3. Range(Append(s, x)) = {Append(s, x)[i] : i \in 1..(Len(s) + 1)}
  BY <1>2 DEF Range
<1>4. Range(s) = {s[i] : i \in 1..Len(s)}
  BY LenProperties DEF Range
<1>5. Range(Append(s, x)) = Range(s) \cup {x}
  BY <1>1, <1>2, <1>3, <1>4
<1> QED
  BY <1>1, <1>2, <1>5

(* One turn of Kahn's loop keeps the order topological and the counts      *)
(* right.                                                                  *)
LEMMA SortNodeSort ==
  ASSUME TypeOK, SortInv, SortNode
  PROVE  SortInv' /\ inDegree' \in [Nodes -> Nat] /\ queue' \subseteq Nodes
         /\ sorted' \in Seq(Nodes)
<1> USE DEF Sorted
<1>1. PICK node \in queue :
        /\ sorted' = Append(sorted, node)
        /\ inDegree' = [n \in Nodes |-> IF node \in DepSet(n) THEN inDegree[n] - 1
                                                              ELSE inDegree[n]]
        /\ queue' = (queue \ {node})
                      \cup {n \in Nodes : node \in DepSet(n) /\ inDegree[n] = 1}
  BY DEF SortNode
<1>2. /\ phase = "sort" /\ phase' = "sort" /\ invs' = invs
  BY DEF SortNode
<1>3. /\ Nodes' = Nodes
      /\ \A n : Deps(n)' = Deps(n) /\ DepSet(n)' = DepSet(n)
  BY <1>2, GraphFixed
<1>4. /\ invs \in Batches /\ node \in Nodes /\ queue \subseteq Nodes
      /\ sorted \in Seq(Nodes) /\ inDegree \in [Nodes -> Nat]
  BY DEF TypeOK
<1>5. /\ sorted' \in Seq(Nodes)
      /\ DOMAIN sorted' = 1..(Len(sorted) + 1)
      /\ \A i \in 1..Len(sorted) : sorted'[i] = sorted[i]
      /\ sorted'[Len(sorted) + 1] = node
      /\ Range(sorted') = Range(sorted) \cup {node}
      /\ DOMAIN sorted = 1..Len(sorted)
      /\ Len(sorted) \in Nat
  BY <1>1, <1>4, SortedGrows, LenProperties
<1>6. node \notin Range(sorted)
  BY DEF SortInv
<1>7. \A n \in Nodes : inDegree[n] = 0 => DepSet(n) \subseteq Range(sorted)
  <2> SUFFICES ASSUME NEW n \in Nodes, inDegree[n] = 0
               PROVE  DepSet(n) \subseteq Range(sorted)
    OBVIOUS
  <2>1. inDegree[n] = Len(Deps(n)) - Cardinality(DepSet(n) \cap Range(sorted))
    BY DEF SortInv
  <2>2. Cardinality(DepSet(n) \cap Range(sorted)) \in Nat
    BY <1>4, SortedDeps
  <2>3. Len(Deps(n)) \in Nat
    BY <1>4, GraphFacts
  <2>4. Cardinality(DepSet(n) \cap Range(sorted)) = Len(Deps(n))
    BY <2>1, <2>2, <2>3
  <2> QED
    BY <1>4, <2>4, SortedDeps
<1>8. \A n \in Nodes : node \in DepSet(n) => inDegree[n] # 0
  BY <1>6, <1>7
<1>9. inDegree' \in [Nodes -> Nat]
  BY <1>1, <1>4, <1>8
<1>10. queue' \subseteq Nodes
  BY <1>1, <1>4
<1>11. \A i, j \in DOMAIN sorted' : sorted'[i] = sorted'[j] => i = j
  <2>1. \A i \in 1..Len(sorted) : sorted[i] # node
    BY <1>5, <1>6 DEF Range
  <2> QED
    BY <1>5, <2>1 DEF SortInv
<1>12. TopologicalOrder'
  <2> SUFFICES ASSUME NEW i \in DOMAIN sorted'
               PROVE  DepSet(sorted'[i]) \subseteq {sorted'[j] : j \in 1..(i - 1)}
    BY <1>3 DEF TopologicalOrder
  <2>1. CASE i \in 1..Len(sorted)
    <3>1. DepSet(sorted[i]) \subseteq {sorted[j] : j \in 1..(i - 1)}
      BY <1>5, <2>1 DEF SortInv, TopologicalOrder
    <3>2. \A j \in 1..(i - 1) : sorted'[j] = sorted[j]
      BY <1>5, <2>1
    <3>3. sorted'[i] = sorted[i]
      BY <1>5, <2>1
    <3> QED
      BY <3>1, <3>2, <3>3
  <2>2. CASE i = Len(sorted) + 1
    <3>1. inDegree[node] = 0
      BY <1>4 DEF SortInv
    <3>2. DepSet(node) \subseteq Range(sorted)
      BY <1>4, <1>7, <3>1
    <3>3. Range(sorted) = {sorted[j] : j \in 1..Len(sorted)}
      BY <1>5 DEF Range
    <3>4. i - 1 = Len(sorted)
      BY <1>5, <2>2
    <3>5. Range(sorted) = {sorted'[j] : j \in 1..(i - 1)}
      BY <1>5, <3>3, <3>4
    <3> QED
      BY <1>5, <2>2, <3>2, <3>5
  <2> QED
    BY <1>5, <2>1, <2>2
<1>13. \A n \in Nodes :
         inDegree'[n] = Len(Deps(n)) - Cardinality(DepSet(n) \cap Range(sorted'))
  <2> SUFFICES ASSUME NEW n \in Nodes
      PROVE inDegree'[n] = Len(Deps(n)) - Cardinality(DepSet(n) \cap Range(sorted'))
    OBVIOUS
  <2>1. inDegree[n] = Len(Deps(n)) - Cardinality(DepSet(n) \cap Range(sorted))
    BY DEF SortInv
  <2>2. Cardinality(DepSet(n) \cap Range(sorted'))
          = IF node \in DepSet(n) THEN Cardinality(DepSet(n) \cap Range(sorted)) + 1
                                  ELSE Cardinality(DepSet(n) \cap Range(sorted))
    <3>1. \A x : Cardinality(DepSet(n) \cap (Range(sorted) \cup {x}))
                  = IF x \in DepSet(n) /\ x \notin Range(sorted)
                      THEN Cardinality(DepSet(n) \cap Range(sorted)) + 1
                      ELSE Cardinality(DepSet(n) \cap Range(sorted))
      BY <1>4, SortedDeps
    <3>2. Range(sorted') = Range(sorted) \cup {node}
      BY <1>5
    <3> QED
      BY <1>6, <3>1, <3>2, Zenon
  <2>3. /\ Cardinality(DepSet(n) \cap Range(sorted)) \in Nat
        /\ Len(Deps(n)) \in Nat
    BY <1>4, SortedDeps, GraphFacts
  <2>4. inDegree'[n] = IF node \in DepSet(n) THEN inDegree[n] - 1 ELSE inDegree[n]
    BY <1>1
  <2> QED
    BY <2>1, <2>2, <2>3, <2>4
<1>14. \A n \in Nodes : inDegree'[n] = 0 <=> n \in queue' \cup Range(sorted')
  <2> SUFFICES ASSUME NEW n \in Nodes
               PROVE  inDegree'[n] = 0 <=> n \in queue' \cup Range(sorted')
    OBVIOUS
  <2>1. inDegree[n] = 0 <=> n \in queue \cup Range(sorted)
    BY DEF SortInv
  <2>2. inDegree[n] \in Nat
    BY <1>4
  <2>3. CASE node \in DepSet(n)
    <3>1. inDegree'[n] = inDegree[n] - 1 /\ inDegree[n] # 0
      BY <1>1, <1>8, <2>3
    <3>2. n \notin queue \cup Range(sorted)
      BY <2>1, <3>1
    <3>3. n \in queue' \cup Range(sorted') <=> inDegree[n] = 1
      BY <1>1, <1>5, <2>3, <3>2
    <3> QED
      BY <2>2, <3>1, <3>3
  <2>4. CASE node \notin DepSet(n)
    <3>1. inDegree'[n] = inDegree[n]
      BY <1>1, <2>4
    <3>2. n \in queue' \cup Range(sorted') <=> n \in queue \cup Range(sorted)
      BY <1>1, <1>5, <2>4
    <3> QED
      BY <2>1, <3>1, <3>2
  <2> QED
    BY <2>3, <2>4
<1>15. queue' \cap Range(sorted') = {}
  <2>1. \A n \in Nodes : inDegree[n] = 1 => n \notin Range(sorted) /\ n # node
    BY <1>4 DEF SortInv
  <2>2. queue \cap Range(sorted) = {}
    BY DEF SortInv
  <2> QED
    BY <1>1, <1>5, <2>1, <2>2
<1> QED
  BY <1>2, <1>3, <1>5, <1>9, <1>10, <1>11, <1>12, <1>13, <1>14, <1>15 DEF SortInv

----------------------------------------------------------------------------
(* What a step that leaves a group of variables alone keeps of the         *)
(* invariant.                                                              *)

LEMMA SortFixed ==
  ASSUME SortInv, UNCHANGED <<invs, sortVars>>,
         \/ phase' = phase
         \/ phase' \in {"group", "run", "gather", "returned"} /\ queue = {} /\ Sorted = Nodes
         \/ phase' = "circular" /\ queue = {} /\ Sorted # Nodes
  PROVE  SortInv'
<1>1. /\ Nodes' = Nodes
      /\ \A n : Deps(n)' = Deps(n) /\ DepSet(n)' = DepSet(n)
  BY GraphFixed
<1>2. sorted' = sorted /\ inDegree' = inDegree /\ queue' = queue
  BY DEF sortVars
<1>3. Sorted' = Sorted
  BY <1>2 DEF Sorted
<1>4. TopologicalOrder'
  BY <1>1, <1>2 DEF SortInv, TopologicalOrder
<1>5. /\ \A i, j \in DOMAIN sorted : sorted[i] = sorted[j] => i = j
      /\ queue \cap Sorted = {}
      /\ \A n \in Nodes :
           inDegree[n] = Len(Deps(n)) - Cardinality(DepSet(n) \cap Sorted)
      /\ \A n \in Nodes : inDegree[n] = 0 <=> n \in queue \cup Sorted
  BY DEF SortInv
<1>6. /\ phase' # "sort" => queue = {}
      /\ phase' \in {"group", "run", "gather", "returned"} => Sorted = Nodes
      /\ phase' = "circular" => Sorted # Nodes
  BY DEF SortInv
<1> QED
  BY <1>1, <1>2, <1>3, <1>4, <1>5, <1>6 DEF SortInv

LEMMA GroupFixed ==
  ASSUME GroupInv, UNCHANGED <<invs, groupVars>>,
         \/ sorted' = sorted
         \/ levels = <<>> /\ Sorted \subseteq Sorted',
         \/ phase' = phase
         \/ phase' = "circular" /\ levels = <<>>
         \/ phase' = "group"
         \/ phase' \in {"run", "gather", "returned"} /\ processed = Nodes
  PROVE  GroupInv'
<1>1. /\ Nodes' = Nodes
      /\ \A n : DepSet(n)' = DepSet(n)
  BY GraphFixed
<1>2. levels' = levels /\ processed' = processed
  BY DEF groupVars
<1>3. LevelsTight'
  BY <1>1, <1>2 DEF GroupInv, LevelsTight
<1>4. /\ Sorted \subseteq Sorted'
      /\ levels # <<>> => Sorted' = Sorted
  BY DEF Sorted
<1>5. /\ processed = UNION Range(levels)
      /\ processed \subseteq Sorted
      /\ \A n \in Sorted \ processed :
           (levels # <<>> /\ DepSet(n) \subseteq processed)
             => DepSet(n) \cap levels[Len(levels)] # {}
  BY DEF GroupInv
<1>6. /\ phase' \in {"sort", "circular"} => levels = <<>>
      /\ phase' \in {"run", "gather", "returned"} => processed = Nodes
  BY DEF GroupInv
<1> QED
  BY <1>1, <1>2, <1>3, <1>4, <1>5, <1>6 DEF GroupInv

LEMMA PermitsFixed ==
  ASSUME PermitsConserved, UNCHANGED <<invs, permits>>,
         \A n \in Nodes : status'[n] \in {"running", "expired"}
                            <=> status[n] \in {"running", "expired"}
  PROVE  PermitsConserved'
<1>1. Nodes' = Nodes
  BY GraphFixed
<1>2. Running' = Running
  BY <1>1 DEF Running
<1> QED
  BY <1>2 DEF PermitsConserved

----------------------------------------------------------------------------
(* The invariant holds when a batch arrives.                               *)
THEOREM InitInv == Init => IInv
<1> SUFFICES ASSUME Init PROVE IInv
  OBVIOUS
<1>1. /\ invs \in Batches /\ sorted = <<>> /\ levels = <<>> /\ processed = {}
      /\ inDegree = [n \in Nodes |-> Len(Deps(n))]
      /\ queue = {n \in Nodes : Deps(n) = <<>>}
      /\ phase = "sort" /\ level = 0 /\ permits = MaxParallelism
      /\ status = [n \in Nodes |-> "idle"]
      /\ outcome = [n \in Nodes |-> "none"]
      /\ allResults = <<>> /\ results = <<>>
  BY DEF Init
<1>2. \A n \in Nodes : Deps(n) \in Seq(Id) /\ Len(Deps(n)) \in Nat
  BY <1>1, GraphFacts
<1>3. Range(<<>>) = {}
  BY DEF Range
<1>4. TypeOK
  <2>1. DOMAIN allResults = {} /\ DOMAIN results = {}
    BY <1>1
  <2>2. MaxParallelism \in Nat \ {0}
    BY MaxParallelismAssumption
  <2> QED
    BY <1>1, <1>2, <2>1, <2>2 DEF TypeOK, Outcomes
<1>5. SortInv
  <2>1. DOMAIN sorted = {} /\ Sorted = {}
    BY <1>1, <1>3 DEF Sorted
  <2>2. \A n \in Nodes : DepSet(n) \cap Sorted = {}
    BY <2>1
  <2>3. \A n \in Nodes :
          inDegree[n] = Len(Deps(n)) - Cardinality(DepSet(n) \cap Sorted)
    <3> SUFFICES ASSUME NEW n \in Nodes
        PROVE inDegree[n] = Len(Deps(n)) - Cardinality(DepSet(n) \cap Sorted)
      OBVIOUS
    <3>1. Cardinality(DepSet(n) \cap Sorted) = 0
      BY <2>2, FS_EmptySet, Zenon
    <3> QED
      BY <1>1, <1>2, <3>1
  <2>4. \A n \in Nodes : inDegree[n] = 0 <=> n \in queue \cup Sorted
    BY <1>1, <1>2, <2>1
  <2> QED
    BY <1>1, <2>1, <2>3, <2>4 DEF SortInv, TopologicalOrder
<1>6. GroupInv
  BY <1>1, <1>3 DEF GroupInv, LevelsTight
<1>7. RunInv
  <2>1. Running = {}
    BY <1>1 DEF Running
  <2>2. PermitsConserved
    BY <1>1, <2>1, FS_EmptySet, MaxParallelismAssumption DEF PermitsConserved
  <2> QED
    BY <1>1, <2>2 DEF RunInv
<1> QED
  BY <1>4, <1>5, <1>6, <1>7 DEF IInv

LEMMA SortNodeStep == IInv /\ SortNode => IInv'
<1> SUFFICES ASSUME IInv, SortNode PROVE IInv'
  OBVIOUS
<1>1. /\ TypeOK /\ SortInv /\ GroupInv /\ RunInv
      /\ phase = "sort" /\ UNCHANGED <<invs, phase, groupVars, runVars>>
  BY DEF IInv, SortNode
<1>2. /\ Nodes' = Nodes
      /\ \A n : Deps(n)' = Deps(n) /\ DepSet(n)' = DepSet(n)
  BY <1>1, GraphFixed
<1>3. SortInv' /\ inDegree' \in [Nodes -> Nat] /\ queue' \subseteq Nodes
      /\ sorted' \in Seq(Nodes)
  BY <1>1, SortNodeSort
<1>4. TypeOK'
  BY <1>1, <1>2, <1>3 DEF TypeOK, groupVars, runVars
<1>5. GroupInv'
  <2>1. levels = <<>>
    BY <1>1 DEF GroupInv
  <2>2. \E node \in Nodes : sorted' = Append(sorted, node)
    BY <1>1 DEF SortNode, TypeOK
  <2>3. Sorted \subseteq Sorted'
    BY <1>1, <2>2, SortedGrows DEF TypeOK, Sorted
  <2> QED
    BY <1>1, <2>1, <2>3, GroupFixed
<1>6. RunInv'
  <2>1. PermitsConserved'
    BY <1>1, PermitsFixed DEF RunInv, runVars
  <2> QED
    BY <1>1, <1>2, <2>1 DEF RunInv, runVars, groupVars
<1> QED
  BY <1>3, <1>4, <1>5, <1>6 DEF IInv

(* The sort is total exactly when it has as many nodes as the graph.       *)
LEMMA SortDoneStep == IInv /\ SortDone => IInv'
<1> SUFFICES ASSUME IInv, SortDone PROVE IInv'
  OBVIOUS
<1>1. /\ TypeOK /\ SortInv /\ GroupInv /\ RunInv
      /\ phase = "sort" /\ queue = {}
      /\ UNCHANGED <<invs, sortVars, groupVars, runVars>>
      /\ phase' = IF Len(sorted) = Cardinality(Nodes) THEN "group" ELSE "circular"
  BY DEF IInv, SortDone
<1>2. /\ Nodes' = Nodes
      /\ \A n : Deps(n)' = Deps(n) /\ DepSet(n)' = DepSet(n)
  BY <1>1, GraphFixed
<1>3. Len(sorted) = Cardinality(Nodes) <=> Sorted = Nodes
  <2>1. sorted \in [1..Len(sorted) -> Nodes] /\ Len(sorted) \in Nat
        /\ DOMAIN sorted = 1..Len(sorted)
    BY <1>1, LenProperties DEF TypeOK
  <2>2. sorted \in Injection(1..Len(sorted), Sorted) /\ sorted \in Surjection(1..Len(sorted), Sorted)
    BY <1>1, <2>1 DEF SortInv, Injection, IsInjective, Surjection, Sorted, Range
  <2>3. IsFiniteSet(1..Len(sorted)) /\ Cardinality(1..Len(sorted)) = Len(sorted)
    <3>1. /\ IsFiniteSet(1..Len(sorted))
          /\ Cardinality(1..Len(sorted)) = IF 1 > Len(sorted) THEN 0 ELSE Len(sorted) - 1 + 1
      BY <2>1, FS_Interval
    <3> QED
      BY <2>1, <3>1
  <2>4. IsFiniteSet(Sorted) /\ Cardinality(Sorted) = Len(sorted)
    BY <2>2, <2>3, FS_Surjection, Zenon
  <2>5. Sorted \in SUBSET Nodes
    BY <2>1 DEF Sorted, Range
  <2>6. IsFiniteSet(Nodes)
    BY <1>1, GraphFacts DEF TypeOK
  <2>7. Cardinality(Nodes) = Cardinality(Sorted) => Nodes = Sorted
    BY <2>5, <2>6, FS_Subset, Zenon
  <2> QED
    BY <2>4, <2>7, Zenon
<1>4. SortInv'
  BY <1>1, <1>3, SortFixed
<1>5. phase' \in {"group", "circular"} /\ levels = <<>>
  BY <1>1 DEF GroupInv
<1>6. GroupInv'
  BY <1>1, <1>5, GroupFixed DEF sortVars
<1>7. TypeOK'
  BY <1>1, <1>2, <1>5 DEF TypeOK, sortVars, groupVars, runVars
<1>8. RunInv'
  <2>1. PermitsConserved'
    BY <1>1, PermitsFixed DEF RunInv, runVars
  <2> QED
    BY <1>1, <1>2, <1>5, <2>1 DEF RunInv, runVars, groupVars
<1> QED
  BY <1>4, <1>6, <1>7, <1>8 DEF IInv

(* A turn of the grouping loop adds a level that is disjoint from the      *)
(* others, depends on them only, and could not have come earlier.          *)
LEMMA GroupLevelStep == IInv /\ GroupLevel => IInv'
<1> SUFFICES ASSUME IInv, GroupLevel PROVE IInv'
  OBVIOUS
<1> DEFINE New == CurrentLevel
           k == Len(levels) + 1
<1>1. /\ TypeOK /\ SortInv /\ GroupInv /\ RunInv
      /\ phase = "group" /\ New # {}
      /\ levels' = Append(levels, New)
      /\ processed' = processed \cup New
      /\ UNCHANGED <<invs, phase, sortVars, runVars>>
  BY DEF IInv, GroupLevel
<1>2. /\ Nodes' = Nodes
      /\ \A n : Deps(n)' = Deps(n) /\ DepSet(n)' = DepSet(n)
  BY <1>1, GraphFixed
<1>3. /\ New \subseteq Sorted \ processed
      /\ \A n \in New : DepSet(n) \subseteq processed
      /\ \A n \in (Sorted \ processed) \ New : ~ (DepSet(n) \subseteq processed)
  BY DEF CurrentLevel
<1> HIDE DEF New
<1>4. /\ levels \in Seq(SUBSET Nodes) /\ Sorted = Nodes
      /\ processed = UNION Range(levels) /\ LevelsTight
  BY <1>1 DEF TypeOK, SortInv, GroupInv
<1>5. New \in SUBSET Nodes
  BY <1>3, <1>4
<1>6. /\ levels' \in Seq(SUBSET Nodes)
      /\ Len(levels') = k
      /\ DOMAIN levels' = 1..k
      /\ \A i \in 1..Len(levels) : levels'[i] = levels[i]
      /\ levels'[k] = New
      /\ Range(levels') = Range(levels) \cup {New}
      /\ Len(levels) \in Nat
      /\ DOMAIN levels = 1..Len(levels)
  BY <1>1, <1>4, <1>5, SortedGrows, LenProperties
<1>7. \A i \in 1..Len(levels) : levels[i] \subseteq processed
  BY <1>4, <1>6 DEF Range
<1>8. \A x \in processed : \E i \in 1..Len(levels) : x \in levels[i]
  BY <1>4, <1>6 DEF Range
<1>9. LevelsTight'
  <2> SUFFICES ASSUME NEW i \in 1..k
               PROVE  /\ levels'[i] # {}
                      /\ \A m \in 1..k : m # i => levels'[i] \cap levels'[m] = {}
                      /\ \A n \in levels'[i] :
                           /\ \A d \in DepSet(n) : \E m \in 1..(i - 1) : d \in levels'[m]
                           /\ i > 1 => DepSet(n) \cap levels'[i - 1] # {}
    BY <1>2, <1>6 DEF LevelsTight
  <2>1. CASE i \in 1..Len(levels)
    <3>1. /\ levels[i] # {}
          /\ \A m \in 1..Len(levels) : m # i => levels[i] \cap levels[m] = {}
          /\ \A n \in levels[i] :
               /\ \A d \in DepSet(n) : \E m \in 1..(i - 1) : d \in levels[m]
               /\ i > 1 => DepSet(n) \cap levels[i - 1] # {}
      BY <1>4, <1>6, <2>1 DEF LevelsTight
    <3>2. \A m \in 1..(i - 1) : levels'[m] = levels[m]
      BY <1>6, <2>1
    <3>3. levels[i] \cap New = {}
      BY <1>3, <1>7, <2>1
    <3>4. levels'[i] = levels[i]
      BY <1>6, <2>1
    <3>5. ASSUME NEW m \in 1..k, m # i PROVE levels'[i] \cap levels'[m] = {}
      <4>1. CASE m \in 1..Len(levels)
        BY <1>6, <3>1, <3>4, <3>5, <4>1
      <4>2. CASE m = k
        BY <1>6, <3>3, <3>4, <4>2
      <4> QED
        BY <1>6, <4>1, <4>2
    <3>6. ASSUME NEW n \in levels'[i]
          PROVE  /\ \A d \in DepSet(n) : \E m \in 1..(i - 1) : d \in levels'[m]
                 /\ i > 1 => DepSet(n) \cap levels'[i - 1] # {}
      <4>1. i > 1 => i - 1 \in 1..(i - 1)
        BY <1>6, <2>1
      <4> QED
        BY <3>1, <3>2, <3>4, <3>6, <4>1
    <3> QED
      BY <3>1, <3>4, <3>5, <3>6
  <2>2. CASE i = k
    <3>1. levels'[i] = New /\ i - 1 = Len(levels)
      BY <1>6, <2>2
    <3>2. ASSUME NEW m \in 1..k, m # i PROVE levels'[i] \cap levels'[m] = {}
      <4>1. m \in 1..Len(levels)
        BY <1>6, <2>2, <3>2
      <4> QED
        BY <1>3, <1>6, <1>7, <3>1, <4>1
    <3>3. ASSUME NEW n \in New, NEW d \in DepSet(n)
          PROVE  \E m \in 1..(i - 1) : d \in levels'[m]
      BY <1>3, <1>6, <1>8, <3>1, <3>3
    <3>4. ASSUME NEW n \in New, i > 1
          PROVE  DepSet(n) \cap levels'[i - 1] # {}
      <4>1. levels # <<>> /\ Len(levels) \in 1..Len(levels)
        BY <1>6, <3>1, <3>4
      <4>2. DepSet(n) \cap levels[Len(levels)] # {}
        BY <1>1, <1>3, <3>4, <4>1 DEF GroupInv
      <4> QED
        BY <1>6, <3>1, <4>1, <4>2
    <3> QED
      BY <1>1, <3>1, <3>2, <3>3, <3>4
  <2> QED
    BY <1>6, <2>1, <2>2
<1>10. GroupInv'
  <2>1. processed' = UNION Range(levels')
    BY <1>1, <1>4, <1>6
  <2>2. Sorted' = Sorted /\ processed' \subseteq Sorted'
    BY <1>1, <1>3 DEF sortVars, Sorted, GroupInv
  <2>3. \A n \in Sorted \ processed' :
          DepSet(n) \subseteq processed' => DepSet(n) \cap New # {}
    BY <1>1, <1>3
  <2> QED
    BY <1>1, <1>2, <1>6, <1>9, <2>1, <2>2, <2>3 DEF GroupInv
<1>11. SortInv'
  BY <1>1, SortFixed
<1>12. TypeOK'
  <2>1. level' \in 0..Len(levels')
    BY <1>1, <1>6 DEF TypeOK, runVars
  <2> QED
    BY <1>1, <1>2, <1>5, <1>6, <2>1 DEF TypeOK, sortVars, runVars
<1>13. RunInv'
  <2>1. PermitsConserved'
    BY <1>1, PermitsFixed DEF RunInv, runVars
  <2>2. level = 0 /\ DOMAIN allResults = {} /\ \A n \in Nodes : status[n] = "idle"
    <3>1. level = 0 /\ \A n \in Nodes : status[n] = "idle"
      BY <1>1 DEF RunInv
    <3>2. \A n \in Nodes : outcome[n] = "none"
      BY <1>1, <3>1 DEF RunInv
    <3>3. \A n \in DOMAIN allResults : n \in Nodes /\ outcome[n] # "none"
      BY <1>1 DEF RunInv, TypeOK, Outcomes
    <3> QED
      BY <3>1, <3>2, <3>3
  <2>3. \A i \in DOMAIN levels' : levels'[i] \subseteq Nodes /\ i > 0
    BY <1>6
  <2> QED
    BY <1>1, <1>2, <2>1, <2>2, <2>3 DEF RunInv, runVars
<1> QED
  BY <1>10, <1>11, <1>12, <1>13 DEF IInv

(* Grouping never gives up on an accepted batch: of the nodes left over,   *)
(* the first in topological order has all its dependencies placed.         *)
LEMMA GroupProgress ==
  ASSUME TypeOK, SortInv, processed # Sorted, processed \subseteq Sorted
  PROVE  CurrentLevel # {}
<1> DEFINE T == {i \in DOMAIN sorted : sorted[i] \notin processed}
<1>1. DOMAIN sorted = 1..Len(sorted) /\ Len(sorted) \in Nat
  BY LenProperties DEF TypeOK
<1>2. T \subseteq Nat /\ T # {}
  BY <1>1 DEF Sorted, Range
<1>3. PICK i \in T : \A j \in T : i <= j
  BY <1>2, Least, Zenon
<1>4. \A j \in 1..(i - 1) : sorted[j] \in processed
  BY <1>1, <1>3
<1>5. DepSet(sorted[i]) \subseteq processed
  BY <1>4 DEF SortInv, TopologicalOrder
<1>6. sorted[i] \in Sorted \ processed
  BY DEF Sorted, Range
<1> QED
  BY <1>5, <1>6 DEF CurrentLevel

LEMMA GroupDoneStep == IInv /\ GroupDone => IInv'
<1> SUFFICES ASSUME IInv, GroupDone PROVE IInv'
  OBVIOUS
<1>1. /\ TypeOK /\ SortInv /\ GroupInv /\ RunInv
      /\ phase = "group" /\ phase' = "run"
      /\ processed = Sorted \/ CurrentLevel = {}
      /\ UNCHANGED <<invs, sortVars, groupVars, runVars>>
  BY DEF IInv, GroupDone
<1>2. /\ Nodes' = Nodes
      /\ \A n : Deps(n)' = Deps(n) /\ DepSet(n)' = DepSet(n)
  BY <1>1, GraphFixed
<1>3. processed = Nodes /\ Sorted = Nodes /\ queue = {}
  BY <1>1, GroupProgress DEF GroupInv, SortInv
<1>4. SortInv'
  BY <1>1, <1>3, SortFixed
<1>5. GroupInv'
  BY <1>1, <1>3, GroupFixed DEF sortVars
<1>6. TypeOK'
  BY <1>1, <1>2 DEF TypeOK, sortVars, groupVars, runVars
<1>7. RunInv'
  <2>1. PermitsConserved'
    BY <1>1, PermitsFixed DEF RunInv, runVars
  <2>2. DOMAIN levels = 1..Len(levels) /\ Len(levels) \in Nat
    BY <1>1, LenProperties DEF TypeOK
  <2> QED
    BY <1>1, <1>2, <2>1, <2>2 DEF RunInv, runVars, groupVars
<1> QED
  BY <1>4, <1>5, <1>6, <1>7 DEF IInv

LEMMA StartLevelStep == IInv /\ StartLevel => IInv'
<1> SUFFICES ASSUME IInv, StartLevel PROVE IInv'
  OBVIOUS
<1>1. /\ TypeOK /\ SortInv /\ GroupInv /\ RunInv
      /\ phase = "run" /\ phase' = "gather"
      /\ level < Len(levels) /\ level' = level + 1
      /\ status' = [n \in Nodes |-> IF n \in levels[level + 1] THEN "waiting"
                                                                ELSE status[n]]
      /\ UNCHANGED <<invs, sortVars, groupVars, outcome, permits, allResults, results>>
  BY DEF IInv, StartLevel
<1>2. /\ Nodes' = Nodes
      /\ \A n : Deps(n)' = Deps(n) /\ DepSet(n)' = DepSet(n)
  BY <1>1, GraphFixed
<1>3. processed = Nodes /\ Sorted = Nodes /\ queue = {}
  BY <1>1 DEF GroupInv, SortInv
<1>4. /\ DOMAIN levels = 1..Len(levels) /\ Len(levels) \in Nat
      /\ levels \in [1..Len(levels) -> SUBSET Nodes]
      /\ level \in Nat /\ level + 1 \in 1..Len(levels)
  BY <1>1, LenProperties DEF TypeOK
<1>5. \A n \in levels[level + 1] : n \in Nodes /\ status[n] = "idle"
  BY <1>1, <1>4 DEF RunInv
<1>6. \A m \in DOMAIN levels : m # level + 1 => levels[m] \cap levels[level + 1] = {}
  BY <1>1, <1>4 DEF GroupInv, LevelsTight
<1>7. SortInv'
  BY <1>1, <1>3, SortFixed
<1>8. GroupInv'
  BY <1>1, <1>3, GroupFixed DEF sortVars
<1>9. TypeOK'
  BY <1>1, <1>2, <1>4 DEF TypeOK, sortVars, groupVars
<1>10. RunInv'
  <2>1. PermitsConserved'
    BY <1>1, <1>5, PermitsFixed DEF RunInv
  <2>2. ASSUME NEW k \in DOMAIN levels, NEW n \in levels[k]
        PROVE  /\ k < level' => status'[n] = "done"
               /\ k = level' => status'[n] # "idle"
               /\ k > level' => status'[n] = "idle"
               /\ n \in DOMAIN allResults <=> k < level'
    <3>1. n \in Nodes /\ k \in Nat
      BY <1>4
    <3>2. /\ k < level => status[n] = "done"
          /\ k = level => status[n] = "done"
          /\ k > level => status[n] = "idle"
          /\ n \in DOMAIN allResults <=> (k < level \/ k = level)
      BY <1>1, <2>2 DEF RunInv
    <3>3. status'[n] = IF k = level' THEN "waiting" ELSE status[n]
      BY <1>1, <1>6, <2>2, <3>1
    <3> QED
      BY <1>1, <1>4, <3>1, <3>2, <3>3
  <2>3. \A n \in Nodes : status'[n] = "done" <=> status[n] = "done"
    BY <1>1, <1>5
  <2>4. /\ \A n \in Nodes : status[n] = "done" <=> outcome[n] # "none"
        /\ \A n \in DOMAIN allResults : allResults[n] = outcome[n]
    BY <1>1 DEF RunInv
  <2>5. levels' = levels /\ level' > 0
    BY <1>1, <1>4 DEF groupVars
  <2> QED
    BY <1>1, <1>2, <2>1, <2>2, <2>3, <2>4, <2>5 DEF RunInv
<1> QED
  BY <1>7, <1>8, <1>9, <1>10 DEF IInv

(* A task that has been started and has not ended belongs to the level     *)
(* that gather() is waiting for, and to no other.                          *)
LEMMA BusyTask ==
  ASSUME IInv, NEW n \in Nodes, status[n] \in {"waiting", "running", "expired"}
  PROVE  /\ phase = "gather"
         /\ level \in DOMAIN levels /\ n \in levels[level]
         /\ \A k \in DOMAIN levels : n \in levels[k] => k = level
         /\ n \notin DOMAIN allResults
<1>1. TypeOK /\ GroupInv /\ RunInv
  BY DEF IInv
<1>2. level # 0 /\ status[n] # "idle" /\ status[n] # "done"
  BY <1>1 DEF RunInv
<1>3. phase \in {"run", "gather", "returned"}
  BY <1>1, <1>2 DEF RunInv, TypeOK
<1>4. n \in UNION Range(levels)
  BY <1>1, <1>3 DEF GroupInv
<1>5. /\ DOMAIN levels = 1..Len(levels) /\ Len(levels) \in Nat /\ level \in Nat
      /\ Range(levels) = {levels[k] : k \in 1..Len(levels)}
  BY <1>1, LenProperties DEF TypeOK, Range
<1>6. PICK k \in DOMAIN levels : n \in levels[k]
  BY <1>4, <1>5
<1>7. \A j \in DOMAIN levels : n \in levels[j] => j = level /\ phase = "gather"
                                                   /\ n \notin DOMAIN allResults
  <2> SUFFICES ASSUME NEW j \in DOMAIN levels, n \in levels[j]
               PROVE  j = level /\ phase = "gather" /\ n \notin DOMAIN allResults
    OBVIOUS
  <2>1. /\ j < level => status[n] = "done"
        /\ j = level /\ phase # "gather" => status[n] = "done"
        /\ j > level => status[n] = "idle"
        /\ n \in DOMAIN allResults <=> j < level \/ (j = level /\ phase # "gather")
    BY <1>1 DEF RunInv
  <2> QED
    BY <1>2, <1>5, <2>1
<1> QED
  BY <1>6, <1>7

(* What a step of one task owes the rest of the invariant.                 *)
LEMMA TaskFrame ==
  ASSUME IInv, NEW n \in Nodes, status[n] \in {"waiting", "running", "expired"},
         NEW s \in {"running", "expired", "done"}, NEW o \in Outcomes \cup {"none"},
         s = "done" <=> o # "none",
         status' = [status EXCEPT ![n] = s],
         outcome' = [outcome EXCEPT ![n] = o],
         permits' \in 0..MaxParallelism, PermitsConserved',
         UNCHANGED <<invs, phase, sortVars, groupVars, level, allResults, results>>
  PROVE  IInv'
<1>1. /\ TypeOK /\ SortInv /\ GroupInv /\ RunInv
  BY DEF IInv
<1>2. /\ Nodes' = Nodes
      /\ \A m : Deps(m)' = Deps(m) /\ DepSet(m)' = DepSet(m)
  BY GraphFixed
<1>3. SortInv'
  BY <1>1, SortFixed
<1>4. GroupInv'
  BY <1>1, GroupFixed DEF sortVars
<1>5. TypeOK'
  BY <1>1, <1>2 DEF TypeOK, sortVars, groupVars
<1>6. /\ phase = "gather" /\ level \in DOMAIN levels
      /\ \A k \in DOMAIN levels : n \in levels[k] => k = level
      /\ n \notin DOMAIN allResults
  BY BusyTask
<1>7. /\ level \in Nat /\ level # 0
      /\ \A k \in DOMAIN levels : k \in Nat
  BY <1>1, <1>6, LenProperties DEF TypeOK
<1>8. ASSUME NEW k \in DOMAIN levels, NEW m \in levels[k]
      PROVE  /\ k < level => status'[m] = "done"
             /\ k = level => status'[m] # "idle"
             /\ k > level => status'[m] = "idle"
             /\ m \in DOMAIN allResults <=> k < level
  <2>1. /\ k < level => status[m] = "done"
        /\ k = level => status[m] # "idle"
        /\ k > level => status[m] = "idle"
        /\ m \in DOMAIN allResults <=> k < level
    BY <1>1, <1>6, <1>7 DEF RunInv
  <2>2. CASE m = n
    <3>1. k = level /\ status'[m] = s
      BY <1>1, <1>6, <2>2 DEF TypeOK
    <3> QED
      BY <1>7, <2>1, <3>1
  <2>3. CASE m # n
    <3>1. status'[m] = status[m]
      BY <1>1, <2>3 DEF TypeOK
    <3> QED
      BY <2>1, <3>1
  <2> QED
    BY <2>2, <2>3
<1>9. /\ \A m \in Nodes : status'[m] = "done" <=> outcome'[m] # "none"
      /\ \A m \in DOMAIN allResults : allResults[m] = outcome'[m]
  BY <1>1, <1>6 DEF RunInv, TypeOK
<1>10. levels' = levels /\ level > 0
  BY <1>7 DEF groupVars
<1>11. RunInv'
  BY <1>1, <1>2, <1>6, <1>7, <1>8, <1>9, <1>10 DEF RunInv
<1> QED
  BY <1>3, <1>4, <1>5, <1>11 DEF IInv

(* The tasks that hold a permit are a finite set.                          *)
LEMMA RunningFinite ==
  ASSUME IInv
  PROVE  IsFiniteSet(Running) /\ Cardinality(Running) \in Nat
BY GraphFacts, FS_Subset, FS_CardinalityType, Running \in SUBSET Nodes
   DEF IInv, TypeOK, Running

LEMMA AcquireStep == ASSUME IInv, NEW n \in Nodes, Acquire(n) PROVE IInv'
<1>1. TypeOK /\ RunInv
  BY DEF IInv
<1>2. /\ status[n] = "waiting" /\ permits > 0 /\ permits' = permits - 1
      /\ status' = [status EXCEPT ![n] = "running"]
      /\ UNCHANGED <<invs, phase, sortVars, groupVars, level, outcome, allResults, results>>
  BY DEF Acquire
<1>3. Nodes' = Nodes
  BY <1>2, GraphFixed
<1>4. outcome[n] = "none" /\ outcome' = [outcome EXCEPT ![n] = "none"]
  BY <1>1, <1>2 DEF RunInv, TypeOK
<1>5. Running' = Running \cup {n} /\ n \notin Running
  BY <1>1, <1>2, <1>3 DEF Running, TypeOK
<1>6. Cardinality(Running') = Cardinality(Running) + 1
  BY <1>5, RunningFinite, FS_AddElement
<1>7. PermitsConserved' /\ permits' \in 0..MaxParallelism
  BY <1>1, <1>2, <1>6, RunningFinite, MaxParallelismAssumption
     DEF RunInv, PermitsConserved, TypeOK
<1> QED
  BY <1>2, <1>4, <1>7, TaskFrame

LEMMA ExpireStep == ASSUME IInv, NEW n \in Nodes, Expire(n) PROVE IInv'
<1>1. TypeOK /\ RunInv
  BY DEF IInv
<1>2. /\ status[n] = "running"
      /\ status' = [status EXCEPT ![n] = "expired"]
      /\ UNCHANGED <<invs, phase, sortVars, groupVars, level, outcome, permits,
                     allResults, results>>
  BY DEF Expire
<1>3. outcome[n] = "none" /\ outcome' = [outcome EXCEPT ![n] = "none"]
  BY <1>1, <1>2 DEF RunInv, TypeOK
<1>4. \A m \in Nodes : status'[m] \in {"running", "expired"}
                         <=> status[m] \in {"running", "expired"}
  BY <1>1, <1>2 DEF TypeOK
<1>5. PermitsConserved' /\ permits' \in 0..MaxParallelism
  BY <1>1, <1>2, <1>4, PermitsFixed DEF RunInv, TypeOK
<1> QED
  BY <1>2, <1>3, <1>5, TaskFrame

LEMMA FinishStep ==
  ASSUME IInv, NEW n \in Nodes, NEW how \in Outcomes, Finish(n, how)
  PROVE  IInv'
<1>1. TypeOK /\ RunInv
  BY DEF IInv
<1>2. /\ status[n] \in {"running", "expired"} /\ permits' = permits + 1
      /\ status' = [status EXCEPT ![n] = "done"]
      /\ outcome' = [outcome EXCEPT ![n] = how]
      /\ UNCHANGED <<invs, phase, sortVars, groupVars, level, allResults, results>>
  BY DEF Finish
<1>3. Nodes' = Nodes
  BY <1>2, GraphFixed
<1>4. Running' = Running \ {n} /\ n \in Running
  BY <1>1, <1>2, <1>3 DEF Running, TypeOK
<1>5. Cardinality(Running') = Cardinality(Running) - 1
  BY <1>4, RunningFinite, FS_RemoveElement
<1>6. Cardinality(Running) # 0
  BY <1>4, RunningFinite, FS_EmptySet
<1>7. PermitsConserved' /\ permits' \in 0..MaxParallelism
  <2>1. /\ permits \in 0..MaxParallelism /\ MaxParallelism \in Nat
        /\ permits + Cardinality(Running) = MaxParallelism
        /\ Cardinality(Running) \in Nat
    BY <1>1, RunningFinite, MaxParallelismAssumption
       DEF RunInv, PermitsConserved, TypeOK
  <2>2. permits' + Cardinality(Running') = MaxParallelism
    BY <1>2, <1>5, <2>1
  <2>3. permits' \in 0..MaxParallelism
    BY <1>2, <1>6, <2>1
  <2> QED
    BY <2>2, <2>3 DEF PermitsConserved
<1>8. how # "none"
  BY DEF Outcomes
<1> QED
  BY <1>2, <1>7, <1>8, TaskFrame

LEMMA LevelDoneStep == IInv /\ LevelDone => IInv'
<1> SUFFICES ASSUME IInv, LevelDone PROVE IInv'
  OBVIOUS
<1>1. /\ TypeOK /\ SortInv /\ GroupInv /\ RunInv
      /\ phase = "gather" /\ phase' = "run"
      /\ \A n \in levels[level] : status[n] = "done"
      /\ allResults' = [n \in DOMAIN allResults \cup levels[level] |->
                          IF n \in levels[level] THEN outcome[n] ELSE allResults[n]]
      /\ UNCHANGED <<invs, sortVars, groupVars, level, status, outcome, permits, results>>
  BY DEF IInv, LevelDone
<1>2. /\ Nodes' = Nodes
      /\ \A n : Deps(n)' = Deps(n) /\ DepSet(n)' = DepSet(n)
  BY <1>1, GraphFixed
<1>3. processed = Nodes /\ Sorted = Nodes /\ queue = {}
  BY <1>1 DEF GroupInv, SortInv
<1>4. /\ DOMAIN levels = 1..Len(levels) /\ Len(levels) \in Nat
      /\ levels \in [1..Len(levels) -> SUBSET Nodes]
      /\ level \in 1..Len(levels)
  BY <1>1, LenProperties DEF TypeOK, RunInv
<1>5. SortInv'
  BY <1>1, <1>3, SortFixed
<1>6. GroupInv'
  BY <1>1, <1>3, GroupFixed DEF sortVars
<1>7. /\ levels[level] \subseteq Nodes
      /\ \A n \in levels[level] : outcome[n] \in Outcomes
  BY <1>1, <1>4 DEF RunInv, TypeOK
<1>8. TypeOK'
  <2>1. /\ DOMAIN allResults' \subseteq Nodes
        /\ \A n \in DOMAIN allResults' : allResults'[n] \in Outcomes
    BY <1>1, <1>7 DEF TypeOK
  <2> QED
    BY <1>1, <1>2, <2>1 DEF TypeOK, sortVars, groupVars
<1>9. RunInv'
  <2>1. PermitsConserved'
    BY <1>1, PermitsFixed DEF RunInv
  <2>2. \A m \in DOMAIN levels : m # level => levels[m] \cap levels[level] = {}
    BY <1>1, <1>4 DEF GroupInv, LevelsTight
  <2>3. ASSUME NEW k \in DOMAIN levels, NEW n \in levels[k]
        PROVE  /\ k < level => status[n] = "done"
               /\ k = level => status[n] = "done"
               /\ k > level => status[n] = "idle"
               /\ n \in DOMAIN allResults' <=> (k < level \/ k = level)
    <3>1. /\ k < level => status[n] = "done"
          /\ k > level => status[n] = "idle"
          /\ n \in DOMAIN allResults <=> k < level
      BY <1>1, <1>4 DEF RunInv
    <3>2. n \in levels[level] <=> k = level
      BY <1>4, <2>2
    <3> QED
      BY <1>1, <3>1, <3>2
  <2>4. \A n \in DOMAIN allResults' : allResults'[n] = outcome[n]
    BY <1>1 DEF RunInv
  <2>5. /\ \A n \in Nodes : status[n] = "done" <=> outcome[n] # "none"
        /\ levels' = levels /\ level # 0
    BY <1>1, <1>4 DEF RunInv, groupVars
  <2>6. \A k \in DOMAIN levels : \A n \in levels[k] : k = level => status[n] # "idle"
    BY <1>1
  <2> QED
    BY <1>1, <1>2, <2>1, <2>3, <2>4, <2>5, <2>6 DEF RunInv
<1> QED
  BY <1>5, <1>6, <1>8, <1>9 DEF IInv

(* After the last level every invocation has a result: the comprehension   *)
(* that collects them meets no missing key.                                *)
LEMMA AllResultsTotal ==
  ASSUME IInv, phase = "run", level = Len(levels)
  PROVE  /\ Nodes \subseteq DOMAIN allResults
         /\ \A n \in Nodes : status[n] = "done"
<1>1. TypeOK /\ GroupInv /\ RunInv
  BY DEF IInv
<1>2. /\ DOMAIN levels = 1..Len(levels) /\ Len(levels) \in Nat
      /\ Range(levels) = {levels[k] : k \in 1..Len(levels)}
  BY <1>1, LenProperties DEF TypeOK, Range
<1>3. Nodes = UNION Range(levels)
  BY <1>1 DEF GroupInv
<1>4. ASSUME NEW n \in Nodes
      PROVE  n \in DOMAIN allResults /\ status[n] = "done"
  <2>1. PICK k \in DOMAIN levels : n \in levels[k]
    BY <1>2, <1>3
  <2>2. k < level \/ k = level
    BY <1>2
  <2> QED
    BY <1>1, <2>1, <2>2 DEF RunInv
<1> QED
  BY <1>4

LEMMA ReturnStep == IInv /\ Return => IInv'
<1> SUFFICES ASSUME IInv, Return PROVE IInv'
  OBVIOUS
<1>1. /\ TypeOK /\ SortInv /\ GroupInv /\ RunInv
      /\ phase = "run" /\ level = Len(levels)
      /\ UNCHANGED <<invs, sortVars, groupVars, level, status, outcome, permits, allResults>>
  BY DEF IInv, Return
<1>2. phase' = "returned" /\ results' = [i \in DOMAIN invs |-> allResults[invs[i].id]]
  BY <1>1, AllResultsTotal DEF Return
<1>3. /\ Nodes' = Nodes
      /\ \A n : Deps(n)' = Deps(n) /\ DepSet(n)' = DepSet(n)
  BY <1>1, GraphFixed
<1>4. processed = Nodes /\ Sorted = Nodes /\ queue = {}
  BY <1>1 DEF GroupInv, SortInv
<1>5. SortInv'
  BY <1>1, <1>2, <1>4, SortFixed
<1>6. GroupInv'
  BY <1>1, <1>2, <1>4, GroupFixed DEF sortVars
<1>7. TypeOK'
  BY <1>1, <1>2, <1>3 DEF TypeOK, sortVars, groupVars
<1>8. RunInv'
  <2>1. PermitsConserved'
    BY <1>1, PermitsFixed DEF RunInv
  <2>2. \A i \in DOMAIN invs : allResults[invs[i].id] = outcome[invs[i].id]
    BY <1>1, AllResultsTotal DEF RunInv, Nodes, NodesOf
  <2> QED
    BY <1>1, <1>2, <1>3, <2>1, <2>2 DEF RunInv, groupVars
<1> QED
  BY <1>5, <1>6, <1>7, <1>8 DEF IInv

LEMMA StutterStep == IInv /\ UNCHANGED vars => IInv'
<1> SUFFICES ASSUME IInv, UNCHANGED vars PROVE IInv'
  OBVIOUS
<1>1. TypeOK /\ SortInv /\ GroupInv /\ RunInv
  BY DEF IInv
<1>2. UNCHANGED <<invs, phase, sortVars, groupVars, runVars>>
  BY DEF vars, sortVars, groupVars, runVars
<1>3. Nodes' = Nodes
  BY <1>2, GraphFixed
<1>4. SortInv' /\ GroupInv'
  BY <1>1, <1>2, SortFixed, GroupFixed DEF sortVars
<1>5. PermitsConserved'
  BY <1>1, <1>2, PermitsFixed DEF RunInv, runVars
<1>6. RunInv'
  BY <1>1, <1>2, <1>3, <1>5 DEF RunInv, runVars, groupVars
<1>7. TypeOK'
  BY <1>1, <1>2, <1>3 DEF TypeOK, sortVars, groupVars, runVars
<1> QED
  BY <1>4, <1>6, <1>7 DEF IInv

(* The invariant is inductive: every step of a call keeps it, whatever the *)
(* batch (repeated ids, unknown ids and cycles included).                  *)
THEOREM Invariance == Spec => []IInv
<1>1. Init => IInv
  BY InitInv
<1>2. IInv /\ [Next]_vars => IInv'
  <2> SUFFICES ASSUME IInv, [Next]_vars PROVE IInv'
    OBVIOUS
  <2>1. CASE SortNode
    BY <2>1, SortNodeStep
  <2>2. CASE SortDone
    BY <2>2, SortDoneStep
  <2>3. CASE GroupLevel
    BY <2>3, GroupLevelStep
  <2>4. CASE GroupDone
    BY <2>4, GroupDoneStep
  <2>5. CASE StartLevel
    BY <2>5, StartLevelStep
  <2>6. CASE LevelDone
    BY <2>6, LevelDoneStep
  <2>7. CASE Return
    BY <2>7, ReturnStep
  <2>8. ASSUME NEW n \in Nodes, Task(n) PROVE IInv'
    BY <2>8, AcquireStep, ExpireStep, FinishStep DEF Task
  <2>9. CASE UNCHANGED vars
    BY <2>9, StutterStep
  <2> QED
    BY <2>1, <2>2, <2>3, <2>4, <2>5, <2>6, <2>7, <2>8, <2>9 DEF Next
<1> QED
  BY <1>1, <1>2, PTL DEF Spec

(* The executor's state is always well formed. *)
THEOREM TypeCorrect == Spec => []TypeOK
<1>1. IInv => TypeOK
  BY DEF IInv
<1> QED
  BY <1>1, Invariance, PTL

(* _topological_sort never puts a node before one it depends on.           *)
THEOREM OrderCorrect == Spec => []TopologicalOrder
<1>1. IInv => TopologicalOrder
  BY DEF IInv, SortInv
<1> QED
  BY <1>1, Invariance, PTL

(* A tool is queued for a permit only when all its dependencies have run.  *)
THEOREM DependenciesCorrect == Spec => []DependenciesFirst
<1>1. IInv => DependenciesFirst
  <2> SUFFICES ASSUME IInv, NEW n \in Nodes, status[n] # "idle", NEW d \in DepSet(n)
               PROVE  d \in Nodes /\ status[d] = "done"
    BY DEF DependenciesFirst
  <2>1. TypeOK /\ GroupInv /\ RunInv
    BY DEF IInv
  <2>2. level # 0
    BY <2>1 DEF RunInv
  <2>3. phase \in {"run", "gather", "returned"}
    BY <2>1, <2>2 DEF RunInv, TypeOK
  <2>4. /\ DOMAIN levels = 1..Len(levels) /\ Len(levels) \in Nat /\ level \in Nat
        /\ Range(levels) = {levels[k] : k \in 1..Len(levels)}
        /\ levels \in [1..Len(levels) -> SUBSET Nodes]
    BY <2>1, LenProperties DEF TypeOK, Range
  <2>5. n \in UNION Range(levels)
    BY <2>1, <2>3 DEF GroupInv
  <2>6. PICK k \in 1..Len(levels) : n \in levels[k]
    BY <2>4, <2>5
  <2>7. k <= level
    <3>1. k > level => status[n] = "idle"
      BY <2>1, <2>4, <2>6 DEF RunInv
    <3> QED
      BY <2>4, <3>1
  <2>8. PICK m \in 1..(k - 1) : d \in levels[m]
    BY <2>1, <2>4, <2>6 DEF GroupInv, LevelsTight
  <2>9. m \in DOMAIN levels /\ m < level
    BY <2>4, <2>6, <2>7, <2>8
  <2> QED
    BY <2>1, <2>4, <2>8, <2>9 DEF RunInv
<1> QED
  BY <1>1, Invariance, PTL

(* No permit is ever lost or given twice, so at most MaxParallelism tools  *)
(* run at a time.                                                          *)
THEOREM PermitsCorrect == Spec => []PermitsConserved
<1>1. IInv => PermitsConserved
  BY DEF IInv, RunInv
<1> QED
  BY <1>1, Invariance, PTL

(* The levels are disjoint, in order, and as early as they can be.         *)
THEOREM LevelsCorrect == Spec => []LevelsTight
<1>1. IInv => LevelsTight
  BY DEF IInv, GroupInv
<1> QED
  BY <1>1, Invariance, PTL

(* An accepted batch always gets all its results.                          *)
THEOREM ResultsCorrect == Spec => [](NoKeyError /\ ResultsComplete)
<1>1. IInv => NoKeyError /\ ResultsComplete
  <2> SUFFICES ASSUME IInv PROVE NoKeyError /\ ResultsComplete
    OBVIOUS
  <2>1. TypeOK /\ GroupInv /\ RunInv
    BY DEF IInv
  <2>2. NoKeyError
    BY <2>1 DEF RunInv, NoKeyError
  <2>3. ASSUME phase = "returned", NEW n \in Nodes PROVE status[n] = "done"
    <3>1. n \in UNION Range(levels) /\ level = Len(levels)
      BY <2>1, <2>3 DEF GroupInv, RunInv
    <3>2. /\ DOMAIN levels = 1..Len(levels) /\ Len(levels) \in Nat
          /\ Range(levels) = {levels[k] : k \in 1..Len(levels)}
      BY <2>1, LenProperties DEF TypeOK, Range
    <3>3. PICK k \in DOMAIN levels : n \in levels[k]
      BY <3>1, <3>2
    <3>4. k < level \/ k = level
      BY <3>1, <3>2
    <3> QED
      BY <2>1, <2>3, <3>3, <3>4 DEF RunInv
  <2> QED
    BY <2>1, <2>2, <2>3 DEF RunInv, ResultsComplete
<1> QED
  BY <1>1, Invariance, PTL

(* _topological_sort takes exactly the batches that can be ordered.        *)
THEOREM AcceptanceCorrect == Spec => []AcceptsExactly
<1>1. ASSUME IInv, Sorted = Nodes PROVE Sortable
  <2>1. TypeOK /\ SortInv
    BY <1>1 DEF IInv
  <2>2. ASSUME NEW n \in Nodes
        PROVE  DepSet(n) \subseteq Nodes /\ Cardinality(DepSet(n)) = Len(Deps(n))
    <3>1. /\ inDegree[n] = 0
          /\ inDegree[n] = Len(Deps(n)) - Cardinality(DepSet(n) \cap Nodes)
      BY <1>1, <2>1 DEF SortInv
    <3>2. Cardinality(DepSet(n) \cap Nodes) \in Nat /\ Len(Deps(n)) \in Nat
      BY <2>1, SortedDeps, GraphFacts DEF TypeOK
    <3>3. Cardinality(DepSet(n) \cap Nodes) = Len(Deps(n))
      BY <3>1, <3>2
    <3> QED
      BY <2>1, <3>3, SortedDeps DEF TypeOK
  <2>3. ASSUME NEW S \in SUBSET Nodes, S # {}
        PROVE  \E n \in S : DepSet(n) \cap S = {}
    <3> DEFINE T == {i \in DOMAIN sorted : sorted[i] \in S}
    <3>1. DOMAIN sorted = 1..Len(sorted) /\ Len(sorted) \in Nat
      BY <2>1, LenProperties DEF TypeOK
    <3>2. T \subseteq Nat /\ T # {}
      BY <1>1, <2>3, <3>1 DEF Sorted, Range
    <3>3. PICK i \in T : \A j \in T : i <= j
      BY <3>2, Least, Zenon
    <3>4. \A j \in 1..(i - 1) : sorted[j] \notin S
      BY <3>1, <3>3
    <3>5. DepSet(sorted[i]) \subseteq {sorted[j] : j \in 1..(i - 1)}
      BY <2>1 DEF SortInv, TopologicalOrder
    <3> QED
      BY <3>4, <3>5
  <2> QED
    BY <2>2, <2>3 DEF Sortable
<1>2. ASSUME IInv, phase = "circular", Sortable PROVE FALSE
  <2> DEFINE S == Nodes \ Sorted
  <2>1. TypeOK /\ SortInv
    BY <1>2 DEF IInv
  <2>2. Sorted \subseteq Nodes
    BY <2>1, RangeOfSeq DEF TypeOK, Sorted
  <2>3. S # {} /\ queue = {}
    BY <1>2, <2>1, <2>2 DEF SortInv
  <2>4. PICK n \in S : DepSet(n) \cap S = {}
    BY <1>2, <2>3 DEF Sortable
  <2>5. DepSet(n) \cap Sorted = DepSet(n) /\ Cardinality(DepSet(n)) = Len(Deps(n))
    BY <1>2, <2>4 DEF Sortable
  <2>6. inDegree[n] = Len(Deps(n)) - Len(Deps(n)) /\ Len(Deps(n)) \in Nat
    BY <2>1, <2>5, GraphFacts DEF SortInv, TypeOK
  <2>7. n \in queue \cup Sorted
    BY <2>1, <2>6 DEF SortInv
  <2> QED
    BY <2>3, <2>7
<1>3. IInv => AcceptsExactly
  BY <1>1, <1>2 DEF AcceptsExactly, IInv, SortInv
<1> QED
  BY <1>3, Invariance, PTL

----------------------------------------------------------------------------
(* Refinement: the call implements DagExecution.                           *)

LEMMA BusyIsRunning ==
  ASSUME IInv
  PROVE  Dag!Busy = Running
BY DEF IInv, Dag!Busy, Running, TaskOf, TypeOK, GraphOf, Nodes

(* The instance brings its own copy of Cardinality.                        *)
LEMMA SameCardinality == \A S : Dag!Cardinality(S) = Cardinality(S)
BY Zenon DEF Dag!Cardinality, Cardinality, Dag!IsFiniteSet, IsFiniteSet

(* A call of execute_parallel either refuses the batch before any tool     *)
(* starts, or runs every tool once, after its dependencies, at most        *)
(* MaxParallelism at a time.                                               *)
THEOREM Refinement == Spec => ImplementsDag
<1> DEFINE task == [n \in Nodes |-> TaskOf(n)]
           verdict == CASE phase = "returned" -> "returned"
                        [] phase = "circular" -> "refused"
                        [] OTHER              -> "pending"
<1>1. Init => Dag!Init
  BY DEF Init, Dag!Init, GraphOf, TaskOf, Nodes
<1>2. IInv /\ IInv' /\ DependenciesFirst /\ [Next]_vars => [Dag!Next]_(Dag!vars)
  <2> SUFFICES ASSUME IInv, IInv', DependenciesFirst, [Next]_vars
               PROVE  [Dag!Next]_(Dag!vars)
    OBVIOUS
  <2>1. TypeOK /\ RunInv
    BY DEF IInv
  <2>2. invs' = invs
    BY DEF Next, vars, SortNode, SortDone, GroupLevel, GroupDone, StartLevel,
           LevelDone, Return, Task, Acquire, Expire, Finish
  <2>3. /\ Nodes' = Nodes /\ GraphOf(invs)' = GraphOf(invs)
        /\ DOMAIN GraphOf(invs) = Nodes
        /\ \A n \in Nodes : GraphOf(invs)[n] = DepSet(n)
    BY <2>2, GraphFixed DEF GraphOf, Nodes, DepSet, Deps
  <2>4. ASSUME \A n \in Nodes : TaskOf(n)' = TaskOf(n)
        PROVE  task' = task
    BY <2>3, <2>4
  <2>5. ASSUME phase' = phase \/ (/\ phase \in {"sort", "group", "run", "gather"}
                                  /\ phase' \in {"sort", "group", "run", "gather"})
        PROVE  verdict' = verdict
    BY <2>5
  <2>6. phase \in {"sort", "group", "run", "gather"} => verdict = "pending"
    OBVIOUS
  <2>7. CASE SortNode \/ GroupLevel \/ GroupDone \/ LevelDone \/ UNCHANGED vars
    <3>1. status' = status
      BY <2>7 DEF SortNode, GroupLevel, GroupDone, LevelDone, runVars, vars
    <3>2. task' = task
      BY <2>4, <3>1 DEF TaskOf
    <3>3. verdict' = verdict
      BY <2>5, <2>7 DEF SortNode, GroupLevel, GroupDone, LevelDone, vars
    <3> QED
      BY <2>3, <3>2, <3>3 DEF Dag!vars
  <2>8. CASE SortDone
    <3>1. status' = status /\ phase = "sort"
      BY <2>8 DEF SortDone, runVars
    <3>2. task' = task
      BY <2>4, <3>1 DEF TaskOf
    <3>3. CASE phase' = "group"
      <4>1. verdict' = verdict
        BY <2>5, <3>1, <3>3
      <4> QED
        BY <2>3, <3>2, <4>1 DEF Dag!vars
    <3>4. CASE phase' = "circular"
      <4>1. \A n \in Nodes : task[n] = "idle"
        BY <2>1, <3>1 DEF RunInv, TaskOf
      <4>2. verdict = "pending" /\ verdict' = "refused"
        BY <2>6, <3>1, <3>4
      <4> QED
        BY <2>3, <3>2, <4>1, <4>2 DEF Dag!Next, Dag!Refuse
    <3> QED
      BY <2>8, <3>3, <3>4 DEF SortDone
  <2>9. CASE StartLevel
    <3>1. \A n \in Nodes : TaskOf(n)' = TaskOf(n)
      <4>1. \A n \in levels[level + 1] : n \in Nodes => status[n] = "idle"
        <5>1. level + 1 \in DOMAIN levels /\ level + 1 > level
          BY <2>1, <2>9, LenProperties DEF StartLevel, TypeOK
        <5> QED
          BY <2>1, <5>1 DEF RunInv
      <4> QED
        BY <2>9, <4>1 DEF StartLevel, TaskOf
    <3>2. verdict' = verdict
      BY <2>5, <2>9 DEF StartLevel
    <3> QED
      BY <2>3, <2>4, <3>1, <3>2 DEF Dag!vars
  <2>10. ASSUME NEW n \in Nodes, Acquire(n) PROVE Dag!Next
    <3>1. /\ status[n] = "waiting" /\ permits > 0
          /\ status' = [status EXCEPT ![n] = "running"] /\ phase' = phase
      BY <2>10 DEF Acquire
    <3>2. verdict = "pending" /\ verdict' = verdict
      BY <2>5, <2>6, <3>1, BusyTask
    <3>3. task[n] = "idle" /\ task' = [task EXCEPT ![n] = "busy"]
      BY <2>1, <2>3, <3>1 DEF TaskOf, TypeOK
    <3>4. \A d \in DepSet(n) : d \in Nodes /\ task[d] = "done"
      BY <3>1 DEF DependenciesFirst, TaskOf
    <3>5. Dag!Cardinality(Dag!Busy) < MaxParallelism
      <4>1. Cardinality(Running) < MaxParallelism
        BY <2>1, <3>1, RunningFinite, MaxParallelismAssumption
           DEF RunInv, PermitsConserved, TypeOK
      <4> QED
        BY <4>1, BusyIsRunning, SameCardinality
    <3>6. \A d \in GraphOf(invs)[n] : d \in DOMAIN GraphOf(invs) /\ task[d] = "done"
      BY <2>3, <3>4
    <3>7. Dag!Start(n)
      <4>1. verdict = "pending" /\ task[n] = "idle"
        BY <3>2, <3>3
      <4>2. GraphOf(invs)' = GraphOf(invs) /\ verdict' = verdict
        BY <2>3, <3>2
      <4>3. task' = [task EXCEPT ![n] = "busy"]
        BY <3>3
      <4> HIDE DEF task, verdict
      <4> QED
        BY <3>5, <3>6, <4>1, <4>2, <4>3, Zenon DEF Dag!Start, task, verdict
    <3> QED
      BY <2>3, <3>7 DEF Dag!Next
  <2>11. ASSUME NEW n \in Nodes, Expire(n) PROVE UNCHANGED Dag!vars
    <3>1. status[n] = "running" /\ status' = [status EXCEPT ![n] = "expired"]
          /\ phase' = phase
      BY <2>11 DEF Expire
    <3>2. \A m \in Nodes : TaskOf(m)' = TaskOf(m)
      BY <2>1, <3>1 DEF TaskOf, TypeOK
    <3> QED
      BY <2>3, <2>4, <2>5, <3>1, <3>2 DEF Dag!vars
  <2>12. ASSUME NEW n \in Nodes, NEW how \in Outcomes, Finish(n, how) PROVE Dag!Next
    <3>1. /\ status[n] \in {"running", "expired"}
          /\ status' = [status EXCEPT ![n] = "done"] /\ phase' = phase
      BY <2>12 DEF Finish
    <3>2. task[n] = "busy" /\ task' = [task EXCEPT ![n] = "done"]
      BY <2>1, <2>3, <3>1 DEF TaskOf, TypeOK
    <3>3. verdict' = verdict
      BY <2>5, <3>1
    <3> QED
      BY <2>3, <3>2, <3>3 DEF Dag!Next, Dag!Finish
  <2>13. CASE Return
    <3>1. /\ phase = "run" /\ phase' = "returned" /\ status' = status
          /\ \A n \in Nodes : status[n] = "done"
      BY <2>13, AllResultsTotal DEF Return
    <3>2. task' = task /\ \A n \in Nodes : task[n] = "done"
      BY <2>4, <3>1 DEF TaskOf
    <3>3. verdict = "pending" /\ verdict' = "returned"
      BY <3>1
    <3> QED
      BY <2>3, <3>2, <3>3 DEF Dag!Next, Dag!Return
  <2> QED
    BY <2>7, <2>8, <2>9, <2>10, <2>11, <2>12, <2>13 DEF Next, Task
<1> QED
  BY <1>1, <1>2, Invariance, DependenciesCorrect, PTL DEF Spec, ImplementsDag, Dag!Spec
=============================================================================
