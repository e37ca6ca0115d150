----------------------- MODULE SessionStoreRedisProofs ----------------------
(***************************************************************************)
(* Proofs about the Redis session store, for any users, callers, methods   *)
(* in use, lifetimes and limit.                                            *)
(***************************************************************************)
EXTENDS SessionStoreRedis, FiniteSetTheorems, SequenceTheorems, TLAPS

----------------------------------------------------------------------------
(* The invariant *)

Created == 1..(nextId - 1)

(* The commands callers send, when n sessions were created.                *)
Command(n) ==
  [c : {"read"}, s : 1..n, cutoff : Nat, must : BOOLEAN]
    \cup [c : {"touch", "exists", "meta", "extend", "owner", "unlist"}, s : 1..n]
    \cup [c : {"ttl"}, s : 1..n, ttl : Ttls]
    \cup [c : {"limit", "members", "membersToDelete"}, u : Users]
    \cup [c : {"dropList"}, u : Users, ids : SUBSET (1..n)]
    \cup [c : {"store", "listTtl"}, u : Users, ttl : Ttls]
    \cup [c : {"push"}, s : 1..n, u : Users]
    \cup [c : {"del"}, s : 1..n, known : BOOLEAN]
    \cup [c : {"scan", "report"}, cutoff : Nat]
    \cup [c : {"sweep"}]

Hash == [full : BOOLEAN, lastAccessed : Nat, deadline : Nat]

List(n) == [ids : Seq(1..n), deadline : Nat]

(* Redis and the books kept about it; the callers.                         *)
StoreType ==
  /\ now \in 0..MaxTime
  /\ nextId \in Nat \ {0}
  /\ owner \in Seq(Users)
  /\ Len(owner) = nextId - 1
  /\ Stored \subseteq Created
  /\ \A s \in Stored : hash[s] \in Hash /\ hash[s].lastAccessed <= now
  /\ lists \in [Users -> List(nextId - 1)]

CallersType ==
  /\ aborts \in Nat
  /\ revoked \subseteq Created
  /\ found \in [Callers -> SUBSET Created]
  /\ todo \in [Callers -> Seq(Command(nextId - 1))]

TypeInv == StoreType /\ CallersType

(* Whether one method may send a before b.                                 *)
Before(a, b) ==
  /\ a.c \notin {"store", "listTtl", "membersToDelete", "dropList"}
  /\ b.c = "ttl" => a.c \in {"exists", "extend"} /\ a.s = b.s
  /\ b.c = "push" => a.c = "ttl"
  /\ b.c = "listTtl" => a.c \in {"ttl", "push"}
  /\ b.c = "dropList" => a.c \in {"owner", "del", "unlist"}

Ordered(cmds) == \A i, j \in DOMAIN cmds : i < j => Before(cmds[i], cmds[j])

InOrder == \A w \in Callers : Ordered(todo[w])

(* What a caller has still to send, and what after its next command.       *)
Waiting(w) == Range(todo[w])
Rest(w) == Range(Tail(todo[w]))

(* LREM comes after the DEL; RPUSH goes to the list of the owner.          *)
RightCmd(k) ==
  /\ k.c = "unlist" => k.s \in revoked
  /\ k.c = "push" => k.u = owner[k.s]

RightCmds == \A w \in Callers : \A k \in Waiting(w) : RightCmd(k)

----------------------------------------------------------------------------
(* Without() *)

(* A set of numbers below a bound is finite, and so is every part of it.   *)
LEMMA RankFinite ==
  ASSUME NEW S, S \subseteq Nat, IsFiniteSet(S), NEW i \in S
  PROVE  /\ IsFiniteSet({j \in S : j <= i})
         /\ Rank(S, i) \in 1..Cardinality(S)
<1>0. i \in Nat
  OBVIOUS
<1> DEFINE low == {j \in S : j <= i}
<1>1. IsFiniteSet(low) /\ Cardinality(low) <= Cardinality(S)
  BY FS_Subset
<1>2. Cardinality(low) \in Nat /\ Cardinality(S) \in Nat
  BY <1>1, FS_CardinalityType
<1>3. i \in low
  BY <1>0
<1>4. Cardinality(low) # 0
  BY <1>1, <1>3, FS_EmptySet
<1>5. QED
  BY <1>1, <1>2, <1>4 DEF Rank

(* Of two members of a set of numbers the larger one has the larger rank.  *)
LEMMA RankMonotone ==
  ASSUME NEW S, S \subseteq Nat, IsFiniteSet(S),
         NEW i \in S, NEW j \in S, i < j
  PROVE  Rank(S, i) < Rank(S, j)
<1> DEFINE low(k) == {m \in S : m <= k}
<1>1. IsFiniteSet(low(j)) /\ IsFiniteSet(low(i))
  BY FS_Subset
<1>2. low(i) \in SUBSET low(j)
  <2>1. \A m \in S : m <= i => m <= j
    OBVIOUS
  <2>2. QED
    BY <2>1
<1>3. j \in low(j) /\ j \notin low(i)
  OBVIOUS
<1>4. Cardinality(low(i)) <= Cardinality(low(j)) /\ Cardinality(low(j)) # Cardinality(low(i))
  <2> HIDE DEF low
  <2>1. QED BY <1>1, <1>2, <1>3, FS_Subset
<1>5. Cardinality(low(i)) \in Nat /\ Cardinality(low(j)) \in Nat
  <2> HIDE DEF low
  <2>1. QED BY <1>1, FS_CardinalityType
<1>6. QED
  BY <1>4, <1>5 DEF Rank

(* The n-th member exists: the ranks of a set are 1..Cardinality(set).     *)
LEMMA NthExists ==
  ASSUME NEW S, S \subseteq Nat, IsFiniteSet(S), NEW n \in 1..Cardinality(S)
  PROVE  Nth(S, n) \in S /\ Rank(S, Nth(S, n)) = n
<1> DEFINE T == 1..Cardinality(S)
           rank == [i \in S |-> Rank(S, i)]
<1>1. rank \in [S -> T]
  BY RankFinite
<1>2. ASSUME NEW i \in S, NEW j \in S, i # j
      PROVE  rank[i] # rank[j]
  <2>1. i \in Nat /\ j \in Nat
    OBVIOUS
  <2>2. Rank(S, i) \in Nat /\ Rank(S, j) \in Nat
    <3>1. Rank(S, i) \in 1..Cardinality(S) /\ Rank(S, j) \in 1..Cardinality(S)
      BY RankFinite
    <3>2. QED
      BY <3>1
  <2>3. CASE i < j
    <3>1. Rank(S, i) < Rank(S, j)
      BY <2>3, RankMonotone
    <3>2. QED
      BY <2>2, <3>1
  <2>4. CASE j < i
    <3>1. Rank(S, j) < Rank(S, i)
      BY <2>4, RankMonotone
    <3>2. QED
      BY <2>2, <3>1
  <2>5. QED
    BY <1>2, <2>1, <2>3, <2>4
<1>3. rank \in Injection(S, T)
  <2> HIDE DEF rank, T
  <2>1. QED BY <1>1, <1>2 DEF Injection, IsInjective
<1>4. Cardinality(S) \in Nat
  BY FS_CardinalityType
<1>5. IsFiniteSet(T) /\ Cardinality(T) = Cardinality(S)
  BY <1>4, FS_Interval
<1>6. rank \in Surjection(S, T)
  <2> HIDE DEF rank, T
  <2>1. QED BY <1>3, <1>5, FS_Injection
<1>7. \E i \in S : rank[i] = n
  <2> HIDE DEF rank
  <2>1. QED BY <1>6 DEF Surjection
<1>8. \E i \in S : Rank(S, i) = n
  BY <1>7
<1>9. QED
  BY <1>8 DEF Nth

(* Removing ids from a list takes out these and nothing else.              *)
LEMMA WithoutCorrect ==
  ASSUME NEW X, NEW list \in Seq(X), NEW ids
  PROVE  /\ Without(list, ids) \in Seq(X)
         /\ Range(Without(list, ids)) = Range(list) \ ids
         /\ Len(Without(list, ids)) <= Len(list)
<1> DEFINE stay == Staying(list, ids)
           N == Cardinality(stay)
           rest == Without(list, ids)
<1>1. stay \subseteq 1..Len(list) /\ stay \subseteq Nat
  BY DEF Staying
<1>2. IsFiniteSet(stay)
  BY <1>1, FS_Interval, FS_Subset
<1>3. N \in Nat
  BY <1>2, FS_CardinalityType
<1>4. \A n \in 1..N : Nth(stay, n) \in stay /\ Rank(stay, Nth(stay, n)) = n
  <2> HIDE DEF stay
  <2>1. QED BY <1>1, <1>2, NthExists
<1>5. rest = [n \in 1..N |-> list[Nth(stay, n)]]
  BY DEF Without
<1> HIDE DEF rest
<1>6. \A i \in stay : i \in DOMAIN list /\ list[i] \in X /\ list[i] \notin ids
  BY DEF Staying
<1>7. rest \in [1..N -> X]
  <2> HIDE DEF stay, N
  <2>1. QED BY <1>4, <1>5, <1>6
<1>8. rest \in Seq(X)
  <2> HIDE DEF stay, N
  <2>1. QED BY <1>3, <1>7
<1>9. \A i \in stay : Rank(stay, i) \in 1..N /\ Nth(stay, Rank(stay, i)) = i
  <2> HIDE DEF stay
  <2>1. ASSUME NEW i \in stay PROVE Rank(stay, i) \in 1..N
    BY <1>1, <1>2, RankFinite
  <2>2. ASSUME NEW i \in stay PROVE Nth(stay, Rank(stay, i)) = i
    <3> DEFINE k == Nth(stay, Rank(stay, i))
    <3>1. k \in stay /\ Rank(stay, k) = Rank(stay, i)
      BY <1>4, <2>1, <2>2
    <3> HIDE DEF k
    <3>2. Rank(stay, i) \in Nat
      BY <2>1, <1>3
    <3>3. ~(k < i)
      <4>1. k < i => Rank(stay, k) < Rank(stay, i)
        BY <1>1, <1>2, <3>1, RankMonotone
      <4>2. QED BY <4>1, <3>1, <3>2
    <3>4. ~(i < k)
      <4>1. i < k => Rank(stay, i) < Rank(stay, k)
        BY <1>1, <1>2, <3>1, RankMonotone
      <4>2. QED BY <4>1, <3>1, <3>2
    <3>5. k \in Nat /\ i \in Nat
      BY <1>1, <3>1
    <3>6. k = i
      BY <3>3, <3>4, <3>5
    <3>7. QED
      BY <3>6 DEF k
  <2>3. QED
    BY <2>1, <2>2
<1>10. Range(rest) = {rest[n] : n \in 1..N}
  BY <1>5 DEF Range
<1>11. Range(list) = {list[i] : i \in DOMAIN list}
  BY DEF Range
<1>12. \A x : x \in Range(rest) => x \in Range(list) /\ x \notin ids
  <2> HIDE DEF stay, N
  <2>1. QED BY <1>4, <1>5, <1>6, <1>10, <1>11
<1>13. \A x : x \in Range(list) /\ x \notin ids => x \in Range(rest)
  <2> SUFFICES ASSUME NEW x, x \in Range(list), x \notin ids
               PROVE  x \in Range(rest)
    OBVIOUS
  <2>1. PICK i \in DOMAIN list : list[i] = x
    BY <1>11
  <2>2. i \in stay
    BY <2>1 DEF Staying
  <2> HIDE DEF stay, N
  <2>3. rest[Rank(stay, i)] = x /\ Rank(stay, i) \in 1..N
    BY <1>5, <1>9, <2>1, <2>2
  <2>4. QED
    BY <1>10, <2>3
<1>14. Len(rest) = N
  <2> HIDE DEF stay, N
  <2>1. QED BY <1>3, <1>7
<1>15. N <= Len(list)
  <2>1. Len(list) \in Nat
    OBVIOUS
  <2> HIDE DEF stay
  <2>2. IsFiniteSet(1..Len(list)) /\ Cardinality(1..Len(list)) = Len(list)
    BY <2>1, FS_Interval
  <2>3. QED
    BY <1>1, <2>2, FS_Subset
<1>16. QED
  BY <1>8, <1>12, <1>13, <1>14, <1>15 DEF rest

----------------------------------------------------------------------------
(* Commands and their order *)

(* The fields a command has, by its kind.                                  *)
LEMMA CommandFields ==
  ASSUME NEW n, NEW k \in Command(n)
  PROVE  /\ k.c \in {"read", "touch", "exists", "meta", "extend", "owner", "unlist",
                     "ttl", "push", "del"} => k.s \in 1..n
         /\ k.c \in {"ttl", "store", "listTtl"} => k.ttl \in Ttls
         /\ k.c \in {"limit", "members", "membersToDelete", "dropList", "store",
                     "listTtl", "push"} => k.u \in Users
         /\ k.c \in {"read", "scan", "report"} => k.cutoff \in Nat
         /\ k.c = "dropList" => k.ids \subseteq 1..n
BY DEF Command

(* A command stays one as sessions are created.                            *)
LEMMA CommandMonotone ==
  ASSUME NEW n \in Nat, NEW m \in Nat, n <= m
  PROVE  Command(n) \subseteq Command(m)
<1>1. 1..n \subseteq 1..m
  OBVIOUS
<1>2. QED
  BY <1>1 DEF Command

(* The commands about a session that was created.                          *)
LEMMA CommandMade ==
  ASSUME NEW n, NEW s \in 1..n
  PROVE  /\ \A k \in Nat : ReadCmd(s, k) \in Command(n)
         /\ DeleteCmd(s) \in Command(n)
         /\ \A c \in {"touch", "exists", "meta", "extend", "owner", "unlist"} :
              [c |-> c, s |-> s] \in Command(n)
         /\ \A ttl \in Ttls : [c |-> "ttl", s |-> s, ttl |-> ttl] \in Command(n)
         /\ \A u \in Users : [c |-> "push", s |-> s, u |-> u] \in Command(n)
         /\ \A b \in BOOLEAN : [c |-> "del", s |-> s, known |-> b] \in Command(n)
         /\ [c |-> "read", s |-> s, cutoff |-> 0, must |-> TRUE] \in Command(n)
BY DEF Command, ReadCmd, DeleteCmd

(* The commands about a user.                                              *)
LEMMA CommandMadeForUser ==
  ASSUME NEW n, NEW u \in Users
  PROVE  /\ \A c \in {"limit", "members", "membersToDelete"} :
              [c |-> c, u |-> u] \in Command(n)
         /\ \A ids \in SUBSET (1..n) : DropListCmd(u, ids) \in Command(n)
         /\ \A c \in {"store", "listTtl"} : \A ttl \in Ttls :
              [c |-> c, u |-> u, ttl |-> ttl] \in Command(n)
BY DEF Command, DropListCmd

(* The commands about all sessions.                                        *)
LEMMA CommandMadeForTime ==
  ASSUME NEW n, NEW k \in Nat
  PROVE  /\ [c |-> "scan", cutoff |-> k] \in Command(n)
         /\ [c |-> "report", cutoff |-> k] \in Command(n)
         /\ [c |-> "sweep"] \in Command(n)
BY DEF Command

(* cmds may take the place of command h wherever h stood.                  *)
Replaces(h, cmds) ==
  /\ Ordered(cmds)
  /\ \A k \in Range(cmds) : \A b : Before(h, b) => Before(k, b)

(* A list that is not empty is its head and the rest.                      *)
LEMMA HeadAndRest ==
  ASSUME NEW X, NEW t \in Seq(X), t # <<>>
  PROVE  /\ Head(t) \in X /\ Tail(t) \in Seq(X)
         /\ Range(t) = {Head(t)} \cup Range(Tail(t))
         /\ Range(Tail(t)) \subseteq X
<1>1. Len(t) \in Nat /\ Len(t) >= 1 /\ DOMAIN t = 1..Len(t)
  OBVIOUS
<1>2. Head(t) = t[1] /\ Head(t) \in X /\ Tail(t) \in Seq(X) /\ DOMAIN Tail(t) = 1..(Len(t) - 1)
  BY <1>1
<1>3. \A i \in 1..(Len(t) - 1) : Tail(t)[i] = t[i + 1] /\ i + 1 \in DOMAIN t
  BY <1>1
<1>4. \A i \in DOMAIN t : i = 1 \/ (i - 1 \in 1..(Len(t) - 1) /\ (i - 1) + 1 = i)
  BY <1>1
<1>5. \A x \in Range(Tail(t)) : x \in Range(t) /\ x \in X
  BY <1>1, <1>2, <1>3 DEF Range
<1>6. \A x \in Range(t) : x = Head(t) \/ x \in Range(Tail(t))
  BY <1>1, <1>2, <1>3, <1>4 DEF Range
<1>7. Head(t) \in Range(t)
  BY <1>1, <1>2 DEF Range
<1>8. QED
  BY <1>2, <1>5, <1>6, <1>7

(* What is left of commands in order is in order, and comes after the      *)
(* first.                                                                  *)
LEMMA RestInOrder ==
  ASSUME NEW X, NEW t \in Seq(X), t # <<>>, Ordered(t)
  PROVE  /\ Ordered(Tail(t))
         /\ \A k \in Range(Tail(t)) : Before(Head(t), k)
<1>1. Len(t) \in Nat /\ Len(t) >= 1 /\ DOMAIN t = 1..Len(t)
  OBVIOUS
<1>2. Head(t) = t[1] /\ DOMAIN Tail(t) = 1..(Len(t) - 1)
  BY <1>1
<1>3. \A i \in 1..(Len(t) - 1) : Tail(t)[i] = t[i + 1] /\ i + 1 \in DOMAIN t /\ 1 < i + 1
  BY <1>1
<1>4. \A i, j \in 1..(Len(t) - 1) : i < j => i + 1 < j + 1
  BY <1>1
<1>5. Ordered(Tail(t))
  BY <1>2, <1>3, <1>4 DEF Ordered
<1>6. \A k \in Range(Tail(t)) : Before(Head(t), k)
  BY <1>1, <1>2, <1>3 DEF Ordered, Range
<1>7. QED
  BY <1>5, <1>6

(* Joining two lists of commands.                                          *)
LEMMA JoinedInOrder ==
  ASSUME NEW X, NEW p \in Seq(X), NEW q \in Seq(X)
  PROVE  /\ p \o q \in Seq(X)
         /\ Range(p \o q) = Range(p) \cup Range(q)
         /\ /\ Ordered(p) /\ Ordered(q)
            /\ \A a \in Range(p) : \A b \in Range(q) : Before(a, b)
            => Ordered(p \o q)
<1> DEFINE r == p \o q
<1>1. /\ Len(p) \in Nat /\ Len(q) \in Nat
      /\ DOMAIN p = 1..Len(p) /\ DOMAIN q = 1..Len(q)
      /\ r \in Seq(X) /\ DOMAIN r = 1..(Len(p) + Len(q))
  OBVIOUS
<1>2. \A i \in DOMAIN r : i \in DOMAIN p \/ i - Len(p) \in DOMAIN q
  BY <1>1
<1>3. \A i \in DOMAIN p : i \in DOMAIN r /\ r[i] = p[i]
  BY <1>1
<1>4. \A i \in DOMAIN r : i \notin DOMAIN p => r[i] = q[i - Len(p)]
  BY <1>1
<1>5. \A i \in DOMAIN q : /\ i + Len(p) \in DOMAIN r /\ i + Len(p) \notin DOMAIN p
                          /\ (i + Len(p)) - Len(p) = i
  BY <1>1
<1>6. \A i, j \in DOMAIN r : i < j => /\ j \in DOMAIN p => i \in DOMAIN p
                                     /\ i - Len(p) < j - Len(p)
  BY <1>1
<1> HIDE DEF r
<1>7. Range(r) = Range(p) \cup Range(q)
  <2>1. \A x \in Range(r) : x \in Range(p) \/ x \in Range(q)
    BY <1>2, <1>3, <1>4 DEF Range
  <2>2. \A x \in Range(p) : x \in Range(r)
    BY <1>3 DEF Range
  <2>3. \A x \in Range(q) : x \in Range(r)
    <3> SUFFICES ASSUME NEW i \in DOMAIN q PROVE q[i] \in Range(r)
      BY DEF Range
    <3>1. i + Len(p) \in DOMAIN r /\ r[i + Len(p)] = q[i]
      BY <1>4, <1>5
    <3>2. QED
      BY <3>1 DEF Range
  <2>4. QED
    BY <2>1, <2>2, <2>3
<1>8. ASSUME Ordered(p), Ordered(q),
             \A a \in Range(p) : \A b \in Range(q) : Before(a, b)
      PROVE  Ordered(r)
  <2> SUFFICES ASSUME NEW i \in DOMAIN r, NEW j \in DOMAIN r, i < j
               PROVE  Before(r[i], r[j])
    BY DEF Ordered
  <2>1. CASE j \in DOMAIN p
    BY <1>3, <1>6, <1>8, <2>1 DEF Ordered
  <2>2. CASE j \notin DOMAIN p /\ i \in DOMAIN p
    <3>1. r[i] \in Range(p) /\ r[j] \in Range(q)
      BY <1>2, <1>3, <1>4, <2>2 DEF Range
    <3>2. QED
      BY <3>1, <1>8
  <2>3. CASE j \notin DOMAIN p /\ i \notin DOMAIN p
    <3>1. r[i] = q[i - Len(p)] /\ r[j] = q[j - Len(p)]
      BY <1>4, <2>3
    <3>2. i - Len(p) \in DOMAIN q /\ j - Len(p) \in DOMAIN q /\ i - Len(p) < j - Len(p)
      BY <1>2, <1>6, <2>3
    <3>3. QED
      BY <3>1, <3>2, <1>8 DEF Ordered
  <2>4. QED
    BY <2>1, <2>2, <2>3
<1>9. QED
  BY <1>1, <1>7, <1>8 DEF r

----------------------------------------------------------------------------
(* What a step does to the commands a caller has still to send.            *)

(* RightCmd(k) after the step, for a command k of before it.               *)
RightNext(k) ==
  /\ k.c = "unlist" => k.s \in revoked'
  /\ k.c = "push" => k.u = owner'[k.s]

(* The next command is sent, and cmds take its place.                      *)
GoesOn(w, cmds) ==
  /\ todo[w] # <<>>
  /\ todo' = [todo EXCEPT ![w] = cmds \o Tail(todo[w])]
  /\ cmds \in Seq(Command(nextId' - 1))
  /\ Replaces(Cmd(w), cmds)
  /\ \A k \in Range(cmds) : RightNext(k)

(* The method ends.                                                        *)
Stops(w) ==
  /\ todo[w] # <<>>
  /\ todo' = [todo EXCEPT ![w] = <<>>]

(* A method begins.                                                        *)
Starts(w, cmds) ==
  /\ todo[w] = <<>>
  /\ todo' = [todo EXCEPT ![w] = cmds]
  /\ cmds \in Seq(Command(nextId' - 1))
  /\ Ordered(cmds)
  /\ \A k \in Range(cmds) : k.c \notin {"unlist", "push"}

Moves(w) == \/ \E cmds : GoesOn(w, cmds)
            \/ Stops(w)
            \/ \E cmds : Starts(w, cmds)

(* The books that are kept only grow.                                      *)
Grows ==
  /\ nextId' \in Nat /\ nextId <= nextId'
  /\ revoked \subseteq revoked'
  /\ owner' = owner \/ \E u : owner' = Append(owner, u)

BooksType ==
  /\ aborts' \in Nat
  /\ revoked' \subseteq Created'
  /\ found' \in [Callers -> SUBSET (Created')]

(* No commands are in order and may replace any.                           *)
LEMMA EmptyList ==
  /\ \A X : <<>> \in Seq(X)
  /\ Range(<<>>) = {}
  /\ Ordered(<<>>)
  /\ \A h : Replaces(h, <<>>)
BY DEF Range, Ordered, Replaces

(* A list of one command.                                                  *)
LEMMA OneCommand ==
  ASSUME NEW X, NEW k \in X
  PROVE  /\ <<k>> \in Seq(X)
         /\ Range(<<k>>) = {k}
         /\ Ordered(<<k>>)
<1>1. DOMAIN <<k>> = {1} /\ <<k>>[1] = k
  OBVIOUS
<1>2. QED
  BY <1>1 DEF Range, Ordered

(* What a caller at work sends next, and what it has left then.            *)
LEMMA Sent ==
  ASSUME TypeInv, NEW w \in Callers, todo[w] # <<>>
  PROVE  /\ Cmd(w) \in Command(nextId - 1)
         /\ Tail(todo[w]) \in Seq(Command(nextId - 1))
         /\ Waiting(w) = {Cmd(w)} \cup Rest(w)
         /\ Rest(w) \subseteq Command(nextId - 1)
         /\ InOrder => /\ Ordered(Tail(todo[w]))
                       /\ \A k \in Rest(w) : Before(Cmd(w), k)
<1>1. todo[w] \in Seq(Command(nextId - 1))
  BY DEF TypeInv, CallersType
<1>2. QED
  BY <1>1, HeadAndRest, RestInOrder DEF Cmd, Waiting, Rest, InOrder

(* Commands and ids stay typed when the books grow.                        *)
LEMMA CommandsKept ==
  ASSUME TypeInv, Grows
  PROVE  /\ Command(nextId - 1) \subseteq Command(nextId' - 1)
         /\ \A t \in Seq(Command(nextId - 1)) : t \in Seq(Command(nextId' - 1))
         /\ Created \subseteq Created'
<1>1. nextId - 1 \in Nat /\ nextId' - 1 \in Nat /\ nextId - 1 <= nextId' - 1
  <2>1. nextId \in Nat /\ nextId # 0 /\ nextId' \in Nat /\ nextId <= nextId'
    BY DEF TypeInv, StoreType, Grows
  <2>2. ASSUME NEW a \in Nat, NEW b \in Nat, a # 0, a <= b
        PROVE  a - 1 \in Nat /\ b - 1 \in Nat /\ a - 1 <= b - 1
    BY <2>2
  <2>3. QED
    BY <2>1, <2>2
<1>2. Command(nextId - 1) \subseteq Command(nextId' - 1)
  BY <1>1, CommandMonotone
<1>3. \A t \in Seq(Command(nextId - 1)) : t \in Seq(Command(nextId' - 1))
  BY <1>2, SeqMonotonic
<1>4. Created \subseteq Created'
  BY <1>1 DEF Created
<1>5. QED
  BY <1>2, <1>3, <1>4

(* A session keeps its owner.                                              *)
LEMMA OwnerKept ==
  ASSUME TypeInv, Grows, NEW s \in Created
  PROVE  owner'[s] = owner[s] /\ owner[s] \in Users
<1>1. owner \in Seq(Users) /\ s \in 1..Len(owner)
  BY DEF TypeInv, StoreType, Created
<1>2. \A u : Append(owner, u)[s] = owner[s]
  BY <1>1
<1>3. QED
  BY <1>1, <1>2 DEF Grows

(* A command stays right when the books grow.                              *)
LEMMA RightCmdKept ==
  ASSUME TypeInv, Grows, NEW k \in Command(nextId - 1), RightCmd(k)
  PROVE  RightNext(k)
<1>1. k.c = "push" => k.s \in Created
  BY CommandFields DEF Created
<1>2. QED
  BY <1>1, OwnerKept DEF RightCmd, RightNext, Grows

(* The lists of commands that there are after a step.                      *)
LEMMA GoesOnWaiting ==
  ASSUME TypeInv, Grows, NEW w \in Callers, NEW cmds, GoesOn(w, cmds)
  PROVE  /\ todo' \in [Callers -> Seq(Command(nextId' - 1))]
         /\ Waiting(w)' = Range(cmds) \cup Rest(w)
         /\ \A v \in Callers \ {w} : Waiting(v)' = Waiting(v)
<1> DEFINE C == Command(nextId' - 1)
<1>1. cmds \in Seq(C) /\ Tail(todo[w]) \in Seq(C)
  BY Sent, CommandsKept DEF GoesOn
<1>2. \A v \in Callers : todo[v] \in Seq(C)
  BY CommandsKept DEF TypeInv, CallersType
<1> HIDE DEF C
<1>3. /\ cmds \o Tail(todo[w]) \in Seq(C)
      /\ Range(cmds \o Tail(todo[w])) = Range(cmds) \cup Rest(w)
  BY <1>1, JoinedInOrder DEF Rest
<1>4. todo' = [todo EXCEPT ![w] = cmds \o Tail(todo[w])] /\ DOMAIN todo = Callers
  BY DEF GoesOn, TypeInv, CallersType
<1>5. todo' \in [Callers -> Seq(C)]
  <2>1. todo' = [v \in Callers |-> IF v = w THEN cmds \o Tail(todo[w]) ELSE todo[v]]
    BY <1>4
  <2>2. \A v \in Callers : (IF v = w THEN cmds \o Tail(todo[w]) ELSE todo[v]) \in Seq(C)
    BY <1>2, <1>3
  <2>3. QED
    BY <2>1, <2>2
<1>6. todo'[w] = cmds \o Tail(todo[w]) /\ \A v \in Callers \ {w} : todo'[v] = todo[v]
  BY <1>4
<1>7. QED
  BY <1>3, <1>5, <1>6 DEF Waiting, C

LEMMA StopsWaiting ==
  ASSUME TypeInv, Grows, NEW w \in Callers, Stops(w)
  PROVE  /\ todo' \in [Callers -> Seq(Command(nextId' - 1))]
         /\ Waiting(w)' = {}
         /\ \A v \in Callers \ {w} : Waiting(v)' = Waiting(v)
<1> DEFINE C == Command(nextId' - 1)
<1>1. \A v \in Callers : todo[v] \in Seq(C)
  BY CommandsKept DEF TypeInv, CallersType
<1> HIDE DEF C
<1>2. <<>> \in Seq(C) /\ Range(<<>>) = {}
  BY EmptyList
<1>3. todo' = [todo EXCEPT ![w] = <<>>] /\ DOMAIN todo = Callers
  BY DEF Stops, TypeInv, CallersType
<1>4. todo'[w] = <<>> /\ \A v \in Callers \ {w} : todo'[v] = todo[v]
  BY <1>3
<1>5. todo' \in [Callers -> Seq(C)]
  <2>1. todo' = [v \in Callers |-> IF v = w THEN <<>> ELSE todo[v]]
    BY <1>3
  <2>2. QED
    BY <1>1, <1>2, <2>1
<1>6. QED
  BY <1>2, <1>4, <1>5 DEF Waiting, C

LEMMA StartsWaiting ==
  ASSUME TypeInv, Grows, NEW w \in Callers, NEW cmds, Starts(w, cmds)
  PROVE  /\ todo' \in [Callers -> Seq(Command(nextId' - 1))]
         /\ Waiting(w)' = Range(cmds)
         /\ \A v \in Callers \ {w} : Waiting(v)' = Waiting(v)
<1> DEFINE C == Command(nextId' - 1)
<1>1. \A v \in Callers : todo[v] \in Seq(C)
  BY CommandsKept DEF TypeInv, CallersType
<1>2. cmds \in Seq(C)
  BY DEF Starts
<1> HIDE DEF C
<1>3. todo' = [todo EXCEPT ![w] = cmds] /\ DOMAIN todo = Callers
  BY DEF Starts, TypeInv, CallersType
<1>4. todo'[w] = cmds /\ \A v \in Callers \ {w} : todo'[v] = todo[v]
  BY <1>3
<1>5. todo' \in [Callers -> Seq(C)]
  <2>1. todo' = [v \in Callers |-> IF v = w THEN cmds ELSE todo[v]]
    BY <1>3
  <2>2. QED
    BY <1>1, <1>2, <2>1
<1>6. QED
  BY <1>4, <1>5 DEF Waiting, C

(* Whoever moves, all callers have commands to send.                       *)
LEMMA MovesTyped ==
  ASSUME TypeInv, Grows, NEW w \in Callers, Moves(w)
  PROVE  todo' \in [Callers -> Seq(Command(nextId' - 1))]
BY GoesOnWaiting, StopsWaiting, StartsWaiting DEF Moves

(* Whoever moves, the commands of each caller stay in order.               *)
LEMMA MovesInOrder ==
  ASSUME TypeInv, InOrder, Grows, NEW w \in Callers, Moves(w)
  PROVE  InOrder'
<1>1. \A v \in Callers \ {w} : todo'[v] = todo[v]
  BY DEF Moves, GoesOn, Stops, Starts, TypeInv, CallersType
<1>2. Ordered(todo'[w])
  <2>1. ASSUME NEW cmds, GoesOn(w, cmds)
        PROVE  Ordered(todo'[w])
    <3> DEFINE C == Command(nextId' - 1)
    <3>1. cmds \in Seq(C) /\ Tail(todo[w]) \in Seq(C)
      BY <2>1, Sent, CommandsKept DEF GoesOn
    <3>2. Ordered(cmds) /\ Ordered(Tail(todo[w]))
      BY <2>1, Sent DEF GoesOn, Replaces
    <3>3. \A a \in Range(cmds) : \A b \in Range(Tail(todo[w])) : Before(a, b)
      BY <2>1, Sent DEF GoesOn, Replaces, Rest
    <3> HIDE DEF C
    <3>4. Ordered(cmds \o Tail(todo[w]))
      BY <3>1, <3>2, <3>3, JoinedInOrder
    <3>5. QED
      BY <2>1, <3>4 DEF GoesOn, TypeInv, CallersType
  <2>2. CASE Stops(w)
    BY <2>2, EmptyList DEF Stops, TypeInv, CallersType
  <2>3. ASSUME NEW cmds, Starts(w, cmds)
        PROVE  Ordered(todo'[w])
    BY <2>3 DEF Starts, TypeInv, CallersType
  <2>4. QED
    BY <2>1, <2>2, <2>3 DEF Moves
<1>3. QED
  BY <1>1, <1>2 DEF InOrder

(* Whoever moves, the commands stay right.                                 *)
LEMMA MovesRight ==
  ASSUME TypeInv, RightCmds, Grows, NEW w \in Callers, Moves(w)
  PROVE  RightCmds'
<1>1. \A v \in Callers : \A k \in Waiting(v) : RightNext(k)
  <2>1. \A v \in Callers : Waiting(v) \subseteq Command(nextId - 1)
    BY DEF TypeInv, CallersType, Waiting, Range
  <2>2. QED
    BY <2>1, RightCmdKept DEF RightCmds
<1>2. \A v \in Callers \ {w} : \A k \in Waiting(v)' : RightNext(k)
  BY <1>1, GoesOnWaiting, StopsWaiting, StartsWaiting DEF Moves
<1>3. \A k \in Waiting(w)' : RightNext(k)
  <2>1. ASSUME NEW cmds, GoesOn(w, cmds), NEW k \in Waiting(w)'
        PROVE  RightNext(k)
    <3>1. k \in Range(cmds) \/ k \in Waiting(w)
      BY <2>1, GoesOnWaiting, Sent DEF GoesOn
    <3>2. QED
      BY <1>1, <2>1, <3>1 DEF GoesOn
  <2>2. ASSUME NEW cmds, Starts(w, cmds), NEW k \in Waiting(w)'
        PROVE  RightNext(k)
    BY <2>2, StartsWaiting DEF Starts, RightNext
  <2>3. QED
    BY <2>1, <2>2, StopsWaiting DEF Moves
<1>4. QED
  BY <1>2, <1>3 DEF RightCmds, RightCmd, RightNext

----------------------------------------------------------------------------
(* What a step does to the store.                                          *)

(* The store does not change.                                              *)
LEMMA StoreKept ==
  ASSUME TypeInv, UNCHANGED <<now, hash, lists, nextId, owner>>
  PROVE  StoreType' /\ Created' = Created
BY DEF TypeInv, StoreType, Stored, Created, Hash, List

(* Only the keys of sessions change, and each keeps its type.              *)
LEMMA HashChanged ==
  ASSUME TypeInv, UNCHANGED <<now, lists, nextId, owner>>,
         Stored' \subseteq Created,
         \A s \in Stored' : hash'[s] \in Hash /\ hash'[s].lastAccessed <= now
  PROVE  StoreType'
BY DEF TypeInv, StoreType, Stored, Created, Hash, List

(* Only the lists change.                                                  *)
LEMMA ListsChanged ==
  ASSUME TypeInv, UNCHANGED <<now, hash, nextId, owner>>,
         lists' \in [Users -> List(nextId - 1)]
  PROVE  StoreType'
BY DEF TypeInv, StoreType, Stored, Created, Hash, List

(* The clock is a number.                                                  *)
LEMMA NowType ==
  ASSUME TypeInv
  PROVE  now \in Nat /\ now <= now
BY BoundAssumption DEF TypeInv, StoreType

(* HSET of last_accessed changes no deadline and makes no session whole.   *)
LEMMA HSetEffect ==
  ASSUME TypeInv, NEW s \in Created, HSet(s)
  PROVE  /\ Stored' = Stored \cup {s}
         /\ \A t \in Stored' : hash'[t] \in Hash /\ hash'[t].lastAccessed <= now
         /\ \A t \in Stored : /\ hash'[t].full = hash[t].full
                              /\ hash'[t].deadline = hash[t].deadline
         /\ s \notin Stored => ~hash'[s].full
<1>1. now \in Nat /\ now <= now
  BY NowType
<1>2. Stored' = Stored \cup {s}
  BY DEF HSet, Stored
<1>3. \A t \in Stored : hash[t] \in Hash /\ hash[t].lastAccessed <= now
  BY DEF TypeInv, StoreType
<1>4. \A t \in Stored' : hash'[t] =
         IF t # s THEN hash[t]
         ELSE IF s \in Stored THEN [hash[s] EXCEPT !.lastAccessed = now]
         ELSE [full |-> FALSE, lastAccessed |-> now, deadline |-> Forever]
  BY <1>2 DEF HSet
<1>5. ASSUME NEW h \in Hash
      PROVE  LET g == [h EXCEPT !.lastAccessed = now]
             IN  g \in Hash /\ g.lastAccessed <= now /\ g.full = h.full /\ g.deadline = h.deadline
  BY <1>1 DEF Hash
<1>6. LET g == [full |-> FALSE, lastAccessed |-> now, deadline |-> Forever]
      IN  g \in Hash /\ g.lastAccessed <= now /\ ~g.full
  BY <1>1 DEF Hash, Forever
<1>7. ASSUME NEW t \in Stored'
      PROVE  /\ hash'[t] \in Hash /\ hash'[t].lastAccessed <= now
             /\ t \in Stored => /\ hash'[t].full = hash[t].full
                                /\ hash'[t].deadline = hash[t].deadline
             /\ t \notin Stored => ~hash'[t].full
  <2>1. CASE t # s
    BY <1>2, <1>3, <1>4, <2>1
  <2>2. CASE t = s /\ s \in Stored
    BY <1>3, <1>4, <1>5, <2>2
  <2>3. CASE t = s /\ s \notin Stored
    BY <1>4, <1>6, <2>3
  <2>4. QED
    BY <2>1, <2>2, <2>3
<1>8. QED
  BY <1>2, <1>7

(* None of the books changes.                                              *)
LEMMA BooksKept ==
  ASSUME TypeInv, UNCHANGED <<nextId, owner, found, aborts, revoked>>
  PROVE  BooksType /\ Grows
BY DEF TypeInv, StoreType, CallersType, Created, BooksType, Grows

(* What the actions that belong to one command do.                         *)
Goes(w, cmds) == StoreType' /\ BooksType /\ Grows /\ GoesOn(w, cmds)
Ended(w) == StoreType' /\ BooksType /\ Grows /\ Stops(w)

(* The command that is sent.                                               *)
LEMMA SendsCommand ==
  ASSUME TypeInv, NEW w \in Callers, NEW c, Sends(w, c)
  PROVE  /\ todo[w] # <<>> /\ Cmd(w).c = c
         /\ Cmd(w) \in Command(nextId - 1)
         /\ Cmd(w) \in Waiting(w)
BY Sent DEF Sends

(* A command that puts no other in its place.                              *)
LEMMA NothingNew ==
  ASSUME NEW w \in Callers, todo[w] # <<>>, Then(w, <<>>)
  PROVE  GoesOn(w, <<>>)
BY EmptyList DEF GoesOn, Then

(* get() sets last_accessed.                                               *)
LEMMA TouchStep ==
  ASSUME TypeInv, NEW w \in Callers, Touch(w)
  PROVE  Goes(w, <<>>)
<1>1. Sends(w, "touch")
  BY DEF Touch
<1>2. Cmd(w).s \in Created
  BY <1>1, SendsCommand, CommandFields DEF Created
<1>3. StoreType'
  BY <1>2, HSetEffect, HashChanged DEF Touch, TypeInv, StoreType
<1>4. QED
  BY <1>1, <1>3, SendsCommand, NothingNew, BooksKept DEF Touch, Goes

(* update() and refresh() set fields.                                      *)
LEMMA WriteStep ==
  ASSUME TypeInv, NEW w \in Callers, Write(w)
  PROVE  Goes(w, <<>>)
<1>1. \E c \in {"meta", "extend"} : Sends(w, c)
  BY DEF Write
<1>2. Cmd(w).s \in Created
  BY <1>1, SendsCommand, CommandFields DEF Created
<1>3. StoreType'
  BY <1>2, HSetEffect, HashChanged DEF Write, TypeInv, StoreType
<1>4. QED
  BY <1>1, <1>3, SendsCommand, NothingNew, BooksKept DEF Write, Goes

(* The command that stands for another one in the same place.              *)
LEMMA OneInPlace ==
  ASSUME TypeInv, NEW w \in Callers, todo[w] # <<>>,
         NEW k \in Command(nextId' - 1), Then(w, <<k>>), RightNext(k),
         \A b : Before(Cmd(w), b) => Before(k, b)
  PROVE  GoesOn(w, <<k>>)
BY OneCommand DEF GoesOn, Then, Replaces

(* get() reads: it goes on, with or without a touch, or its method ends.   *)
LEMMA ReadStep ==
  ASSUME TypeInv, NEW w \in Callers, Read(w)
  PROVE  \/ Goes(w, <<>>)
         \/ Goes(w, <<[c |-> "touch", s |-> Cmd(w).s]>>)
         \/ Ended(w)
<1>1. Sends(w, "read")
  BY DEF Read
<1>2. Cmd(w).s \in Created /\ todo[w] # <<>> /\ Cmd(w).c = "read"
  BY <1>1, SendsCommand, CommandFields DEF Created
<1>3. StoreType' /\ Created' = Created /\ nextId' = nextId
  BY StoreKept DEF Read, store
<1>4. BooksType /\ Grows
  <2>1. found' \in [Callers -> SUBSET Created]
    BY <1>2 DEF Read, TypeInv, CallersType, Alive
  <2>2. QED
    BY <1>3, <2>1 DEF Read, BooksType, Grows, store, TypeInv, StoreType, CallersType
<1> DEFINE k == [c |-> "touch", s |-> Cmd(w).s]
<1>5. k \in Command(nextId' - 1) /\ RightNext(k)
  BY <1>2, <1>3, CommandMade DEF RightNext, Created
<1>6. \A b : Before(Cmd(w), b) => Before(k, b)
  BY <1>2 DEF Before
<1>7. \/ Then(w, <<>>) \/ Then(w, <<k>>) \/ todo' = [todo EXCEPT ![w] = <<>>]
  BY DEF Read, Ends
<1> HIDE DEF k
<1>8. CASE Then(w, <<>>)
  BY <1>2, <1>3, <1>4, <1>8, NothingNew DEF Goes
<1>9. CASE Then(w, <<k>>)
  <2>1. GoesOn(w, <<k>>)
    BY <1>2, <1>5, <1>6, <1>9, OneInPlace
  <2>2. QED
    BY <1>3, <1>4, <2>1 DEF Goes, k
<1>10. CASE todo' = [todo EXCEPT ![w] = <<>>]
  BY <1>2, <1>3, <1>4, <1>10 DEF Ended, Stops
<1>11. QED
  BY <1>7, <1>8, <1>9, <1>10

(* update() and refresh() end when the key is not there.                   *)
LEMMA ExistsStep ==
  ASSUME TypeInv, NEW w \in Callers, Exists(w)
  PROVE  \/ Goes(w, <<>>) /\ Cmd(w).s \in Stored
         \/ Ended(w) /\ Cmd(w).s \notin Stored
<1>1. Sends(w, "exists")
  BY DEF Exists
<1>2. todo[w] # <<>>
  BY <1>1, SendsCommand
<1>3. StoreType' /\ BooksType /\ Grows
  BY StoreKept, BooksKept DEF Exists, store
<1>4. CASE Cmd(w).s \in Stored
  BY <1>2, <1>3, <1>4, NothingNew DEF Exists, Goes
<1>5. CASE Cmd(w).s \notin Stored
  BY <1>2, <1>3, <1>5 DEF Exists, Ends, Ended, Stops
<1>6. QED
  BY <1>4, <1>5

(* EXPIRE of a key.                                                        *)
LEMMA ExpireStep ==
  ASSUME TypeInv, NEW w \in Callers, Expire(w)
  PROVE  Goes(w, <<>>)
<1>1. Sends(w, "ttl")
  BY DEF Expire
<1>2. Cmd(w).ttl \in Nat
  BY <1>1, SendsCommand, CommandFields, TtlAssumption
<1>3. now + Cmd(w).ttl \in Nat
  BY <1>2, NowType
<1>4. \A h \in Hash : LET g == [h EXCEPT !.deadline = now + Cmd(w).ttl]
                      IN  g \in Hash /\ g.lastAccessed = h.lastAccessed
  BY <1>3 DEF Hash
<1>5. Stored' = Stored
  BY DEF Expire, Stored
<1>6. \A t \in Stored : hash[t] \in Hash /\ hash[t].lastAccessed <= now
  BY DEF TypeInv, StoreType
<1>7. \A t \in Stored' : hash'[t] = IF t = Cmd(w).s
                                     THEN [hash[t] EXCEPT !.deadline = now + Cmd(w).ttl]
                                     ELSE hash[t]
  BY <1>5 DEF Expire
<1>8. StoreType'
  <2>1. \A t \in Stored' : hash'[t] \in Hash /\ hash'[t].lastAccessed <= now
    BY <1>4, <1>5, <1>6, <1>7
  <2>2. QED
    BY <1>5, <2>1, HashChanged DEF Expire, TypeInv, StoreType
<1>9. QED
  BY <1>1, <1>8, SendsCommand, NothingNew, BooksKept DEF Expire, Goes

(* create() deletes at most one listed session.                            *)
LEMMA LimitStep ==
  ASSUME TypeInv, NEW w \in Callers, Limit(w)
  PROVE  Goes(w, <<>>) \/ \E s \in Created : Goes(w, <<DeleteCmd(s)>>)
<1>1. Sends(w, "limit")
  BY DEF Limit
<1>2. todo[w] # <<>> /\ Cmd(w).c = "limit" /\ Cmd(w).u \in Users
  BY <1>1, SendsCommand, CommandFields
<1>3. StoreType' /\ BooksType /\ Grows /\ nextId' = nextId
  BY StoreKept, BooksKept DEF Limit, store
<1> DEFINE ids == lists[Cmd(w).u].ids
<1>4. ids \in Seq(Created)
  BY <1>2 DEF TypeInv, StoreType, List, Created
<1>5. CASE ~(Len(ids) >= MaxConcurrent)
  BY <1>2, <1>3, <1>5, NothingNew DEF Limit, Goes
<1>6. CASE Len(ids) >= MaxConcurrent
  <2>1. ids[1] \in Created
    BY <1>4, <1>6, LimitAssumption
  <2>2. Then(w, <<DeleteCmd(ids[1])>>)
    BY <1>6 DEF Limit
  <2> HIDE DEF ids
  <2>3. DeleteCmd(ids[1]) \in Command(nextId' - 1)
    BY <1>3, <2>1, CommandMade DEF Created
  <2>4. RightNext(DeleteCmd(ids[1]))
    BY DEF RightNext, DeleteCmd
  <2>5. \A b : Before(Cmd(w), b) => Before(DeleteCmd(ids[1]), b)
    BY <1>2 DEF Before, DeleteCmd
  <2>6. GoesOn(w, <<DeleteCmd(ids[1])>>)
    BY <1>2, <2>2, <2>3, <2>4, <2>5, OneInPlace
  <2>7. QED
    BY <1>3, <2>1, <2>6 DEF Goes
<1>7. QED
  BY <1>5, <1>6

(* delete() goes on with the DEL.                                          *)
LEMMA OwnerStep ==
  ASSUME TypeInv, NEW w \in Callers, Owner(w)
  PROVE  \E b \in BOOLEAN : Goes(w, <<[c |-> "del", s |-> Cmd(w).s, known |-> b]>>)
<1>1. Sends(w, "owner")
  BY DEF Owner
<1>2. todo[w] # <<>> /\ Cmd(w).c = "owner" /\ Cmd(w).s \in Created
  BY <1>1, SendsCommand, CommandFields DEF Created
<1>3. StoreType' /\ BooksType /\ Grows /\ nextId' = nextId
  BY StoreKept, BooksKept DEF Owner, store
<1> DEFINE b == Alive(Cmd(w).s)
           k == [c |-> "del", s |-> Cmd(w).s, known |-> b]
<1>4. b \in BOOLEAN
  BY DEF Alive, TypeInv, StoreType, Hash
<1>5. Then(w, <<k>>)
  BY DEF Owner
<1> HIDE DEF b
<1>6. k \in Command(nextId' - 1) /\ RightNext(k)
  BY <1>2, <1>3, <1>4, CommandMade DEF RightNext, Created
<1>7. \A x : Before(Cmd(w), x) => Before(k, x)
  BY <1>2 DEF Before
<1>8. GoesOn(w, <<k>>)
  <2> HIDE DEF k
  <2>1. QED BY <1>2, <1>5, <1>6, <1>7, OneInPlace
<1>9. QED
  BY <1>3, <1>4, <1>8 DEF Goes

(* delete() goes on with an LREM or ends.                                  *)
LEMMA DelStep ==
  ASSUME TypeInv, NEW w \in Callers, Del(w)
  PROVE  Goes(w, <<>>) \/ Goes(w, <<[c |-> "unlist", s |-> Cmd(w).s]>>)
<1>1. Sends(w, "del")
  BY DEF Del
<1>2. todo[w] # <<>> /\ Cmd(w).c = "del" /\ Cmd(w).s \in Created
  BY <1>1, SendsCommand, CommandFields DEF Created
<1>3. StoreType'
  <2>1. Stored' = Stored \ {Cmd(w).s} /\ \A t \in Stored' : hash'[t] = hash[t]
    BY DEF Del, Restrict, Stored
  <2>2. QED
    BY <2>1, HashChanged DEF Del, TypeInv, StoreType
<1>4. BooksType /\ Grows
  <2>1. nextId' = nextId /\ owner' = owner /\ found' = found /\ aborts' = aborts
    BY DEF Del
  <2>2. revoked \subseteq revoked' /\ revoked' \subseteq Created
    BY <1>2 DEF Del, TypeInv, CallersType
  <2>3. nextId \in Nat /\ nextId <= nextId
    BY DEF TypeInv, StoreType
  <2>4. QED
    BY <2>1, <2>2, <2>3 DEF BooksType, Grows, TypeInv, CallersType, Created
<1> DEFINE k == [c |-> "unlist", s |-> Cmd(w).s]
<1>5. CASE Then(w, <<>>)
  BY <1>2, <1>3, <1>4, <1>5, NothingNew DEF Goes
<1>6. CASE Then(w, <<k>>) /\ Cmd(w).s \in Stored
  <2>1. k \in Command(nextId' - 1) /\ RightNext(k)
    BY <1>2, <1>6, CommandMade DEF RightNext, Created, Del
  <2>2. \A x : Before(Cmd(w), x) => Before(k, x)
    BY <1>2 DEF Before
  <2>3. GoesOn(w, <<k>>)
    <3> HIDE DEF k
    <3>1. QED BY <1>2, <1>6, <2>1, <2>2, OneInPlace
  <2>4. QED
    BY <1>3, <1>4, <2>3 DEF Goes
<1>7. QED
  BY <1>5, <1>6 DEF Del

(* create() stores a new session and goes on with three commands.          *)
LEMMA StoreSessionStep ==
  ASSUME TypeInv, NEW w \in Callers, StoreSession(w)
  PROVE  /\ Goes(w, AfterStore(nextId, Cmd(w).u, Cmd(w).ttl))
         /\ Cmd(w).u \in Users /\ Cmd(w).ttl \in Ttls
         /\ Range(AfterStore(nextId, Cmd(w).u, Cmd(w).ttl)) =
              {[c |-> "ttl", s |-> nextId, ttl |-> Cmd(w).ttl],
               [c |-> "push", s |-> nextId, u |-> Cmd(w).u],
               [c |-> "listTtl", u |-> Cmd(w).u, ttl |-> Cmd(w).ttl]}
<1> DEFINE u == Cmd(w).u
           ttl == Cmd(w).ttl
           k1 == [c |-> "ttl", s |-> nextId, ttl |-> ttl]
           k2 == [c |-> "push", s |-> nextId, u |-> u]
           k3 == [c |-> "listTtl", u |-> u, ttl |-> ttl]
           C == Command(nextId' - 1)
<1>1. Sends(w, "store")
  BY DEF StoreSession
<1>2. todo[w] # <<>> /\ Cmd(w).c = "store" /\ u \in Users /\ ttl \in Ttls
  BY <1>1, SendsCommand, CommandFields
<1>3. /\ nextId \in Nat /\ nextId # 0 /\ nextId' = nextId + 1 /\ nextId' - 1 = nextId
      /\ owner \in Seq(Users) /\ Len(owner) = nextId - 1 /\ owner' = Append(owner, u)
  BY DEF StoreSession, TypeInv, StoreType
<1>4. /\ owner' \in Seq(Users) /\ Len(owner') = nextId' - 1 /\ owner'[nextId] = u
  BY <1>2, <1>3
<1>5. Created' = 1..nextId /\ Created \subseteq Created' /\ nextId \in Created'
  BY <1>3 DEF Created
<1>6. StoreType'
  <2>1. Stored' = Stored \cup {nextId} /\ now' = now /\ lists' = lists
    BY DEF StoreSession, Stored
  <2>2. \A t \in Stored' : hash'[t] = IF t = nextId
          THEN [full |-> TRUE, lastAccessed |-> now, deadline |-> Forever] ELSE hash[t]
    BY <2>1 DEF StoreSession
  <2>3. [full |-> TRUE, lastAccessed |-> now, deadline |-> Forever] \in Hash
    BY NowType DEF Hash, Forever
  <2>4. \A t \in Stored' : hash'[t] \in Hash /\ hash'[t].lastAccessed <= now
    BY <2>1, <2>2, <2>3, NowType DEF TypeInv, StoreType
  <2>5. lists \in [Users -> List(nextId' - 1)]
    <3>1. \A l \in List(nextId - 1) : l \in List(nextId' - 1)
      <4>1. 1..(nextId - 1) \subseteq 1..(nextId' - 1)
        BY <1>3
      <4>2. \A q \in Seq(1..(nextId - 1)) : q \in Seq(1..(nextId' - 1))
        BY <4>1, SeqMonotonic
      <4>3. QED
        BY <4>2 DEF List
    <3>2. QED
      BY <3>1 DEF TypeInv, StoreType
  <2>6. nextId' \in Nat \ {0}
    BY <1>3
  <2>7. QED
    BY <1>4, <1>5, <2>1, <2>4, <2>5, <2>6 DEF TypeInv, StoreType, Hash, List
<1>7. BooksType /\ Grows
  <2>1. nextId' \in Nat /\ nextId <= nextId'
    BY <1>3
  <2>2. \A x \in SUBSET Created : x \in SUBSET (Created')
    BY <1>5
  <2>3. QED
    BY <1>3, <1>5, <2>1, <2>2 DEF StoreSession, BooksType, Grows, TypeInv, CallersType
<1>8. k1 \in C /\ k2 \in C /\ k3 \in C
  <2>1. nextId \in 1..(nextId' - 1)
    BY <1>3
  <2>2. QED
    BY <1>2, <2>1, CommandMade, CommandMadeForUser
<1>9. AfterStore(nextId, u, ttl) = <<k1, k2, k3>>
  BY DEF AfterStore
<1>10. RightNext(k1) /\ RightNext(k2) /\ RightNext(k3)
  BY <1>4 DEF RightNext
<1>11. Before(k1, k2) /\ Before(k1, k3) /\ Before(k2, k3)
  BY DEF Before
<1>12. \A b : ~Before(Cmd(w), b)
  BY <1>2 DEF Before
<1>13. todo' = [todo EXCEPT ![w] = AfterStore(nextId, u, ttl) \o Tail(todo[w])]
  BY DEF StoreSession, Then
<1> HIDE DEF u, ttl, k1, k2, k3, C
<1>14. <<k1, k2, k3>> \in Seq(C)
  BY <1>8
<1>15. Range(<<k1, k2, k3>>) = {k1, k2, k3}
  <2>1. DOMAIN <<k1, k2, k3>> = {1, 2, 3}
    OBVIOUS
  <2>2. QED
    BY <2>1 DEF Range
<1>16. Ordered(<<k1, k2, k3>>)
  <2>1. DOMAIN <<k1, k2, k3>> = {1, 2, 3}
    OBVIOUS
  <2>2. QED
    BY <1>11, <2>1 DEF Ordered
<1>17. GoesOn(w, <<k1, k2, k3>>)
  BY <1>2, <1>9, <1>10, <1>12, <1>13, <1>14, <1>15, <1>16 DEF GoesOn, Replaces, C
<1>18. QED
  BY <1>2, <1>6, <1>7, <1>9, <1>15, <1>17 DEF Goes, k1, k2, k3, u, ttl

(* RPUSH into the list of a user.                                          *)
LEMMA PushStep ==
  ASSUME TypeInv, NEW w \in Callers, Push(w)
  PROVE  /\ Goes(w, <<>>)
         /\ Cmd(w).u \in Users /\ lists[Cmd(w).u].ids \in Seq(Created)
         /\ lists' = [lists EXCEPT ![Cmd(w).u].ids = Append(@, Cmd(w).s)]
<1>1. Sends(w, "push")
  BY DEF Push
<1>2. todo[w] # <<>> /\ Cmd(w).s \in Created /\ Cmd(w).u \in Users
  BY <1>1, SendsCommand, CommandFields DEF Created
<1>3. lists[Cmd(w).u] \in List(nextId - 1)
  BY <1>2 DEF TypeInv, StoreType
<1>4. Append(lists[Cmd(w).u].ids, Cmd(w).s) \in Seq(Created)
  BY <1>2, <1>3 DEF List, Created
<1>5. lists' = [lists EXCEPT ![Cmd(w).u].ids = Append(@, Cmd(w).s)]
  BY DEF Push
<1>6. lists' \in [Users -> List(nextId - 1)]
  BY <1>2, <1>3, <1>4, <1>5 DEF TypeInv, StoreType, List, Created
<1>7. StoreType'
  BY <1>6, ListsChanged DEF Push
<1>8. QED
  BY <1>2, <1>3, <1>5, <1>7, NothingNew, BooksKept DEF Push, Goes, List, Created

(* EXPIRE of a list, with which create() ends.                             *)
LEMMA ExpireListStep ==
  ASSUME TypeInv, NEW w \in Callers, ExpireList(w)
  PROVE  /\ Ended(w)
         /\ Cmd(w).u \in Users /\ Cmd(w).ttl \in Ttls
<1>1. Sends(w, "listTtl")
  BY DEF ExpireList
<1>2. todo[w] # <<>> /\ Cmd(w).u \in Users /\ Cmd(w).ttl \in Ttls
  BY <1>1, SendsCommand, CommandFields
<1>3. now + Cmd(w).ttl + ExtraHour \in Nat
  <2>1. now \in Nat /\ Cmd(w).ttl \in Nat /\ ExtraHour \in Nat
    BY <1>2, NowType, TtlAssumption
  <2>2. QED
    BY <2>1
<1>4. lists \in [Users -> List(nextId - 1)]
  BY DEF TypeInv, StoreType
<1>5. [lists EXCEPT ![Cmd(w).u].deadline = now + Cmd(w).ttl + ExtraHour] \in [Users -> List(nextId - 1)]
  BY <1>2, <1>3, <1>4 DEF List
<1>6. lists' \in [Users -> List(nextId - 1)]
  BY <1>4, <1>5 DEF ExpireList
<1>7. StoreType'
  BY <1>6, ListsChanged DEF ExpireList
<1>8. QED
  BY <1>2, <1>7, BooksKept DEF ExpireList, Ends, Ended, Stops

(* No list is a list.                                                      *)
LEMMA NoListType == \A n : NoList \in List(n)
BY DEF NoList, List, Forever

(* LREM takes one id out of the list of its owner.                         *)
LEMMA UnlistStep ==
  ASSUME TypeInv, NEW w \in Callers, Unlist(w)
  PROVE  /\ Goes(w, <<>>)
         /\ Cmd(w).s \in Created
         /\ LET u == owner[Cmd(w).s]
            IN  /\ \A v \in Users \ {u} : lists'[v] = lists[v]
                /\ Range(lists'[u].ids) = Range(lists[u].ids) \ {Cmd(w).s}
                /\ lists'[u].ids = <<>> \/ lists'[u].deadline = lists[u].deadline
<1> DEFINE u == owner[Cmd(w).s]
           ids == Without(lists[u].ids, {Cmd(w).s})
<1>1. Sends(w, "unlist")
  BY DEF Unlist
<1>2. todo[w] # <<>> /\ Cmd(w).s \in Created
  BY <1>1, SendsCommand, CommandFields DEF Created
<1>3. u \in Users
  BY <1>2 DEF TypeInv, StoreType, Created
<1>4. lists[u] \in List(nextId - 1) /\ lists[u].ids \in Seq(Created)
  BY <1>3 DEF TypeInv, StoreType, List, Created
<1>5. ids \in Seq(Created) /\ Range(ids) = Range(lists[u].ids) \ {Cmd(w).s}
  BY <1>4, WithoutCorrect
<1>6. lists' = [lists EXCEPT ![u] = IF ids = <<>> THEN NoList ELSE [@ EXCEPT !.ids = ids]]
  BY DEF Unlist
<1> HIDE DEF u, ids
<1>7. /\ [lists[u] EXCEPT !.ids = ids] \in List(nextId - 1)
      /\ [lists[u] EXCEPT !.ids = ids].ids = ids
      /\ [lists[u] EXCEPT !.ids = ids].deadline = lists[u].deadline
  BY <1>4, <1>5 DEF List, Created
<1>8. NoList \in List(nextId - 1) /\ NoList.ids = <<>>
  BY NoListType DEF NoList
<1>9. lists' \in [Users -> List(nextId - 1)]
  BY <1>3, <1>6, <1>7, <1>8 DEF TypeInv, StoreType
<1>10. /\ \A v \in Users \ {u} : lists'[v] = lists[v]
       /\ lists'[u].ids = ids
       /\ lists'[u].ids = <<>> \/ lists'[u].deadline = lists[u].deadline
  BY <1>3, <1>6, <1>7, <1>8 DEF TypeInv, StoreType
<1>11. StoreType'
  BY <1>9, ListsChanged DEF Unlist
<1>12. QED
  BY <1>2, <1>5, <1>10, <1>11, NothingNew, BooksKept DEF Unlist, Goes, u

(* DEL of a list, with which delete_user_sessions() ends.                  *)
LEMMA DropListStep ==
  ASSUME TypeInv, NEW w \in Callers, DropList(w)
  PROVE  Ended(w) /\ Cmd(w).u \in Users
<1>1. Sends(w, "dropList")
  BY DEF DropList
<1>2. todo[w] # <<>> /\ Cmd(w).u \in Users
  BY <1>1, SendsCommand, CommandFields
<1>3. lists' \in [Users -> List(nextId - 1)]
  BY NoListType DEF DropList, TypeInv, StoreType
<1>4. StoreType'
  BY <1>3, ListsChanged DEF DropList
<1>5. QED
  BY <1>2, <1>4, BooksKept DEF DropList, Ends, Ended, Stops

(* Sending the same command for every id of a list.                        *)
LEMMA OneForEach ==
  ASSUME TypeInv, NEW ids \in Seq(Created), NEW cutoff \in Nat
  PROVE  LET reads == [i \in DOMAIN ids |-> ReadCmd(ids[i], cutoff)]
             deletes == [i \in DOMAIN ids |-> DeleteCmd(ids[i])]
         IN  /\ reads \in Seq(Command(nextId - 1))
             /\ Range(reads) = {ReadCmd(s, cutoff) : s \in Range(ids)}
             /\ Ordered(reads)
             /\ deletes \in Seq(Command(nextId - 1))
             /\ Range(deletes) = {DeleteCmd(s) : s \in Range(ids)}
             /\ Ordered(deletes)
<1> DEFINE reads == [i \in DOMAIN ids |-> ReadCmd(ids[i], cutoff)]
           deletes == [i \in DOMAIN ids |-> DeleteCmd(ids[i])]
           C == Command(nextId - 1)
<1>1. DOMAIN ids = 1..Len(ids) /\ Len(ids) \in Nat /\ \A i \in DOMAIN ids : ids[i] \in Created
  OBVIOUS
<1>2. \A i \in DOMAIN ids : ReadCmd(ids[i], cutoff) \in C /\ DeleteCmd(ids[i]) \in C
  BY <1>1, CommandMade DEF Created
<1> HIDE DEF C
<1>3. reads \in [1..Len(ids) -> C] /\ deletes \in [1..Len(ids) -> C]
  BY <1>1, <1>2
<1>4. reads \in Seq(C) /\ deletes \in Seq(C)
  BY <1>1, <1>3
<1>5. /\ Range(reads) = {ReadCmd(s, cutoff) : s \in Range(ids)}
      /\ Range(deletes) = {DeleteCmd(s) : s \in Range(ids)}
  BY DEF Range
<1>6. /\ \A s, t : Before(ReadCmd(s, cutoff), ReadCmd(t, cutoff))
      /\ \A s, t : Before(DeleteCmd(s), DeleteCmd(t))
  BY DEF Before, ReadCmd, DeleteCmd
<1>7. Ordered(reads) /\ Ordered(deletes)
  BY <1>6 DEF Ordered
<1>8. QED
  BY <1>4, <1>5, <1>7 DEF C

(* A command that stands for reads, or deletes, of a list of ids.          *)
LEMMA ReadsInPlace ==
  ASSUME TypeInv, NEW w \in Callers, todo[w] # <<>>, nextId' = nextId,
         Cmd(w).c \in {"members", "scan"},
         NEW ids \in Seq(Created), NEW cutoff \in Nat,
         Then(w, [i \in DOMAIN ids |-> ReadCmd(ids[i], cutoff)])
  PROVE  GoesOn(w, [i \in DOMAIN ids |-> ReadCmd(ids[i], cutoff)])
<1> DEFINE cmds == [i \in DOMAIN ids |-> ReadCmd(ids[i], cutoff)]
<1>1. /\ cmds \in Seq(Command(nextId' - 1)) /\ Ordered(cmds)
      /\ Range(cmds) = {ReadCmd(s, cutoff) : s \in Range(ids)}
  BY OneForEach
<1>2. \A s, b : Before(Cmd(w), b) => Before(ReadCmd(s, cutoff), b)
  BY DEF Before, ReadCmd
<1>3. \A s : RightNext(ReadCmd(s, cutoff))
  BY DEF RightNext, ReadCmd
<1>4. Then(w, cmds)
  OBVIOUS
<1> HIDE DEF cmds
<1>5. GoesOn(w, cmds)
  <2>1. Replaces(Cmd(w), cmds)
    BY <1>1, <1>2 DEF Replaces
  <2>2. \A k \in Range(cmds) : RightNext(k)
    BY <1>1, <1>3
  <2>3. QED
    BY <1>1, <1>4, <2>1, <2>2 DEF GoesOn, Then
<1>6. QED
  BY <1>5 DEF cmds

LEMMA DeletesInPlace ==
  ASSUME TypeInv, NEW w \in Callers, todo[w] # <<>>, nextId' = nextId,
         Cmd(w).c = "sweep",
         NEW ids \in Seq(Created),
         Then(w, [i \in DOMAIN ids |-> DeleteCmd(ids[i])])
  PROVE  /\ GoesOn(w, [i \in DOMAIN ids |-> DeleteCmd(ids[i])])
         /\ Range([i \in DOMAIN ids |-> DeleteCmd(ids[i])]) = {DeleteCmd(s) : s \in Range(ids)}
<1> DEFINE cmds == [i \in DOMAIN ids |-> DeleteCmd(ids[i])]
<1>1. /\ cmds \in Seq(Command(nextId' - 1)) /\ Ordered(cmds)
      /\ Range(cmds) = {DeleteCmd(s) : s \in Range(ids)}
  BY OneForEach
<1>2. \A s, b : Before(Cmd(w), b) => Before(DeleteCmd(s), b)
  BY DEF Before, DeleteCmd
<1>3. \A s : RightNext(DeleteCmd(s))
  BY DEF RightNext, DeleteCmd
<1>4. Then(w, cmds)
  OBVIOUS
<1> HIDE DEF cmds
<1>5. GoesOn(w, cmds)
  <2>1. Replaces(Cmd(w), cmds)
    BY <1>1, <1>2 DEF Replaces
  <2>2. \A k \in Range(cmds) : RightNext(k)
    BY <1>1, <1>3
  <2>3. QED
    BY <1>1, <1>4, <2>1, <2>2 DEF GoesOn, Then
<1>6. QED
  BY <1>1, <1>5 DEF cmds

(* list_user_sessions() goes on with reads.                                *)
LEMMA MembersStep ==
  ASSUME TypeInv, NEW w \in Callers, Members(w)
  PROVE  \E ids \in Seq(Created), cutoff \in Nat :
           Goes(w, [i \in DOMAIN ids |-> ReadCmd(ids[i], cutoff)])
<1> DEFINE ids == lists[Cmd(w).u].ids
<1>1. Sends(w, "members")
  BY DEF Members
<1>2. todo[w] # <<>> /\ Cmd(w).c = "members" /\ Cmd(w).u \in Users
  BY <1>1, SendsCommand, CommandFields
<1>3. ids \in Seq(Created)
  BY <1>2 DEF TypeInv, StoreType, List, Created
<1>4. StoreType' /\ BooksType /\ Grows /\ nextId' = nextId
  BY StoreKept, BooksKept DEF Members, store
<1>5. Then(w, [i \in DOMAIN ids |-> ReadCmd(ids[i], 0)])
  BY DEF Members, GetCmd
<1> HIDE DEF ids
<1>6. GoesOn(w, [i \in DOMAIN ids |-> ReadCmd(ids[i], 0)])
  BY <1>2, <1>3, <1>4, <1>5, ReadsInPlace
<1>7. QED
  BY <1>3, <1>4, <1>6 DEF Goes

(* delete_user_sessions() goes on with a delete() of every listed session. *)
LEMMA MembersToDeleteStep ==
  ASSUME TypeInv, NEW w \in Callers, MembersToDelete(w)
  PROVE  LET u == Cmd(w).u
             listed == Range(lists[u].ids)
         IN  \E cmds : /\ Goes(w, cmds)
                       /\ Range(cmds) = {DeleteCmd(s) : s \in listed} \cup {DropListCmd(u, listed)}
<1> DEFINE ids == lists[Cmd(w).u].ids
           deletes == [i \in DOMAIN ids |-> DeleteCmd(ids[i])]
           drop == DropListCmd(Cmd(w).u, Range(ids))
           C == Command(nextId - 1)
<1>1. Sends(w, "membersToDelete")
  BY DEF MembersToDelete
<1>2. todo[w] # <<>> /\ Cmd(w).c = "membersToDelete" /\ Cmd(w).u \in Users
  BY <1>1, SendsCommand, CommandFields
<1>3. ids \in Seq(Created) /\ Range(ids) \subseteq Created
  <2>1. ids \in Seq(Created)
    BY <1>2 DEF TypeInv, StoreType, List, Created
  <2>2. QED
    BY <2>1 DEF Range
<1>4. StoreType' /\ BooksType /\ Grows /\ nextId' = nextId
  BY StoreKept, BooksKept DEF MembersToDelete, store
<1>5. Then(w, Append(deletes, drop))
  BY DEF MembersToDelete
<1>6. /\ deletes \in Seq(C) /\ Ordered(deletes)
      /\ Range(deletes) = {DeleteCmd(s) : s \in Range(ids)}
  <2>1. 0 \in Nat
    OBVIOUS
  <2> HIDE DEF ids
  <2>2. QED
    BY <1>3, <2>1, OneForEach DEF C
<1>7. drop \in C
  BY <1>2, <1>3, CommandMadeForUser DEF Created
<1>8. /\ \A s : Before(DeleteCmd(s), drop) /\ RightNext(DeleteCmd(s))
      /\ RightNext(drop)
  BY DEF Before, DeleteCmd, DropListCmd, RightNext
<1> HIDE DEF ids, deletes, drop, C
<1> DEFINE last == <<drop>>
           cmds == deletes \o last
<1>9. last \in Seq(C) /\ Range(last) = {drop} /\ Ordered(last)
  BY <1>7, OneCommand
<1> HIDE DEF last
<1>10. \A a \in Range(deletes) : \A b \in Range(last) : Before(a, b)
  BY <1>6, <1>8, <1>9
<1>11. /\ cmds \in Seq(C) /\ Ordered(cmds)
       /\ Range(cmds) = {DeleteCmd(s) : s \in Range(ids)} \cup {drop}
  BY <1>6, <1>9, <1>10, JoinedInOrder
<1>12. Append(deletes, drop) = cmds
  BY <1>6 DEF last
<1> HIDE DEF cmds
<1>13. Replaces(Cmd(w), cmds)
  BY <1>2, <1>11 DEF Replaces, Before
<1>14. \A k \in Range(cmds) : RightNext(k)
  BY <1>8, <1>11
<1>15. GoesOn(w, cmds)
  BY <1>2, <1>4, <1>5, <1>11, <1>12, <1>13, <1>14 DEF GoesOn, Then, C
<1>16. QED
  BY <1>4, <1>11, <1>15 DEF Goes, ids, drop

(* Enumerations of a set of ids, in any order.                             *)
LEMMA EnumerationType ==
  ASSUME TypeInv, NEW S, S \subseteq Created, NEW ids \in SetToSeqs(S)
  PROVE  ids \in Seq(Created)
<1>1. nextId - 1 \in Int
  BY DEF TypeInv, StoreType
<1>2. IsFiniteSet(Created)
  BY <1>1, FS_Interval DEF Created
<1>3. IsFiniteSet(S)
  BY <1>2, FS_Subset
<1>4. Cardinality(S) \in Nat
  BY <1>3, FS_CardinalityType
<1>5. ids \in [1..Cardinality(S) -> S]
  BY DEF SetToSeqs
<1>6. QED
  BY <1>4, <1>5

(* The scan for inactive sessions goes on with reads.                      *)
LEMMA ScanStep ==
  ASSUME TypeInv, NEW w \in Callers, Scan(w)
  PROVE  \E ids \in Seq(Created), cutoff \in Nat :
           Goes(w, [i \in DOMAIN ids |-> ReadCmd(ids[i], cutoff)])
<1>1. Sends(w, "scan")
  BY DEF Scan
<1>2. todo[w] # <<>> /\ Cmd(w).c = "scan" /\ Cmd(w).cutoff \in Nat
  BY <1>1, SendsCommand, CommandFields
<1>3. StoreType' /\ BooksType /\ Grows /\ nextId' = nextId
  BY StoreKept, BooksKept DEF Scan, store
<1>4. PICK keys \in SetToSeqs(Stored) :
        Then(w, [i \in DOMAIN keys |-> ReadCmd(keys[i], Cmd(w).cutoff)])
  BY DEF Scan
<1>5. keys \in Seq(Created)
  BY EnumerationType DEF TypeInv, StoreType
<1>6. GoesOn(w, [i \in DOMAIN keys |-> ReadCmd(keys[i], Cmd(w).cutoff)])
  BY <1>2, <1>3, <1>4, <1>5, ReadsInPlace
<1>7. QED
  BY <1>2, <1>3, <1>5, <1>6 DEF Goes

(* delete_inactive_sessions() goes on with deletes.                        *)
LEMMA SweepStep ==
  ASSUME TypeInv, NEW w \in Callers, Sweep(w)
  PROVE  \E ids \in Seq(Created) : Goes(w, [i \in DOMAIN ids |-> DeleteCmd(ids[i])])
<1>1. Sends(w, "sweep")
  BY DEF Sweep
<1>2. todo[w] # <<>> /\ Cmd(w).c = "sweep"
  BY <1>1, SendsCommand
<1>3. StoreType' /\ BooksType /\ Grows /\ nextId' = nextId
  BY StoreKept, BooksKept DEF Sweep, store
<1>4. PICK ids \in SetToSeqs(found[w]) : Then(w, [i \in DOMAIN ids |-> DeleteCmd(ids[i])])
  BY DEF Sweep
<1>5. ids \in Seq(Created)
  BY EnumerationType DEF TypeInv, CallersType
<1>6. GoesOn(w, [i \in DOMAIN ids |-> DeleteCmd(ids[i])])
  BY <1>2, <1>3, <1>4, <1>5, DeletesInPlace
<1>7. QED
  BY <1>3, <1>5, <1>6 DEF Goes

(* get_inactive_sessions() ends.                                           *)
LEMMA ReportStep ==
  ASSUME TypeInv, NEW w \in Callers, Report(w)
  PROVE  Ended(w)
<1>1. Sends(w, "report")
  BY DEF Report
<1>2. QED
  BY <1>1, SendsCommand, StoreKept, BooksKept DEF Report, Ends, Ended, Stops, store

(* A caller that stops is counted.                                         *)
LEMMA AbortStep ==
  ASSUME TypeInv, NEW w \in Callers, Abort(w)
  PROVE  Ended(w) /\ aborts' # 0
<1>1. aborts' = aborts + 1 /\ aborts \in Nat
  BY DEF Abort, TypeInv, CallersType
<1>2. BooksType /\ Grows
  BY <1>1 DEF Abort, store, BooksType, Grows, TypeInv, StoreType, CallersType, Created
<1>3. QED
  BY <1>1, <1>2, StoreKept DEF Abort, Ended, Stops, store

----------------------------------------------------------------------------
(* The calls *)

Begins(w, cmds) == StoreType' /\ BooksType /\ Grows /\ Starts(w, cmds)

(* What makes a call one that begins a method.                             *)
LEMMA BeginsIf ==
  ASSUME TypeInv, NEW w \in Callers, NEW op, NEW cmds, Call(w, op, cmds),
         UNCHANGED revoked, cmds \in Seq(Command(nextId - 1)), Ordered(cmds),
         \A k \in Range(cmds) : k.c \notin {"unlist", "push"}
  PROVE  /\ Begins(w, cmds)
         /\ aborts' = aborts /\ UNCHANGED store
<1>1. StoreType' /\ Created' = Created /\ nextId' = nextId
  BY StoreKept DEF Call, store
<1>2. found' \in [Callers -> SUBSET Created]
  BY DEF Call, TypeInv, CallersType
<1>3. BooksType /\ Grows
  BY <1>1, <1>2 DEF Call, store, BooksType, Grows, TypeInv, StoreType, CallersType
<1>4. Starts(w, cmds)
  BY <1>1 DEF Call, Starts
<1>5. QED
  BY <1>1, <1>3, <1>4 DEF Begins, Call

(* A list of two commands in order.                                        *)
LEMMA TwoCommands ==
  ASSUME NEW X, NEW a \in X, NEW b \in X, Before(a, b)
  PROVE  /\ <<a, b>> \in Seq(X)
         /\ Range(<<a, b>>) = {a, b}
         /\ Ordered(<<a, b>>)
<1>1. DOMAIN <<a, b>> = {1, 2}
  OBVIOUS
<1>2. QED
  BY <1>1 DEF Range, Ordered

(* A list of three commands in order.                                      *)
LEMMA ThreeCommands ==
  ASSUME NEW X, NEW a \in X, NEW b \in X, NEW c \in X,
         Before(a, b), Before(a, c), Before(b, c)
  PROVE  /\ <<a, b, c>> \in Seq(X)
         /\ Range(<<a, b, c>>) = {a, b, c}
         /\ Ordered(<<a, b, c>>)
<1>1. DOMAIN <<a, b, c>> = {1, 2, 3}
  OBVIOUS
<1>2. QED
  BY <1>1 DEF Range, Ordered

(* What the calls that only begin have in common.                          *)
Quiet(w, cmds) ==
  /\ Begins(w, cmds)
  /\ aborts' = aborts /\ UNCHANGED store

(* A command that needs nothing to have been sent before it.               *)
Plain(k) == k.c \notin {"push", "dropList"}

(* A create() begins.                                                      *)
LEMMA CallCreateStep ==
  ASSUME TypeInv, NEW w \in Callers, CallCreate(w)
  PROVE  \E cmds : Quiet(w, cmds) /\ \A k \in Range(cmds) : Plain(k)
<1>1. PICK u \in Users, ttl \in Ttls : Call(w, "create", CreateCmds(u, ttl))
  BY DEF CallCreate
<1> DEFINE a == [c |-> "limit", u |-> u]
           b == [c |-> "store", u |-> u, ttl |-> ttl]
           C == Command(nextId - 1)
<1>2. a \in C /\ b \in C
  BY CommandMadeForUser
<1>3. Before(a, b) /\ Plain(a) /\ Plain(b) /\ a.c # "unlist" /\ b.c # "unlist"
  BY DEF Before, Plain
<1>4. CreateCmds(u, ttl) = <<a, b>>
  BY DEF CreateCmds
<1> HIDE DEF a, b, C
<1>5. <<a, b>> \in Seq(C) /\ Range(<<a, b>>) = {a, b} /\ Ordered(<<a, b>>)
  BY <1>2, <1>3, TwoCommands
<1>6. Quiet(w, <<a, b>>)
  BY <1>1, <1>3, <1>4, <1>5, BeginsIf DEF CallCreate, Quiet, Plain, C
<1>7. QED
  BY <1>3, <1>5, <1>6

(* A method of one plain command begins.                                   *)
LEMMA OneCall ==
  ASSUME TypeInv, NEW w \in Callers, NEW op, NEW k \in Command(nextId - 1),
         Call(w, op, <<k>>), UNCHANGED revoked, Plain(k), k.c # "unlist"
  PROVE  \E cmds : Quiet(w, cmds) /\ \A b \in Range(cmds) : Plain(b)
<1>1. <<k>> \in Seq(Command(nextId - 1)) /\ Range(<<k>>) = {k} /\ Ordered(<<k>>)
  BY OneCommand
<1>2. Quiet(w, <<k>>)
  BY <1>1, BeginsIf DEF Quiet, Plain
<1>3. QED
  BY <1>1, <1>2

(* An update() begins.                                                     *)
LEMMA UpdateCall ==
  ASSUME TypeInv, NEW w \in Callers, NEW s \in Created,
         Call(w, "update", UpdateCmds(s)), UNCHANGED revoked
  PROVE  \E cmds : Quiet(w, cmds) /\ \A b \in Range(cmds) : Plain(b)
<1> DEFINE a == [c |-> "exists", s |-> s]
           b == [c |-> "read", s |-> s, cutoff |-> 0, must |-> TRUE]
           c == [c |-> "meta", s |-> s]
           C == Command(nextId - 1)
<1>1. a \in C /\ b \in C /\ c \in C
  BY CommandMade DEF Created
<1>2. /\ Before(a, b) /\ Before(a, c) /\ Before(b, c)
      /\ Plain(a) /\ Plain(b) /\ Plain(c) /\ \A k \in {a, b, c} : k.c # "unlist"
  BY DEF Before, Plain
<1>3. UpdateCmds(s) = <<a, b, c>>
  BY DEF UpdateCmds
<1> HIDE DEF a, b, c, C
<1>4. <<a, b, c>> \in Seq(C) /\ Range(<<a, b, c>>) = {a, b, c} /\ Ordered(<<a, b, c>>)
  BY <1>1, <1>2, ThreeCommands
<1>5. Quiet(w, <<a, b, c>>)
  BY <1>2, <1>3, <1>4, BeginsIf DEF Quiet, Plain, C
<1>6. QED
  BY <1>2, <1>4, <1>5

(* A refresh() begins.                                                     *)
LEMMA RefreshCall ==
  ASSUME TypeInv, NEW w \in Callers, NEW s \in Created, NEW ttl \in Ttls,
         Call(w, "refresh", RefreshCmds(s, ttl)), UNCHANGED revoked
  PROVE  \E cmds : Quiet(w, cmds) /\ \A k \in Range(cmds) : Plain(k)
<1> DEFINE a == [c |-> "exists", s |-> s]
           b == [c |-> "extend", s |-> s]
           c == [c |-> "ttl", s |-> s, ttl |-> ttl]
           C == Command(nextId - 1)
<1>1. a \in C /\ b \in C /\ c \in C
  BY CommandMade DEF Created
<1>2. /\ Before(a, b) /\ Before(a, c) /\ Before(b, c)
      /\ Plain(a) /\ Plain(b) /\ Plain(c) /\ \A k \in {a, b, c} : k.c # "unlist"
  BY DEF Before, Plain
<1>3. RefreshCmds(s, ttl) = <<a, b, c>>
  BY DEF RefreshCmds
<1> HIDE DEF a, b, c, C
<1>4. <<a, b, c>> \in Seq(C) /\ Range(<<a, b, c>>) = {a, b, c} /\ Ordered(<<a, b, c>>)
  BY <1>1, <1>2, ThreeCommands
<1>5. Quiet(w, <<a, b, c>>)
  BY <1>2, <1>3, <1>4, BeginsIf DEF Quiet, Plain, C
<1>6. QED
  BY <1>2, <1>4, <1>5

(* A method on a session begins.                                           *)
LEMMA CallOnSessionStep ==
  ASSUME TypeInv, NEW w \in Callers, CallOnSession(w)
  PROVE  \E cmds : Quiet(w, cmds) /\ \A k \in Range(cmds) : Plain(k)
<1>1. PICK s \in Created :
        /\ \/ Call(w, "get", <<GetCmd(s)>>)
           \/ Call(w, "update", UpdateCmds(s))
           \/ \E ttl \in Ttls : Call(w, "refresh", RefreshCmds(s, ttl))
           \/ Call(w, "delete", <<DeleteCmd(s)>>)
        /\ UNCHANGED revoked
  BY DEF CallOnSession, Created
<1>2. /\ GetCmd(s) \in Command(nextId - 1) /\ DeleteCmd(s) \in Command(nextId - 1)
      /\ Plain(GetCmd(s)) /\ Plain(DeleteCmd(s))
      /\ GetCmd(s).c # "unlist" /\ DeleteCmd(s).c # "unlist"
  BY CommandMade DEF GetCmd, ReadCmd, DeleteCmd, Created, Plain
<1>3. QED
  BY <1>1, <1>2, OneCall, UpdateCall, RefreshCall

(* A scan for inactive sessions begins.                                    *)
LEMMA CallInactiveStep ==
  ASSUME TypeInv, NEW w \in Callers, CallInactive(w)
  PROVE  \E cmds : Quiet(w, cmds) /\ \A k \in Range(cmds) : Plain(k)
<1>1. PICK cutoff \in 1..now :
        \/ Call(w, "inactive", <<[c |-> "scan", cutoff |-> cutoff],
                                 [c |-> "report", cutoff |-> cutoff]>>)
        \/ Call(w, "deleteInactive", <<[c |-> "scan", cutoff |-> cutoff],
                                       [c |-> "sweep"]>>)
  BY DEF CallInactive
<1> DEFINE a == [c |-> "scan", cutoff |-> cutoff]
           b == [c |-> "report", cutoff |-> cutoff]
           d == [c |-> "sweep"]
           C == Command(nextId - 1)
<1>2. cutoff \in Nat
  BY NowType
<1>3. a \in C /\ b \in C /\ d \in C
  BY <1>2, CommandMadeForTime
<1>4. /\ Before(a, b) /\ Before(a, d)
      /\ Plain(a) /\ Plain(b) /\ Plain(d) /\ \A k \in {a, b, d} : k.c # "unlist"
  BY DEF Before, Plain
<1> HIDE DEF a, b, d, C
<1>5. /\ <<a, b>> \in Seq(C) /\ Range(<<a, b>>) = {a, b} /\ Ordered(<<a, b>>)
      /\ <<a, d>> \in Seq(C) /\ Range(<<a, d>>) = {a, d} /\ Ordered(<<a, d>>)
  BY <1>3, <1>4, TwoCommands
<1>6. UNCHANGED revoked
  BY DEF CallInactive
<1>7. CASE Call(w, "inactive", <<a, b>>)
  <2>1. Quiet(w, <<a, b>>)
    BY <1>4, <1>5, <1>6, <1>7, BeginsIf DEF Quiet, Plain, C
  <2>2. QED
    BY <1>4, <1>5, <2>1
<1>8. CASE Call(w, "deleteInactive", <<a, d>>)
  <2>1. Quiet(w, <<a, d>>)
    BY <1>4, <1>5, <1>6, <1>8, BeginsIf DEF Quiet, Plain, C
  <2>2. QED
    BY <1>4, <1>5, <2>1
<1>9. QED
  BY <1>1, <1>7, <1>8 DEF a, b, d

(* A method on a user's sessions begins.                                   *)
LEMMA CallOnUserStep ==
  ASSUME TypeInv, NEW w \in Callers, CallOnUser(w)
  PROVE  \E cmds : Quiet(w, cmds) /\ \A k \in Range(cmds) : Plain(k)
<1>1. PICK u \in Users :
        \/ Call(w, "list", <<[c |-> "members", u |-> u]>>)
        \/ Call(w, "revokeAll", <<[c |-> "membersToDelete", u |-> u]>>)
  BY DEF CallOnUser
<1>2. \A c \in {"members", "membersToDelete"} :
        [c |-> c, u |-> u] \in Command(nextId - 1) /\ Plain([c |-> c, u |-> u])
  BY CommandMadeForUser DEF Plain
<1>3. UNCHANGED revoked
  BY DEF CallOnUser
<1>4. QED
  BY <1>1, <1>2, <1>3, OneCall

----------------------------------------------------------------------------
(* The kinds of steps there are                                            *)

(* No session becomes whole, and whole ones keep their deadlines.          *)
NoneAdded ==
  \A s \in Stored' : hash'[s].full =>
    Alive(s) /\ hash'[s].deadline = hash[s].deadline

(* What a DEL removed is gone.                                             *)
RevokedNow == \A s \in revoked' \ revoked : s \notin Stored'

Common == {"read", "touch", "exists", "meta", "extend", "limit", "owner", "del",
           "members", "scan", "sweep"}

(* A command after which the method goes on, and which leaves the lists    *)
(* alone.                                                                  *)
CommonStep(w, cmds) ==
  /\ Goes(w, cmds)
  /\ Cmd(w).c \in Common
  /\ NoneAdded
  /\ RevokedNow
  /\ \A k \in Range(cmds) : Plain(k)
  /\ Cmd(w).c = "owner" => \E k \in Range(cmds) : k.c = "del" /\ k.s = Cmd(w).s
  /\ Cmd(w).c = "del" => Cmd(w).s \notin Stored'
  /\ UNCHANGED <<now, lists, nextId, owner, unlisted, aborts>>

(* A command with which the method ends, and which changes nothing.        *)
LastStep(w) ==
  /\ Ended(w)
  /\ Cmd(w).c \in {"read", "exists", "report"}
  /\ Cmd(w).c = "exists" => Cmd(w).s \notin Stored
  /\ UNCHANGED <<store, aborts, revoked>>

(* No session changes.                                                     *)
LEMMA HashKept ==
  ASSUME TypeInv, UNCHANGED hash
  PROVE  NoneAdded
BY DEF NoneAdded, Alive, Stored

(* HSET of some fields makes no session whole.                             *)
LEMMA HSetAddsNone ==
  ASSUME TypeInv, NEW s \in Created, HSet(s)
  PROVE  NoneAdded
BY HSetEffect DEF NoneAdded, Alive

(* A list of one plain command.                                            *)
LEMMA OnePlain == \A h : Plain(h) => \A k \in Range(<<h>>) : Plain(k)
<1> SUFFICES ASSUME NEW h, Plain(h) PROVE \A k \in Range(<<h>>) : Plain(k)
  OBVIOUS
<1>1. Range(<<h>>) = {h}
  BY OneCommand
<1>2. QED
  BY <1>1

(* A list of no commands is plain.                                         *)
LEMMA NoCommands == \A k \in Range(<<>>) : Plain(k)
BY EmptyList

(* The commands that set fields.                                           *)
LEMMA CommonHSet ==
  ASSUME TypeInv, NEW w \in Callers, Touch(w) \/ Write(w)
  PROVE  CommonStep(w, <<>>)
<1>1. \E c \in {"touch", "meta", "extend"} : Sends(w, c)
  BY DEF Touch, Write
<1>2. Cmd(w).s \in Created /\ Cmd(w).c \in {"touch", "meta", "extend"}
  BY <1>1, SendsCommand, CommandFields DEF Created
<1>3. NoneAdded
  BY <1>2, HSetAddsNone DEF Touch, Write
<1>4. QED
  BY <1>2, <1>3, TouchStep, WriteStep, NoCommands
     DEF Touch, Write, CommonStep, Common, RevokedNow, Then

(* get() reads.                                                            *)
LEMMA CommonRead ==
  ASSUME TypeInv, NEW w \in Callers, Read(w)
  PROVE  \/ \E cmds : CommonStep(w, cmds)
         \/ LastStep(w)
<1>1. Cmd(w).c = "read" /\ todo[w] # <<>>
  BY SendsCommand DEF Read
<1>2. NoneAdded /\ RevokedNow /\ UNCHANGED <<now, lists, nextId, owner, unlisted, aborts>>
  BY HashKept DEF Read, store, RevokedNow
<1> DEFINE k == [c |-> "touch", s |-> Cmd(w).s]
<1>3. Range(<<k>>) = {k} /\ Plain(k)
  BY OneCommand DEF Plain
<1>4. \/ Then(w, <<>>)
      \/ Then(w, <<k>>)
      \/ Ends(w)
  BY DEF Read
<1> HIDE DEF k
<1>5. CASE Then(w, <<>>)
  <2>1. Goes(w, <<>>)
    <3>1. BooksType /\ Grows /\ StoreType'
      BY ReadStep DEF Goes, Ended
    <3>2. QED
      BY <1>1, <1>5, <3>1, NothingNew DEF Goes
  <2>2. QED
    BY <1>1, <1>2, <1>5, <2>1, NoCommands DEF CommonStep, Common, Then
<1>6. CASE Then(w, <<k>>)
  <2>1. Goes(w, <<k>>)
    <3>1. BooksType /\ Grows /\ StoreType'
      BY ReadStep DEF Goes, Ended
    <3>2. Cmd(w).s \in Created /\ nextId' = nextId
      BY SendsCommand, CommandFields DEF Read, Created, store
    <3>3. k \in Command(nextId' - 1) /\ RightNext(k)
      BY <3>2, CommandMade DEF RightNext, Created, k
    <3>4. \A b : Before(Cmd(w), b) => Before(k, b)
      BY <1>1 DEF Before, k
    <3>5. GoesOn(w, <<k>>)
      BY <1>1, <1>6, <3>3, <3>4, OneInPlace
    <3>6. QED
      BY <3>1, <3>5 DEF Goes
  <2>2. QED
    BY <1>1, <1>2, <1>3, <1>6, <2>1 DEF CommonStep, Common, Then
<1>7. CASE Ends(w)
  <2>1. Ended(w)
    <3>1. BooksType /\ Grows /\ StoreType'
      BY ReadStep DEF Goes, Ended
    <3>2. QED
      BY <1>1, <1>7, <3>1 DEF Ended, Stops, Ends
  <2>2. QED
    BY <1>1, <2>1 DEF LastStep, Read
<1>8. QED
  BY <1>4, <1>5, <1>6, <1>7

(* update() and refresh() ask for the key.                                 *)
LEMMA CommonExists ==
  ASSUME TypeInv, NEW w \in Callers, Exists(w)
  PROVE  CommonStep(w, <<>>) \/ LastStep(w)
<1>1. Cmd(w).c = "exists"
  BY SendsCommand DEF Exists
<1>2. NoneAdded
  BY HashKept DEF Exists, store
<1>3. CASE Cmd(w).s \in Stored
  BY <1>1, <1>2, <1>3, ExistsStep, NoCommands
     DEF Exists, CommonStep, Common, Then, store, RevokedNow
<1>4. CASE Cmd(w).s \notin Stored
  BY <1>1, <1>4, ExistsStep DEF Exists, LastStep, Ends
<1>5. QED
  BY <1>3, <1>4

(* create() looks at the limit.                                            *)
LEMMA CommonLimit ==
  ASSUME TypeInv, NEW w \in Callers, Limit(w)
  PROVE  \E cmds : CommonStep(w, cmds)
<1>1. Cmd(w).c = "limit"
  BY SendsCommand DEF Limit
<1>2. NoneAdded /\ RevokedNow
      /\ UNCHANGED <<now, lists, nextId, owner, unlisted, aborts>>
  BY HashKept DEF Limit, store, RevokedNow, Then
<1>3. \A s : \A k \in Range(<<DeleteCmd(s)>>) : Plain(k)
  BY OnePlain DEF Plain, DeleteCmd
<1>4. PICK cmds : Goes(w, cmds) /\ \A k \in Range(cmds) : Plain(k)
  BY <1>3, LimitStep, NoCommands
<1>5. CommonStep(w, cmds)
  BY <1>1, <1>2, <1>4 DEF CommonStep, Common
<1>6. QED
  BY <1>5

(* delete() asks for the owner.                                            *)
LEMMA CommonOwner ==
  ASSUME TypeInv, NEW w \in Callers, Owner(w)
  PROVE  \E cmds : CommonStep(w, cmds)
<1>1. Cmd(w).c = "owner"
  BY SendsCommand DEF Owner
<1>2. NoneAdded /\ RevokedNow
      /\ UNCHANGED <<now, lists, nextId, owner, unlisted, aborts>>
  BY HashKept DEF Owner, store, RevokedNow, Then
<1>3. PICK b \in BOOLEAN : Goes(w, <<[c |-> "del", s |-> Cmd(w).s, known |-> b]>>)
  BY OwnerStep
<1> DEFINE k == [c |-> "del", s |-> Cmd(w).s, known |-> b]
<1>4. Range(<<k>>) = {k} /\ Plain(k) /\ k.c = "del" /\ k.s = Cmd(w).s
  BY OneCommand DEF Plain
<1> HIDE DEF k
<1>5. CommonStep(w, <<k>>)
  BY <1>1, <1>2, <1>3, <1>4 DEF CommonStep, Common, k
<1>6. QED
  BY <1>5

(* delete() deletes the key.                                               *)
LEMMA CommonDel ==
  ASSUME TypeInv, NEW w \in Callers, Del(w)
  PROVE  \E cmds : CommonStep(w, cmds)
<1>1. Cmd(w).c = "del"
  BY SendsCommand DEF Del
<1>2. /\ Stored' = Stored \ {Cmd(w).s}
      /\ \A t \in Stored' : hash'[t] = hash[t]
      /\ revoked' \subseteq revoked \cup {Cmd(w).s}
  BY DEF Del, Restrict, Stored
<1>3. NoneAdded /\ RevokedNow
      /\ UNCHANGED <<now, lists, nextId, owner, unlisted, aborts>>
  BY <1>2 DEF Del, NoneAdded, Alive, RevokedNow, Then
<1>4. \A s : \A k \in Range(<<[c |-> "unlist", s |-> s]>>) : Plain(k)
  BY OnePlain DEF Plain
<1>5. PICK cmds : Goes(w, cmds) /\ \A k \in Range(cmds) : Plain(k)
  BY <1>4, DelStep, NoCommands
<1>6. CommonStep(w, cmds)
  BY <1>1, <1>2, <1>3, <1>5 DEF CommonStep, Common
<1>7. QED
  BY <1>6

(* The commands that read or delete many sessions.                         *)
LEMMA CommonMany ==
  ASSUME TypeInv, NEW w \in Callers, Members(w) \/ Scan(w) \/ Sweep(w)
  PROVE  \E cmds : CommonStep(w, cmds)
<1>1. Cmd(w).c \in {"members", "scan", "sweep"}
  BY SendsCommand DEF Members, Scan, Sweep
<1>2. NoneAdded /\ RevokedNow
      /\ UNCHANGED <<now, lists, nextId, owner, unlisted, aborts>>
  BY HashKept DEF Members, Scan, Sweep, store, RevokedNow, Then
<1>3. /\ \A ids \in Seq(Created), cutoff \in Nat :
           \A k \in Range([i \in DOMAIN ids |-> ReadCmd(ids[i], cutoff)]) : Plain(k)
      /\ \A ids \in Seq(Created) :
           \A k \in Range([i \in DOMAIN ids |-> DeleteCmd(ids[i])]) : Plain(k)
  BY DEF Range, Plain, ReadCmd, DeleteCmd
<1>4. PICK cmds : Goes(w, cmds) /\ \A k \in Range(cmds) : Plain(k)
  BY <1>3, MembersStep, ScanStep, SweepStep
<1>5. CommonStep(w, cmds)
  BY <1>1, <1>2, <1>4 DEF CommonStep, Common
<1>6. QED
  BY <1>5

(* Every step that is not one of the six with an effect of its own.        *)
LEMMA StepKinds ==
  ASSUME TypeInv, Next
  PROVE  \/ Tick
         \/ \E w \in Callers :
              \/ Abort(w) \/ Expire(w) \/ StoreSession(w) \/ Push(w)
              \/ ExpireList(w) \/ Unlist(w) \/ MembersToDelete(w) \/ DropList(w)
              \/ CallCreate(w) \/ CallOnSession(w) \/ CallOnUser(w) \/ CallInactive(w)
              \/ \E cmds : CommonStep(w, cmds)
              \/ LastStep(w)
<1>1. ASSUME NEW w \in Callers, Report(w)
      PROVE  LastStep(w)
  <2>1. Cmd(w).c = "report"
    BY <1>1, SendsCommand DEF Report
  <2>2. QED
    BY <1>1, <2>1, ReportStep DEF Report, LastStep, Ends
<1>2. QED
  BY <1>1, CommonHSet, CommonRead, CommonExists, CommonLimit, CommonOwner,
     CommonDel, CommonMany DEF Next

----------------------------------------------------------------------------
(* The type invariant *)

(* Time passing only removes keys, and lists as a whole.                   *)
LEMMA TickStep ==
  ASSUME TypeInv, Tick
  PROVE  /\ StoreType' /\ BooksType /\ Grows /\ todo' = todo
         /\ NoneAdded /\ RevokedNow
         /\ now \in Nat /\ now' = now + 1
         /\ Stored' = {s \in Stored : ~Over(hash[s], now')}
         /\ \A s \in Stored' : hash'[s] = hash[s]
         /\ \A u \in Users : lists'[u] = IF Over(lists[u], now') THEN NoList ELSE lists[u]
<1>1. Stored' = {s \in Stored : ~Over(hash[s], now')} /\ \A s \in Stored' : hash'[s] = hash[s]
  BY DEF Tick, Stored, Restrict
<1>2. now \in Nat /\ now' = now + 1 /\ now < MaxTime /\ MaxTime \in Nat
  BY NowType, BoundAssumption DEF Tick
<1>3. now' \in 0..MaxTime /\ \A a \in Nat : a <= now => a <= now'
  BY <1>2
<1>4. \A u \in Users : lists'[u] = IF Over(lists[u], now') THEN NoList ELSE lists[u]
  BY DEF Tick
<1>5. lists' \in [Users -> List(nextId - 1)]
  BY NoListType DEF Tick, TypeInv, StoreType
<1>6. nextId' = nextId /\ owner' = owner /\ Created' = Created
  BY DEF Tick, Created
<1>7. \A s \in Stored' : hash'[s] \in Hash /\ hash'[s].lastAccessed <= now'
  <2>1. \A s \in Stored : hash[s] \in Hash /\ hash[s].lastAccessed \in Nat /\ hash[s].lastAccessed <= now
    BY DEF TypeInv, StoreType, Hash
  <2>2. QED
    BY <1>1, <1>3, <2>1
<1>8. StoreType'
  BY <1>1, <1>3, <1>5, <1>6, <1>7 DEF TypeInv, StoreType
<1>9. NoneAdded /\ RevokedNow
  BY <1>1 DEF NoneAdded, Alive, RevokedNow, Tick
<1>10. QED
  BY <1>1, <1>2, <1>4, <1>8, <1>9, BooksKept DEF Tick

(* In every step the store stays well-typed, the books grow, and at most   *)
(* one caller moves.                                                       *)
LEMMA StepMoves ==
  ASSUME TypeInv, Next
  PROVE  /\ StoreType' /\ BooksType /\ Grows
         /\ todo' = todo \/ \E w \in Callers : Moves(w)
<1>1. CASE Tick
  BY <1>1, TickStep
<1>2. ASSUME NEW w \in Callers,
             \/ \E cmds : Goes(w, cmds)
             \/ Ended(w)
             \/ \E cmds : Begins(w, cmds)
      PROVE  StoreType' /\ BooksType /\ Grows /\ Moves(w)
  BY <1>2 DEF Goes, Ended, Begins, Moves
<1>3. ASSUME NEW w \in Callers,
             Expire(w) \/ StoreSession(w) \/ Push(w) \/ Unlist(w) \/ MembersToDelete(w)
      PROVE  \E cmds : Goes(w, cmds)
  BY <1>3, ExpireStep, StoreSessionStep, PushStep, UnlistStep, MembersToDeleteStep
<1>4. ASSUME NEW w \in Callers, Abort(w) \/ ExpireList(w) \/ DropList(w)
      PROVE  Ended(w)
  BY <1>4, AbortStep, ExpireListStep, DropListStep
<1>5. ASSUME NEW w \in Callers,
             CallCreate(w) \/ CallOnSession(w) \/ CallOnUser(w) \/ CallInactive(w)
      PROVE  \E cmds : Begins(w, cmds)
  BY <1>5, CallCreateStep, CallOnSessionStep, CallOnUserStep, CallInactiveStep DEF Quiet
<1>6. ASSUME NEW w \in Callers, (\E cmds : CommonStep(w, cmds)) \/ LastStep(w)
      PROVE  (\E cmds : Goes(w, cmds)) \/ Ended(w)
  BY <1>6 DEF CommonStep, LastStep
<1>7. QED
  BY <1>1, <1>2, <1>3, <1>4, <1>5, <1>6, StepKinds

TypeAndOrder == TypeInv /\ InOrder /\ RightCmds

(* Nothing happens.                                                        *)
LEMMA Stutter ==
  ASSUME TypeInv, UNCHANGED vars
  PROVE  /\ StoreType' /\ BooksType /\ Grows /\ todo' = todo
         /\ NoneAdded
<1>1. StoreType'
  BY StoreKept DEF vars, store
<1>2. QED
  BY <1>1, BooksKept, HashKept DEF vars, store

(* The invariant holds in the beginning.                                   *)
LEMMA TypeInit == Init => TypeAndOrder
<1> SUFFICES ASSUME Init PROVE TypeAndOrder
  OBVIOUS
<1>1. Created = {} /\ Stored = {} /\ nextId = 1 /\ Len(owner) = 0 /\ owner \in Seq(Users)
  BY DEF Init, Created, Stored
<1>2. lists \in [Users -> List(nextId - 1)]
  BY NoListType DEF Init
<1>3. now \in 0..MaxTime
  BY BoundAssumption DEF Init
<1>4. todo \in [Callers -> Seq(Command(nextId - 1))]
  BY EmptyList DEF Init
<1>5. TypeInv
  BY <1>1, <1>2, <1>3, <1>4 DEF Init, TypeInv, StoreType, CallersType
<1>6. QED
  BY <1>5, EmptyList DEF Init, TypeAndOrder, InOrder, RightCmds, Waiting

(* Every step keeps types, and the order of the commands still to be sent. *)
LEMMA TypeStep == TypeAndOrder /\ [Next]_vars => TypeAndOrder'
<1> SUFFICES ASSUME TypeAndOrder, [Next]_vars PROVE TypeAndOrder'
  OBVIOUS
<1>1. TypeInv /\ InOrder /\ RightCmds
  BY DEF TypeAndOrder
<1>2. /\ StoreType' /\ BooksType /\ Grows
      /\ todo' = todo \/ \E w \in Callers : Moves(w)
  BY <1>1, StepMoves, Stutter
<1>3. CASE todo' = todo
  <2>1. \A w \in Callers : Waiting(w) \subseteq Command(nextId - 1)
    BY <1>1 DEF TypeInv, CallersType, Waiting, Range
  <2>2. \A w \in Callers : \A k \in Waiting(w) : RightNext(k)
    BY <1>1, <1>2, <2>1, RightCmdKept DEF RightCmds
  <2>3. RightCmds'
    BY <1>3, <2>2 DEF RightCmds, RightCmd, RightNext, Waiting
  <2>4. todo' \in [Callers -> Seq(Command(nextId' - 1))]
    BY <1>1, <1>2, <1>3, CommandsKept DEF TypeInv, CallersType
  <2>5. QED
    BY <1>1, <1>2, <1>3, <2>3, <2>4
       DEF TypeAndOrder, TypeInv, CallersType, BooksType, InOrder
<1>4. CASE \E w \in Callers : Moves(w)
  <2>1. todo' \in [Callers -> Seq(Command(nextId' - 1))] /\ InOrder' /\ RightCmds'
    BY <1>1, <1>2, <1>4, MovesTyped, MovesInOrder, MovesRight
  <2>2. QED
    BY <1>2, <2>1 DEF TypeAndOrder, TypeInv, CallersType, BooksType
<1>5. QED
  BY <1>2, <1>3, <1>4

(* Types and order hold always.                                            *)
LEMMA TypeAlways == Spec => []TypeAndOrder
BY TypeInit, TypeStep, PTL DEF Spec

(* Keys, lists and the ids in flight belong to created sessions, whatever  *)
(* the callers do and wherever they stop.                                  *)
THEOREM TypeCorrect == Spec => []TypeOK
<1>1. TypeAndOrder => TypeOK
  <2> SUFFICES ASSUME TypeAndOrder PROVE TypeOK
    OBVIOUS
  <2>1. owner \in [1..(nextId - 1) -> Users]
    BY DEF TypeAndOrder, TypeInv, StoreType
  <2>2. \A s \in Stored : hash[s] \in [full : BOOLEAN, lastAccessed : 0..now, deadline : Nat]
    <3>1. \A n \in Nat : n <= now => n \in 0..now
      BY NowType DEF TypeAndOrder
    <3>2. QED
      BY <3>1 DEF TypeAndOrder, TypeInv, StoreType, Hash
  <2>3. \A u \in Users : Range(lists[u].ids) \subseteq 1..(nextId - 1)
    <3>1. \A u \in Users : lists[u].ids \in Seq(1..(nextId - 1))
      BY DEF TypeAndOrder, TypeInv, StoreType, List
    <3>2. \A X : \A q \in Seq(X) : Range(q) \subseteq X
      BY DEF Range
    <3>3. QED
      BY <3>1, <3>2
  <2>4. QED
    BY <2>1, <2>2, <2>3 DEF TypeOK, TypeAndOrder, TypeInv, StoreType, Created
<1>2. QED
  BY <1>1, TypeAlways, PTL

----------------------------------------------------------------------------
(* Revoked sessions *)

(* A step makes no session whole but the one create() stores, and this one *)
(* is new.                                                                 *)
LEMMA AliveBefore ==
  ASSUME TypeInv, [Next]_vars
  PROVE  /\ RevokedNow
         /\ \A s : Alive(s)' => Alive(s) \/ s \notin Created
<1> DEFINE Goal == RevokedNow /\ \A s : Alive(s)' => Alive(s) \/ s \notin Created
<1>1. CASE NoneAdded /\ RevokedNow
  BY <1>1 DEF NoneAdded, Alive
<1>2. CASE UNCHANGED <<hash, revoked>>
  BY <1>2 DEF RevokedNow, Alive, Stored
<1>3. CASE Tick
  BY <1>1, <1>3, TickStep
<1>4. ASSUME NEW w \in Callers, Expire(w)
      PROVE  Goal
  <2>1. Stored' = Stored /\ revoked' = revoked
    BY <1>4 DEF Expire, Stored
  <2>2. \A s \in Stored : hash[s] \in Hash
    BY DEF TypeInv, StoreType
  <2>3. \A s \in Stored : hash'[s].full = hash[s].full
    BY <1>4, <2>2 DEF Expire, Hash
  <2>4. QED
    BY <2>1, <2>3 DEF RevokedNow, Alive
<1>5. ASSUME NEW w \in Callers, StoreSession(w)
      PROVE  Goal
  <2>1. Stored' = Stored \cup {nextId} /\ revoked' = revoked
    BY <1>5 DEF StoreSession, Stored
  <2>2. nextId \notin Created
    BY DEF TypeInv, StoreType, Created
  <2>3. \A s \in Stored' : s # nextId => hash'[s] = hash[s]
    BY <1>5, <2>1 DEF StoreSession
  <2>4. QED
    BY <2>1, <2>2, <2>3 DEF RevokedNow, Alive
<1>6. ASSUME NEW w \in Callers,
             \/ Abort(w) \/ Push(w) \/ ExpireList(w) \/ Unlist(w)
             \/ MembersToDelete(w) \/ DropList(w)
             \/ CallCreate(w) \/ CallOnSession(w) \/ CallOnUser(w) \/ CallInactive(w)
      PROVE  UNCHANGED <<hash, revoked>>
  BY <1>6 DEF Abort, Push, ExpireList, Unlist, MembersToDelete, DropList,
     CallCreate, CallOnSession, CallOnUser, CallInactive, Call, store
<1>7. ASSUME NEW w \in Callers, (\E cmds : CommonStep(w, cmds)) \/ LastStep(w)
      PROVE  Goal
  BY <1>1, <1>2, <1>7 DEF CommonStep, LastStep, store
<1>8. CASE Next
  BY <1>2, <1>3, <1>4, <1>5, <1>6, <1>7, <1>8, StepKinds
<1>9. CASE UNCHANGED vars
  BY <1>2, <1>9 DEF vars, store
<1>10. QED
  BY <1>8, <1>9

(* A session a DEL removed stays unreadable, whatever methods were under   *)
(* way and write to its key afterwards, and whatever is called later.      *)
THEOREM RevokedCorrect == Spec => []RevokedUnreadable
<1>1. Init => RevokedUnreadable
  BY DEF Init, RevokedUnreadable
<1>2. TypeAndOrder /\ RevokedUnreadable /\ [Next]_vars => RevokedUnreadable'
  <2> SUFFICES ASSUME TypeAndOrder, RevokedUnreadable, [Next]_vars,
                      NEW s \in revoked'
               PROVE  ~Alive(s)'
    BY DEF RevokedUnreadable
  <2>1. TypeInv /\ revoked \subseteq Created
    BY DEF TypeAndOrder, TypeInv, CallersType
  <2>2. RevokedNow /\ (Alive(s)' => Alive(s) \/ s \notin Created)
    BY <2>1, AliveBefore
  <2>3. CASE s \in revoked
    BY <2>1, <2>2, <2>3 DEF RevokedUnreadable
  <2>4. CASE s \notin revoked
    BY <2>2, <2>4 DEF RevokedNow, Alive
  <2>5. QED
    BY <2>3, <2>4
<1>3. QED
  BY <1>1, <1>2, TypeAlways, PTL DEF Spec

----------------------------------------------------------------------------
(* Sessions without a time to live *)

(* To be sending is to have a command waiting.                             *)
LEMMA SendingIs ==
  \A s, cs : Sending(s, cs) <=> \E w \in Callers : \E k \in Waiting(w) : k.c \in cs /\ k.s = s
BY DEF Sending, Waiting, Range

(* The same after a step.                                                  *)
LEMMA SendingNext ==
  \A s, cs : (\E w \in Callers : \E k \in Waiting(w)' : k.c \in cs /\ k.s = s) => Sending(s, cs)'
BY DEF Sending, Waiting, Range

(* A command waits until it is sent or its method ends.                    *)
LEMMA StillWaiting ==
  ASSUME TypeInv, Grows, NEW w \in Callers, NEW v \in Callers, NEW k \in Waiting(v)
  PROVE  /\ \A cmds : GoesOn(w, cmds) /\ k # Cmd(w) => k \in Waiting(v)'
         /\ \A cmds : Starts(w, cmds) => k \in Waiting(v)'
         /\ Stops(w) /\ v # w => k \in Waiting(v)'
<1>1. ASSUME NEW cmds, GoesOn(w, cmds), k # Cmd(w)
      PROVE  k \in Waiting(v)'
  <2>1. CASE v = w
    BY <1>1, <2>1, GoesOnWaiting, Sent DEF GoesOn
  <2>2. CASE v # w
    BY <1>1, <2>2, GoesOnWaiting
  <2>3. QED
    BY <2>1, <2>2
<1>2. ASSUME NEW cmds, Starts(w, cmds)
      PROVE  k \in Waiting(v)'
  <2>1. Waiting(w) = {}
    BY <1>2, EmptyList DEF Starts, Waiting
  <2>2. QED
    BY <1>2, <2>1, StartsWaiting
<1>3. QED
  BY <1>1, <1>2, StopsWaiting

(* Neither the EXPIRE of a session nor the RPUSH of its id is given up     *)
(* while the session is there.                                             *)
LEMMA StaysSending ==
  ASSUME TypeAndOrder, Next, aborts' = 0, NEW s \in Stored,
         NEW c \in {"ttl", "push"}, Sending(s, {c})
  PROVE  \/ Sending(s, {c})'
         \/ \E w \in Callers : /\ Sends(w, c) /\ Cmd(w) \in Waiting(w) /\ Cmd(w).s = s
                               /\ Expire(w) \/ Push(w)
<1>1. TypeInv /\ InOrder /\ Grows /\ aborts \in Nat
  BY StepMoves DEF TypeAndOrder, TypeInv, CallersType
<1> DEFINE Done(w) == /\ Sends(w, c) /\ Cmd(w) \in Waiting(w) /\ Cmd(w).s = s
                      /\ Expire(w) \/ Push(w)
<1>2. PICK v \in Callers : \E k \in Waiting(v) : k.c = c /\ k.s = s
  BY SendingIs
<1>2a. PICK k \in Waiting(v) : k.c = c /\ k.s = s
  BY <1>2
<1> HIDE DEF Done
<1>3. ASSUME k \in Waiting(v)' PROVE Sending(s, {c})'
  <2>1. k.c \in {c} /\ k.s = s
    BY <1>2a
  <2>2. QED
    BY <2>1, <1>3, SendingNext
<1>4. ASSUME NEW w \in Callers, Cmd(w).c \in {"ttl", "push"} => Expire(w) \/ Push(w),
             \E cmds : GoesOn(w, cmds)
      PROVE  k \in Waiting(v)' \/ Done(w)
  <2>1. k # Cmd(w) => k \in Waiting(v)'
    BY <1>1, <1>4, StillWaiting
  <2>2. k = Cmd(w) => Sends(w, c) /\ Cmd(w).s = s /\ Cmd(w) \in Waiting(w)
    BY <1>1, <1>2a, <1>4, Sent DEF Sends, GoesOn
  <2>3. QED
    BY <1>2a, <1>4, <2>1, <2>2 DEF Done
<1>5. ASSUME NEW w \in Callers, Stops(w),
             Cmd(w).c \in {"read", "exists", "report", "listTtl", "dropList"},
             Cmd(w).c = "exists" => Cmd(w).s \notin Stored
      PROVE  k \in Waiting(v)'
  <2>1. CASE v # w
    BY <1>1, <1>5, <2>1, StillWaiting
  <2>2. CASE v = w
    <3>1. k \in Rest(w)
      BY <1>1, <1>2a, <1>5, <2>2, Sent DEF Stops
    <3>2. Before(Cmd(w), k)
      BY <1>1, <1>5, <3>1, Sent DEF Stops
    <3>3. QED
      BY <1>2a, <1>5, <3>2 DEF Before
  <2>3. QED
    BY <2>1, <2>2
<1>6. CASE Tick
  BY <1>2a, <1>3, <1>6 DEF Tick, Waiting
<1>7. ASSUME NEW w \in Callers, Expire(w) \/ Push(w)
      PROVE  k \in Waiting(v)' \/ Done(w)
  BY <1>1, <1>4, <1>7, ExpireStep, PushStep DEF Goes
<1>8. ASSUME NEW w \in Callers,
             \/ StoreSession(w) \/ Unlist(w) \/ MembersToDelete(w)
             \/ \E cmds : CommonStep(w, cmds)
      PROVE  k \in Waiting(v)' \/ Done(w)
  <2>1. Cmd(w).c \notin {"ttl", "push"}
    BY <1>8 DEF StoreSession, Unlist, MembersToDelete, CommonStep, Common, Sends
  <2>2. \E cmds : GoesOn(w, cmds)
    BY <1>1, <1>8, StoreSessionStep, UnlistStep, MembersToDeleteStep
       DEF CommonStep, Goes
  <2>3. QED
    BY <1>4, <2>1, <2>2
<1>9. ASSUME NEW w \in Callers, ExpireList(w) \/ DropList(w) \/ LastStep(w)
      PROVE  k \in Waiting(v)'
  <2>1. Stops(w)
    BY <1>1, <1>9, ExpireListStep, DropListStep DEF LastStep, Ended
  <2>2. /\ Cmd(w).c \in {"read", "exists", "report", "listTtl", "dropList"}
        /\ Cmd(w).c = "exists" => Cmd(w).s \notin Stored
    BY <1>9 DEF LastStep, ExpireList, DropList, Sends
  <2>3. QED
    BY <1>5, <2>1, <2>2
<1>10. ASSUME NEW w \in Callers,
              CallCreate(w) \/ CallOnSession(w) \/ CallOnUser(w) \/ CallInactive(w)
       PROVE  k \in Waiting(v)'
  BY <1>1, <1>10, StillWaiting, CallCreateStep, CallOnSessionStep, CallOnUserStep,
     CallInactiveStep DEF Quiet, Begins
<1>11. ASSUME NEW w \in Callers PROVE ~Abort(w)
  BY <1>1, AbortStep
<1>12. QED
  BY <1>1, <1>3, <1>6, <1>7, <1>8, <1>9, <1>10, <1>11, StepKinds DEF Done

(* Whole sessions are whole before the step and keep their deadline, are   *)
(* given one, or are the one create() stores.                              *)
LEMMA DeadlineBefore ==
  ASSUME TypeInv, Next, NEW s \in Stored', hash'[s].full
  PROVE  \/ Alive(s) /\ hash'[s].deadline = hash[s].deadline
         \/ \E w \in Callers : /\ Expire(w) /\ Cmd(w).s = s /\ Alive(s)
                               /\ hash'[s].deadline = now + Cmd(w).ttl
         \/ \E w \in Callers : StoreSession(w) /\ s = nextId /\ hash'[s].deadline = Forever
<1>1. CASE NoneAdded
  BY <1>1 DEF NoneAdded
<1>2. CASE Tick
  BY <1>1, <1>2, TickStep
<1>3. ASSUME NEW w \in Callers, Expire(w)
      PROVE  \/ Alive(s) /\ hash'[s].deadline = hash[s].deadline
             \/ /\ Cmd(w).s = s /\ Alive(s)
                /\ hash'[s].deadline = now + Cmd(w).ttl
  <2>1. s \in Stored /\ hash[s] \in Hash
    BY <1>3 DEF Expire, Stored, TypeInv, StoreType
  <2>2. hash'[s] = IF s = Cmd(w).s THEN [hash[s] EXCEPT !.deadline = now + Cmd(w).ttl]
                                   ELSE hash[s]
    BY <1>3, <2>1 DEF Expire
  <2>3. QED
    BY <2>1, <2>2 DEF Alive, Hash
<1>4. ASSUME NEW w \in Callers, StoreSession(w)
      PROVE  \/ Alive(s) /\ hash'[s].deadline = hash[s].deadline
             \/ s = nextId /\ hash'[s].deadline = Forever
  <2>1. Stored' = Stored \cup {nextId}
    BY <1>4 DEF StoreSession, Stored
  <2>2. hash'[s] = IF s = nextId
                   THEN [full |-> TRUE, lastAccessed |-> now, deadline |-> Forever]
                   ELSE hash[s]
    BY <1>4, <2>1 DEF StoreSession
  <2>3. QED
    BY <2>1, <2>2 DEF Alive
<1>5. ASSUME NEW w \in Callers,
             \/ Abort(w) \/ Push(w) \/ ExpireList(w) \/ Unlist(w)
             \/ MembersToDelete(w) \/ DropList(w)
             \/ CallCreate(w) \/ CallOnSession(w) \/ CallOnUser(w) \/ CallInactive(w)
             \/ (\E cmds : CommonStep(w, cmds)) \/ LastStep(w)
      PROVE  NoneAdded
  <2>1. UNCHANGED hash \/ NoneAdded
    BY <1>5 DEF Abort, Push, ExpireList, Unlist, MembersToDelete, DropList,
       CallCreate, CallOnSession, CallOnUser, CallInactive, Call, store,
       CommonStep, LastStep
  <2>2. QED
    BY <2>1, HashKept
<1>6. QED
  BY <1>1, <1>2, <1>3, <1>4, <1>5, StepKinds

(* While no caller has stopped, none has before and none stops now.        *)
LEMMA AbortsGrow ==
  ASSUME TypeInv, [Next]_vars, aborts' = 0
  PROVE  aborts = 0 /\ \A w \in Callers : ~Abort(w)
<1>1. aborts \in Nat /\ \A w \in Callers : ~Abort(w)
  BY AbortStep DEF TypeInv, CallersType
<1>2. aborts' = aborts
  <2>1. CASE UNCHANGED vars
    BY <2>1 DEF vars
  <2>2. CASE Next
    <3>1. ASSUME NEW w \in Callers,
                 \/ Expire(w) \/ StoreSession(w) \/ Push(w) \/ ExpireList(w)
                 \/ Unlist(w) \/ MembersToDelete(w) \/ DropList(w)
                 \/ CallCreate(w) \/ CallOnSession(w) \/ CallOnUser(w) \/ CallInactive(w)
                 \/ (\E cmds : CommonStep(w, cmds)) \/ LastStep(w)
          PROVE  aborts' = aborts
      BY <3>1 DEF Expire, StoreSession, Push, ExpireList, Unlist, MembersToDelete, DropList,
         CallCreate, CallOnSession, CallOnUser, CallInactive, Call, CommonStep, LastStep
    <3>2. CASE Tick
      BY <3>2 DEF Tick
    <3>3. QED
      BY <1>1, <2>2, <3>1, <3>2, StepKinds
  <2>3. QED
    BY <2>1, <2>2
<1>3. QED
  BY <1>1, <1>2

(* As long as no caller stops half-way, a whole session without a time to  *)
(* live is one whose create() has its EXPIRE still to send.                *)
THEOREM ExpiryCorrect == Spec => []SessionsExpire
<1>1. Init => SessionsExpire
  BY DEF Init, SessionsExpire, Stored
<1>2. TypeAndOrder /\ SessionsExpire /\ [Next]_vars => SessionsExpire'
  <2> SUFFICES ASSUME TypeAndOrder, SessionsExpire, [Next]_vars, aborts' = 0,
                      NEW s \in Stored', hash'[s].full, hash'[s].deadline = Forever
               PROVE  Sending(s, {"ttl"})'
    BY DEF SessionsExpire
  <2>1. TypeInv /\ aborts = 0
    BY AbortsGrow DEF TypeAndOrder
  <2>2. CASE UNCHANGED vars
    BY <2>1, <2>2 DEF vars, store, SessionsExpire, Sending, Stored
  <2>3. CASE Next
    <3>1. CASE Alive(s) /\ hash'[s].deadline = hash[s].deadline
      <4>1. s \in Stored /\ Sending(s, {"ttl"})
        BY <2>1, <3>1 DEF SessionsExpire, Alive
      <4>2. CASE Sending(s, {"ttl"})'
        BY <4>2
      <4>3. ASSUME NEW w \in Callers, Expire(w), Cmd(w).s = s
            PROVE  FALSE
        <5>1. hash'[s] = [hash[s] EXCEPT !.deadline = now + Cmd(w).ttl] /\ hash[s] \in Hash
          BY <2>1, <4>1, <4>3 DEF Expire, TypeInv, StoreType
        <5>2. Cmd(w).ttl \in Nat /\ Cmd(w).ttl # 0 /\ now \in Nat
          BY <2>1, <4>3, SendsCommand, CommandFields, TtlAssumption, NowType DEF Expire
        <5>3. hash'[s].deadline = now + Cmd(w).ttl
          BY <5>1 DEF Hash
        <5>4. QED
          BY <5>2, <5>3 DEF Forever
      <4>4. QED
        BY <2>3, <4>1, <4>2, <4>3, StaysSending DEF Push, Sends
    <3>2. ASSUME NEW w \in Callers, Expire(w), hash'[s].deadline = now + Cmd(w).ttl
          PROVE  FALSE
      <4>1. Cmd(w).ttl \in Nat /\ Cmd(w).ttl # 0 /\ now \in Nat
        BY <2>1, <3>2, SendsCommand, CommandFields, TtlAssumption, NowType DEF Expire
      <4>2. QED
        BY <3>2, <4>1 DEF Forever
    <3>3. ASSUME NEW w \in Callers, StoreSession(w), s = nextId
          PROVE  Sending(s, {"ttl"})'
      <4> DEFINE k == [c |-> "ttl", s |-> nextId, ttl |-> Cmd(w).ttl]
                 cmds == AfterStore(nextId, Cmd(w).u, Cmd(w).ttl)
      <4>1. k \in Range(cmds) /\ Grows /\ GoesOn(w, cmds)
        BY <2>1, <3>3, StoreSessionStep DEF Goes
      <4>2. k.c = "ttl" /\ k.s = s
        BY <3>3
      <4> HIDE DEF k, cmds
      <4>3. k \in Waiting(w)'
        BY <2>1, <4>1, GoesOnWaiting
      <4>4. k.c \in {"ttl"}
        BY <4>2
      <4>5. QED
        BY <4>2, <4>3, <4>4, SendingNext
    <3>4. QED
      BY <2>1, <2>3, <3>1, <3>2, <3>3, DeadlineBefore
  <2>4. QED
    BY <2>2, <2>3
<1>3. QED
  BY <1>1, <1>2, TypeAlways, PTL DEF Spec


----------------------------------------------------------------------------
(* The users' lists                                                        *)

Listed(s) == s \in Range(lists[owner[s]].ids)

(* Members of a list with one more.                                        *)
LEMMA RangeAppend ==
  ASSUME NEW X, NEW q \in Seq(X), NEW x
  PROVE  Range(Append(q, x)) = Range(q) \cup {x}
<1>1. /\ DOMAIN q = 1..Len(q) /\ Len(q) \in Nat
      /\ DOMAIN Append(q, x) = 1..(Len(q) + 1)
      /\ Append(q, x)[Len(q) + 1] = x
      /\ \A i \in 1..Len(q) : Append(q, x)[i] = q[i]
  OBVIOUS
<1>2. \A i \in 1..(Len(q) + 1) : i \in 1..Len(q) \/ i = Len(q) + 1
  BY <1>1
<1>3. \A i \in 1..Len(q) : i \in 1..(Len(q) + 1)
  BY <1>1
<1>4. Len(q) + 1 \in 1..(Len(q) + 1)
  BY <1>1
<1>5. QED
  BY <1>1, <1>2, <1>3, <1>4 DEF Range

(* RPUSH leaves all that was on any list, and the id on its user's.        *)
LEMMA PushLists ==
  ASSUME TypeInv, NEW w \in Callers, Push(w)
  PROVE  /\ \A u \in Users : Range(lists[u].ids) \subseteq Range(lists'[u].ids)
         /\ Cmd(w).s \in Range(lists'[Cmd(w).u].ids)
<1> DEFINE v == Cmd(w).u
           s == Cmd(w).s
<1>1. /\ v \in Users /\ lists[v].ids \in Seq(Created)
      /\ lists' = [lists EXCEPT ![v].ids = Append(@, s)]
  BY PushStep
<1>2. lists \in [Users -> List(nextId - 1)]
  BY DEF TypeInv, StoreType
<1> HIDE DEF v, s
<1>3. lists'[v].ids = Append(lists[v].ids, s)
  BY <1>1, <1>2 DEF List
<1>4. \A u \in Users \ {v} : lists'[u] = lists[u]
  BY <1>1, <1>2
<1>5. Range(lists'[v].ids) = Range(lists[v].ids) \cup {s}
  BY <1>1, <1>3, RangeAppend
<1>6. QED
  BY <1>4, <1>5 DEF v, s

(* An id stays on its list until LREM takes it off or the list goes, and   *)
(* then it is on the books.                                                *)
LEMMA ListedKept ==
  ASSUME TypeInv, Next, NEW u \in Users, NEW s \in Range(lists[u].ids)
  PROVE  \/ s \in Range(lists'[u].ids) \cup unlisted'
         \/ \E w \in Callers : Unlist(w) /\ Cmd(w).s = s
<1> DEFINE Goal == s \in Range(lists'[u].ids) \cup unlisted'
<1>1. CASE UNCHANGED lists
  BY <1>1
<1>2. CASE Tick
  <2>1. CASE Over(lists[u], now')
    BY <1>2, <2>1 DEF Tick
  <2>2. CASE ~Over(lists[u], now')
    BY <1>2, <2>2 DEF Tick
  <2>3. QED
    BY <2>1, <2>2
<1>3. ASSUME NEW w \in Callers, DropList(w)
      PROVE  Goal
  <2>1. lists \in [Users -> List(nextId - 1)]
    BY DEF TypeInv, StoreType
  <2>2. CASE u = Cmd(w).u
    BY <1>3, <2>2 DEF DropList
  <2>3. CASE u # Cmd(w).u
    BY <1>3, <2>1, <2>3 DEF DropList
  <2>4. QED
    BY <2>2, <2>3
<1>4. ASSUME NEW w \in Callers, Push(w)
      PROVE  Goal
  BY <1>4, PushLists
<1>5. ASSUME NEW w \in Callers, ExpireList(w)
      PROVE  Goal
  <2>1. lists \in [Users -> List(nextId - 1)]
    BY DEF TypeInv, StoreType
  <2>2. lists'[u].ids = lists[u].ids
    BY <1>5, <2>1 DEF ExpireList, List
  <2>3. QED
    BY <2>2
<1>6. ASSUME NEW w \in Callers, Unlist(w)
      PROVE  Goal \/ Cmd(w).s = s
  BY <1>6, UnlistStep
<1>7. ASSUME NEW w \in Callers,
             \/ Abort(w) \/ Expire(w) \/ StoreSession(w) \/ MembersToDelete(w)
             \/ CallCreate(w) \/ CallOnSession(w) \/ CallOnUser(w) \/ CallInactive(w)
             \/ (\E cmds : CommonStep(w, cmds)) \/ LastStep(w)
      PROVE  UNCHANGED lists
  BY <1>7 DEF Abort, Expire, StoreSession, MembersToDelete,
     CallCreate, CallOnSession, CallOnUser, CallInactive, Call, store,
     CommonStep, LastStep
<1>8. QED
  BY <1>1, <1>2, <1>3, <1>4, <1>5, <1>6, <1>7, StepKinds

(* The books of lists that went only grow.                                 *)
LEMMA UnlistedGrows ==
  ASSUME TypeInv, Next
  PROVE  unlisted \subseteq unlisted'
<1>1. CASE Tick
  BY <1>1 DEF Tick
<1>2. ASSUME NEW w \in Callers, DropList(w)
      PROVE  unlisted \subseteq unlisted'
  BY <1>2 DEF DropList
<1>3. ASSUME NEW w \in Callers,
             \/ Abort(w) \/ Expire(w) \/ StoreSession(w) \/ Push(w)
             \/ ExpireList(w) \/ Unlist(w) \/ MembersToDelete(w)
             \/ CallCreate(w) \/ CallOnSession(w) \/ CallOnUser(w) \/ CallInactive(w)
             \/ (\E cmds : CommonStep(w, cmds)) \/ LastStep(w)
      PROVE  UNCHANGED unlisted
  BY <1>3 DEF Abort, Expire, StoreSession, Push, ExpireList, Unlist, MembersToDelete,
     CallCreate, CallOnSession, CallOnUser, CallInactive, Call, store,
     CommonStep, LastStep
<1>4. QED
  BY <1>1, <1>2, <1>3, StepKinds

(* Whatever callers do at the same time, and however long sessions and     *)
(* lists live: as long as no caller stops half-way, a live session is on   *)
(* its user's list, about to be pushed, or was on a list that went as a    *)
(* whole.                                                                  *)
THEOREM ListingCorrect == Spec => []LiveAreListed
<1>1. Init => LiveAreListed
  BY DEF Init, LiveAreListed, Stored
<1>2. TypeAndOrder /\ RevokedUnreadable /\ LiveAreListed /\ [Next]_vars => LiveAreListed'
  <2> SUFFICES ASSUME TypeAndOrder, RevokedUnreadable, LiveAreListed, [Next]_vars,
                      aborts' = 0, NEW s \in Stored', Alive(s)'
               PROVE  Listed(s)' \/ s \in unlisted' \/ Sending(s, {"push"})'
    BY DEF LiveAreListed, Listed
  <2>1. TypeInv /\ RightCmds /\ aborts = 0
    BY AbortsGrow DEF TypeAndOrder
  <2>2. CASE UNCHANGED vars
    BY <2>1, <2>2 DEF vars, store, LiveAreListed, Listed, Sending, Stored, Alive
  <2>3. CASE Next /\ Alive(s)
    <3>1. s \in Stored /\ s \in Created /\ (Listed(s) \/ s \in unlisted \/ Sending(s, {"push"}))
      BY <2>1, <2>3 DEF LiveAreListed, Listed, Alive, TypeInv, StoreType
    <3>2. Grows /\ owner'[s] = owner[s] /\ owner[s] \in Users
      BY <2>1, <2>3, <3>1, StepMoves, OwnerKept
    <3>3. CASE s \in unlisted
      BY <2>1, <2>3, <3>3, UnlistedGrows
    <3>4. CASE Listed(s)
      <4>1. ASSUME NEW w \in Callers, Unlist(w), Cmd(w).s = s
            PROVE  FALSE
        <5>1. Cmd(w).c = "unlist" /\ Cmd(w) \in Waiting(w)
          BY <2>1, <4>1, SendsCommand DEF Unlist
        <5>2. s \in revoked
          BY <2>1, <4>1, <5>1 DEF RightCmds, RightCmd
        <5>3. QED
          BY <2>3, <5>2 DEF RevokedUnreadable
      <4>2. QED
        BY <2>1, <2>3, <3>2, <3>4, <4>1, ListedKept DEF Listed
    <3>5. CASE Sending(s, {"push"})
      <4>1. ASSUME NEW w \in Callers, Sends(w, "push"), Cmd(w) \in Waiting(w), Cmd(w).s = s,
                   Expire(w) \/ Push(w)
            PROVE  Listed(s)'
        <5>1. Push(w)
          BY <4>1 DEF Expire, Sends
        <5>2. Cmd(w).u = owner[s]
          BY <2>1, <4>1 DEF RightCmds, RightCmd, Sends
        <5>3. QED
          BY <2>1, <3>2, <4>1, <5>1, <5>2, PushLists DEF Listed
      <4>2. QED
        BY <2>3, <3>1, <3>5, <4>1, StaysSending
    <3>6. QED
      BY <3>1, <3>3, <3>4, <3>5
  <2>4. ASSUME NEW w \in Callers, StoreSession(w), s = nextId
        PROVE  Sending(s, {"push"})'
    <3> DEFINE k == [c |-> "push", s |-> nextId, u |-> Cmd(w).u]
               cmds == AfterStore(nextId, Cmd(w).u, Cmd(w).ttl)
    <3>1. k \in Range(cmds) /\ Grows /\ GoesOn(w, cmds)
      BY <2>1, <2>4, StoreSessionStep DEF Goes
    <3>2. k.c \in {"push"} /\ k.s = s
      BY <2>4
    <3> HIDE DEF k, cmds
    <3>3. k \in Waiting(w)'
      BY <2>1, <3>1, GoesOnWaiting
    <3>4. QED
      BY <3>2, <3>3, SendingNext
  <2>5. CASE Next /\ ~Alive(s)
    BY <2>1, <2>4, <2>5, DeadlineBefore DEF Alive
  <2>6. QED
    BY <2>2, <2>3, <2>5
<1>3. QED
  BY <1>1, <1>2, TypeAlways, RevokedCorrect, PTL DEF Spec

----------------------------------------------------------------------------
(* delete_user_sessions()                                                  *)

(* A caller that has yet to send delete() of a session.                    *)
Deletes(w, s) == \E k \in Waiting(w) : k.c \in {"owner", "del"} /\ k.s = s

(* Of the sessions that were on the list each is gone, or will be deleted  *)
(* before the list.                                                        *)
Doomed ==
  \A w \in Callers : \A k \in Waiting(w) : k.c = "dropList" =>
    \A s \in k.ids : Alive(s) => Deletes(w, s)

(* Only after it has read the list does a caller have it to drop, and then *)
(* it has a delete() to send of every id it has read.                      *)
LEMMA DropListBefore ==
  ASSUME TypeInv, Next, NEW w \in Callers, NEW k \in Waiting(w)', k.c = "dropList"
  PROVE  k \in Waiting(w) \/ \A s \in k.ids : Deletes(w, s)'
<1>1. CASE Tick
  BY <1>1 DEF Tick, Waiting
<1>2. ASSUME NEW v \in Callers, NEW cmds, GoesOn(v, cmds), Grows,
             \A b \in Range(cmds) : b.c # "dropList"
      PROVE  k \in Waiting(w)
  BY <1>2, GoesOnWaiting, Sent DEF GoesOn
<1>3. ASSUME NEW v \in Callers, NEW cmds, Quiet(v, cmds),
             \A b \in Range(cmds) : Plain(b)
      PROVE  k \in Waiting(w)
  BY <1>3, StartsWaiting DEF Quiet, Begins, Plain
<1>4. ASSUME NEW v \in Callers, Stops(v), Grows
      PROVE  k \in Waiting(w)
  BY <1>4, StopsWaiting
<1>5. ASSUME NEW v \in Callers, Expire(v) \/ Push(v) \/ Unlist(v)
      PROVE  k \in Waiting(w)
  <2>1. GoesOn(v, <<>>) /\ Grows
    BY <1>5, ExpireStep, PushStep, UnlistStep DEF Goes
  <2>2. QED
    BY <1>2, <2>1, EmptyList
<1>6. ASSUME NEW v \in Callers, StoreSession(v)
      PROVE  k \in Waiting(w)
  BY <1>2, <1>6, StoreSessionStep DEF Goes
<1>7. ASSUME NEW v \in Callers, MembersToDelete(v)
      PROVE  k \in Waiting(w) \/ \A s \in k.ids : Deletes(w, s)'
  <2> DEFINE u == Cmd(v).u
             listed == Range(lists[u].ids)
  <2>1. PICK cmds : /\ Goes(v, cmds)
                    /\ Range(cmds) = {DeleteCmd(s) : s \in listed} \cup {DropListCmd(u, listed)}
    BY <1>7, MembersToDeleteStep
  <2> HIDE DEF u, listed
  <2>2. /\ Waiting(v)' = Range(cmds) \cup Rest(v)
        /\ \A x \in Callers \ {v} : Waiting(x)' = Waiting(x)
        /\ Rest(v) \subseteq Waiting(v)
    BY <2>1, GoesOnWaiting, Sent DEF Goes, GoesOn
  <2>3. CASE v # w \/ k \in Rest(v)
    BY <2>2, <2>3
  <2>4. CASE v = w /\ k \in Range(cmds)
    <3>1. k = DropListCmd(u, listed)
      BY <2>1, <2>4 DEF DeleteCmd
    <3>2. \A s \in listed : DeleteCmd(s) \in Waiting(w)'
      BY <2>1, <2>2, <2>4
    <3>3. \A s : DeleteCmd(s).c \in {"owner", "del"} /\ DeleteCmd(s).s = s
      BY DEF DeleteCmd
    <3>4. k.ids = listed
      BY <3>1 DEF DropListCmd
    <3>5. QED
      BY <3>2, <3>3, <3>4 DEF Deletes
  <2>5. QED
    BY <2>2, <2>3, <2>4
<1>8. ASSUME NEW v \in Callers, Abort(v) \/ ExpireList(v) \/ DropList(v) \/ LastStep(v)
      PROVE  k \in Waiting(w)
  BY <1>4, <1>8, AbortStep, ExpireListStep, DropListStep DEF LastStep, Ended
<1>9. ASSUME NEW v \in Callers, NEW cmds, CommonStep(v, cmds)
      PROVE  k \in Waiting(w)
  BY <1>2, <1>9 DEF CommonStep, Goes, Plain
<1>10. ASSUME NEW v \in Callers,
              CallCreate(v) \/ CallOnSession(v) \/ CallOnUser(v) \/ CallInactive(v)
       PROVE  k \in Waiting(w)
  BY <1>3, <1>10, CallCreateStep, CallOnSessionStep, CallOnUserStep, CallInactiveStep
<1>11. QED
  BY <1>1, <1>5, <1>6, <1>7, <1>8, <1>9, <1>10, StepKinds

(* A delete() is not given up, as long as its caller has more to send,     *)
(* until the session is gone.                                              *)
LEMMA DeletesKept ==
  ASSUME TypeInv, Next, NEW w \in Callers, Waiting(w)' # {}, NEW s, Deletes(w, s), Alive(s)'
  PROVE  Deletes(w, s)'
<1>0. PICK k \in Waiting(w) : k.c \in {"owner", "del"} /\ k.s = s
  BY DEF Deletes
<1>1. ASSUME k \in Waiting(w)' PROVE Deletes(w, s)'
  BY <1>0, <1>1 DEF Deletes
<1>2. CASE Tick
  BY <1>1, <1>2 DEF Tick, Waiting
<1>3. ASSUME NEW v \in Callers, NEW cmds, GoesOn(v, cmds), Grows,
             Cmd(v).c \notin {"owner", "del"}
      PROVE  k \in Waiting(w)'
  BY <1>0, <1>3, StillWaiting
<1>4. ASSUME NEW v \in Callers, Stops(v), Grows
      PROVE  k \in Waiting(w)'
  BY <1>4, StopsWaiting, StillWaiting
<1>5. ASSUME NEW v \in Callers,
             Expire(v) \/ Push(v) \/ Unlist(v) \/ StoreSession(v) \/ MembersToDelete(v)
      PROVE  k \in Waiting(w)'
  <2>1. Cmd(v).c \notin {"owner", "del"}
    BY <1>5 DEF Expire, Push, Unlist, StoreSession, MembersToDelete, Sends
  <2>2. \E cmds : GoesOn(v, cmds) /\ Grows
    BY <1>5, ExpireStep, PushStep, UnlistStep, StoreSessionStep, MembersToDeleteStep DEF Goes
  <2>3. QED
    BY <1>3, <2>1, <2>2
<1>6. ASSUME NEW v \in Callers, Abort(v) \/ ExpireList(v) \/ DropList(v) \/ LastStep(v)
      PROVE  k \in Waiting(w)'
  BY <1>4, <1>6, AbortStep, ExpireListStep, DropListStep DEF LastStep, Ended
<1>7. ASSUME NEW v \in Callers, NEW cmds, CommonStep(v, cmds)
      PROVE  Deletes(w, s)'
  <2>1. GoesOn(v, cmds) /\ Grows
    BY <1>7 DEF CommonStep, Goes
  <2>2. CASE k # Cmd(v)
    BY <1>1, <2>1, <2>2, StillWaiting
  <2>3. CASE k = Cmd(v) /\ v # w
    BY <1>1, <2>1, <2>3, GoesOnWaiting
  <2>4. CASE k = Cmd(v) /\ v = w /\ k.c = "owner"
    <3>1. PICK b \in Range(cmds) : b.c = "del" /\ b.s = s
      BY <1>0, <1>7, <2>4 DEF CommonStep
    <3>2. b \in Waiting(w)'
      BY <2>1, <2>4, GoesOnWaiting
    <3>3. QED
      BY <3>1, <3>2 DEF Deletes
  <2>5. CASE k = Cmd(v) /\ k.c = "del"
    BY <1>0, <1>7, <2>5 DEF CommonStep, Alive
  <2>6. QED
    BY <1>0, <2>2, <2>3, <2>4, <2>5
<1>8. ASSUME NEW v \in Callers,
             CallCreate(v) \/ CallOnSession(v) \/ CallOnUser(v) \/ CallInactive(v)
      PROVE  k \in Waiting(w)'
  BY <1>8, StillWaiting, CallCreateStep, CallOnSessionStep, CallOnUserStep,
     CallInactiveStep DEF Quiet, Begins
<1>9. QED
  BY <1>1, <1>2, <1>5, <1>6, <1>7, <1>8, StepKinds

(* Every step keeps the sessions doomed that are.                          *)
LEMMA DoomedStep == TypeAndOrder /\ Doomed /\ [Next]_vars => Doomed'
<1> SUFFICES ASSUME TypeAndOrder, Doomed, [Next]_vars,
                    NEW w \in Callers, NEW k \in Waiting(w)', k.c = "dropList",
                    NEW s \in k.ids, Alive(s)'
             PROVE  Deletes(w, s)'
  BY DEF Doomed
<1>1. TypeInv
  BY DEF TypeAndOrder
<1>2. CASE UNCHANGED vars
  BY <1>2 DEF vars, store, Doomed, Waiting, Deletes, Alive, Stored
<1>3. CASE Next /\ k \in Waiting(w)
  <2>1. k \in Command(nextId - 1)
    BY <1>1, <1>3 DEF TypeInv, CallersType, Waiting, Range
  <2>2. s \in Created
    BY <2>1, CommandFields DEF Created
  <2>3. Alive(s)
    BY <1>1, <2>2, AliveBefore
  <2>4. Deletes(w, s)
    BY <1>3, <2>3 DEF Doomed
  <2>5. QED
    BY <1>1, <1>3, <2>4, DeletesKept
<1>4. CASE Next /\ k \notin Waiting(w)
  BY <1>1, <1>4, DropListBefore
<1>5. QED
  BY <1>2, <1>3, <1>4

(* When delete_user_sessions() is about to drop the list, it has nothing   *)
(* else to send, so that none of the sessions it read from the list is     *)
(* alive.                                                                  *)
THEOREM RevocationCorrect == Spec => []RevokesListed
<1>1. Init => Doomed
  BY EmptyList DEF Init, Doomed, Waiting
<1>2. TypeAndOrder /\ Doomed => RevokesListed
  <2> SUFFICES ASSUME TypeAndOrder, Doomed,
                      NEW w \in Callers, Sends(w, "dropList"), NEW s \in Cmd(w).ids, Alive(s)
               PROVE  FALSE
    BY DEF RevokesListed
  <2>1. TypeInv /\ InOrder
    BY DEF TypeAndOrder
  <2>2. Cmd(w) \in Waiting(w) /\ Cmd(w).c = "dropList" /\ todo[w] # <<>>
    BY <2>1, SendsCommand
  <2>3. PICK k \in Waiting(w) : k.c \in {"owner", "del"}
    BY <2>2 DEF Doomed, Deletes
  <2>4. k \in Rest(w) /\ Before(Cmd(w), k)
    BY <2>1, <2>2, <2>3, Sent
  <2>5. QED
    BY <2>2, <2>4 DEF Before
<1>3. QED
  BY <1>1, <1>2, DoomedStep, TypeAlways, PTL DEF Spec

=============================================================================
