------------------------- MODULE TieredCacheProofs -------------------------
(***************************************************************************)
(* Theorems about TieredCache, for every number of instances and callers,  *)
(* every set of values and every two ttls.                                 *)
(***************************************************************************)
EXTENDS TieredCache, SequenceTheorems, TLAPS

-----------------------------------------------------------------------------
(* Queues *)

Queued(c, q) == \E n \in DOMAIN q : q[n] = c

(* A caller that is appended to a queue it is not in is there once.        *)
LEMMA Appended ==
    ASSUME NEW S, NEW q \in Seq(S), NEW x \in S, IsInjective(q),
           ~Queued(x, q)
    PROVE  /\ Append(q, x) \in Seq(S)
           /\ IsInjective(Append(q, x))
           /\ \A y : Queued(y, Append(q, x)) <=> y = x \/ Queued(y, q)
  <1>1. /\ Len(Append(q, x)) = Len(q) + 1
        /\ DOMAIN Append(q, x) = 1..Len(q) + 1
        /\ \A n \in 1..Len(q) : Append(q, x)[n] = q[n]
        /\ Append(q, x)[Len(q) + 1] = x
        /\ DOMAIN q = 1..Len(q) /\ Len(q) \in Nat
    OBVIOUS
  <1>2. Append(q, x) \in Seq(S)
    OBVIOUS
  <1>3. IsInjective(Append(q, x))
    BY <1>1 DEF IsInjective, Queued
  <1>4. ASSUME NEW y
        PROVE  Queued(y, Append(q, x)) <=> y = x \/ Queued(y, q)
    BY <1>1 DEF Queued
  <1>5. QED
    BY <1>2, <1>3, <1>4

(* One removed from a queue is there no more, the others are as they were. *)
LEMMA Removed ==
    ASSUME NEW S, NEW q \in Seq(S), NEW k \in DOMAIN q, IsInjective(q)
    PROVE  /\ RemoveAt(q, k) \in Seq(S)
           /\ IsInjective(RemoveAt(q, k))
           /\ \A y : Queued(y, RemoveAt(q, k)) <=> y # q[k] /\ Queued(y, q)
  <1> DEFINE r == RemoveAt(q, k)
  <1>1. Len(q) \in Nat /\ DOMAIN q = 1..Len(q) /\ k \in 1..Len(q)
    OBVIOUS
  <1>2. /\ r \in Seq(S)
        /\ Len(r) = Len(q) - 1
        /\ \A n \in 1..Len(r) : r[n] = IF n < k THEN q[n] ELSE q[n + 1]
    <2> DEFINE u == SubSeq(q, 1, k - 1)
               v == SubSeq(q, k + 1, Len(q))
    <2>1. u \in Seq(S) /\ Len(u) = k - 1 /\ \A n \in 1..k - 1 : u[n] = q[n]
      BY <1>1
    <2>2. v \in Seq(S) /\ Len(v) = Len(q) - k /\ \A n \in 1..Len(q) - k : v[n] = q[k + n]
      BY <1>1
    <2> HIDE DEF u, v
    <2> DEFINE w == u \o v
    <2>3. /\ w \in Seq(S)
          /\ Len(w) = Len(u) + Len(v)
          /\ \A n \in 1..Len(u) + Len(v) :
                w[n] = IF n <= Len(u) THEN u[n] ELSE v[n - Len(u)]
      BY <2>1, <2>2, ConcatProperties, Zenon
    <2> HIDE DEF w
    <2>4. Len(w) = Len(q) - 1
      BY <1>1, <2>1, <2>2, <2>3
    <2>5. ASSUME NEW n \in 1..Len(w)
          PROVE  w[n] = IF n < k THEN q[n] ELSE q[n + 1]
      <3>1. /\ n \in 1..Len(u) + Len(v)
            /\ w[n] = IF n <= k - 1 THEN u[n] ELSE v[n - (k - 1)]
        BY <2>1, <2>3, <2>5
      <3>2. CASE n < k
        BY <1>1, <2>1, <2>4, <3>1, <3>2
      <3>3. CASE n >= k
        <4> DEFINE m == n - (k - 1)
        <4>1. m \in 1..Len(q) - k /\ k + m = n + 1 /\ w[n] = v[m]
          BY <1>1, <2>4, <3>1, <3>3
        <4> HIDE DEF m
        <4>2. v[m] = q[k + m]
          BY <2>2, <4>1
        <4>3. QED
          BY <1>1, <2>4, <3>3, <4>1, <4>2
      <3>4. QED
        BY <1>1, <2>4, <3>2, <3>3
    <2>6. QED
      BY <2>3, <2>4, <2>5 DEF RemoveAt, u, v, w
  <1>3. DOMAIN r = 1..Len(q) - 1
    BY <1>2
  <1> HIDE DEF r
  <1>4. IsInjective(r)
    <2>1. ASSUME NEW m \in 1..Len(q) - 1, NEW n \in 1..Len(q) - 1, r[m] = r[n]
          PROVE  m = n
      <3> DEFINE shift(j) == IF j < k THEN j ELSE j + 1
      <3>1. /\ shift(m) \in DOMAIN q /\ shift(n) \in DOMAIN q
            /\ q[shift(m)] = q[shift(n)]
        BY <1>1, <1>2, <2>1
      <3>2. shift(m) = shift(n)
        BY <3>1 DEF IsInjective
      <3>3. QED
        BY <1>1, <3>2
    <2>2. QED
      BY <1>3, <2>1 DEF IsInjective
  <1>5. ASSUME NEW y
        PROVE  Queued(y, r) <=> y # q[k] /\ Queued(y, q)
    <2>1. ASSUME NEW n \in DOMAIN r, r[n] = y
          PROVE  y # q[k] /\ \E m \in DOMAIN q : q[m] = y
      <3> DEFINE j == IF n < k THEN n ELSE n + 1
      <3>1. j \in DOMAIN q /\ j # k /\ q[j] = y
        BY <1>1, <1>2, <1>3, <2>1
      <3>2. QED
        BY <3>1 DEF IsInjective
    <2>2. ASSUME NEW m \in DOMAIN q, q[m] = y, y # q[k]
          PROVE  \E n \in DOMAIN r : r[n] = y
      <3>1. CASE m < k
        <4>1. m \in DOMAIN r /\ r[m] = y
          BY <1>1, <1>2, <1>3, <2>2, <3>1
        <4>2. QED
          BY <4>1
      <3>2. CASE m > k
        <4>1. m - 1 \in DOMAIN r /\ r[m - 1] = y
          BY <1>1, <1>2, <1>3, <2>2, <3>2
        <4>2. QED
          BY <4>1
      <3>3. QED
        BY <1>1, <2>2, <3>1, <3>2
    <2>3. QED
      BY <2>1, <2>2 DEF Queued
  <1>6. QED
    BY <1>2, <1>4, <1>5 DEF r

(* The head of a queue goes the same way. *)
LEMMA Tailed ==
    ASSUME NEW S, NEW q \in Seq(S), q # <<>>, IsInjective(q)
    PROVE  /\ Tail(q) \in Seq(S)
           /\ IsInjective(Tail(q))
           /\ \A y : Queued(y, Tail(q)) <=> y # Head(q) /\ Queued(y, q)
  <1> DEFINE r == Tail(q)
  <1>1. Len(q) \in Nat \ {0} /\ DOMAIN q = 1..Len(q) /\ Head(q) = q[1]
    OBVIOUS
  <1>2. /\ r \in Seq(S)
        /\ Len(r) = Len(q) - 1
        /\ \A n \in 1..Len(r) : r[n] = q[n + 1]
        /\ DOMAIN r = 1..Len(q) - 1
    BY <1>1
  <1> HIDE DEF r
  <1>3. IsInjective(r)
    <2>1. ASSUME NEW m \in 1..Len(q) - 1, NEW n \in 1..Len(q) - 1, r[m] = r[n]
          PROVE  m = n
      <3>1. m + 1 \in DOMAIN q /\ n + 1 \in DOMAIN q /\ q[m + 1] = q[n + 1]
        BY <1>1, <1>2, <2>1
      <3>2. m + 1 = n + 1
        BY <3>1 DEF IsInjective
      <3>3. QED
        BY <1>1, <3>2
    <2>2. QED
      BY <1>2, <2>1 DEF IsInjective
  <1>4. ASSUME NEW y
        PROVE  Queued(y, r) <=> y # q[1] /\ Queued(y, q)
    <2>1. ASSUME NEW n \in DOMAIN r, r[n] = y
          PROVE  y # q[1] /\ \E m \in DOMAIN q : q[m] = y
      BY <1>1, <1>2, <2>1 DEF IsInjective
    <2>2. ASSUME NEW m \in DOMAIN q, q[m] = y, y # q[1]
          PROVE  \E n \in DOMAIN r : r[n] = y
      <3>1. m - 1 \in DOMAIN r /\ r[m - 1] = y
        BY <1>1, <1>2, <2>2
      <3>2. QED
        BY <3>1
    <2>3. QED
      BY <2>1, <2>2 DEF Queued
  <1>5. QED
    BY <1>1, <1>2, <1>3, <1>4 DEF r

-----------------------------------------------------------------------------
(* TypeOK is inductive as it stands; its two halves are proved one after   *)
(* the other.                                                              *)

Shapes ==
    /\ source \in Values
    /\ L1 \in [Instances -> Entries \cup {None}]
    /\ L2 \in Entries \cup {None}
    /\ pc \in [Callers -> {"idle", "waiting", "fetching"}]
    /\ got \in [Callers -> Values \cup {None}]
    /\ lock \in [Instances -> Locked \cup {None}]
    /\ waiters \in [Instances -> Seq(Locked)]

Queues ==
    /\ \A c \in Locked :
          /\ pc[c] = "fetching" <=> lock[On[c]] = c
          /\ pc[c] = "waiting" <=> Queued(c, waiters[On[c]])
    /\ \A c \in Decorated : pc[c] # "waiting"
    /\ \A i \in Instances : IsInjective(waiters[i])

LEMMA Halves == TypeOK <=> Shapes /\ Queues
  BY DEF TypeOK, Shapes, Queues, Queued

LEMMA CallersFacts ==
    /\ Locked \subseteq Callers
    /\ \A c \in Callers : On[c] \in Instances
    /\ None \notin Callers
  BY CallersAssumption, ValuesAssumption DEF Locked

(* What an entry may be after a lookup, a store or a tick. *)
LEMMA LookedEntry ==
    ASSUME Shapes, NEW i \in Instances, NEW reached \in BOOLEAN
    PROVE  Looked(L1[i], reached) \in Entries \cup {None}
  BY TTLAssumption DEF Shapes, Looked, Entries

LEMMA OlderEntry ==
    ASSUME NEW e \in Entries \cup {None}
    PROVE  /\ Older(e) \in Entries \cup {None}
           /\ Older(e) # None => e # None /\ Older(e).age + Older(e).left = e.age + e.left
  <1>1. CASE e = None \/ e.left = 1
    BY <1>1 DEF Older
  <1>2. CASE e # None /\ e.left # 1
    <2>1. e \in Entries
      BY <1>2
    <2>2. Older(e) = [e EXCEPT !.left = @ - 1, !.age = @ + 1]
      BY <1>2 DEF Older
    <2>3. e.left - 1 \in Nat \ {0} /\ e.age + 1 \in Nat
      BY <1>2, <2>1 DEF Entries
    <2>4. /\ Older(e) \in Entries
          /\ Older(e).left = e.left - 1 /\ Older(e).age = e.age + 1
      BY <2>1, <2>2, <2>3 DEF Entries
    <2>5. QED
      BY <1>2, <2>1, <2>4 DEF Entries
  <1>3. QED
    BY <1>1, <1>2

LEMMA StoreEntries ==
    ASSUME Shapes, NEW i \in Instances, NEW v \in Values, NEW reached \in BOOLEAN,
           Store(i, v, reached)
    PROVE  /\ L1' \in [Instances -> Entries \cup {None}]
           /\ L2' \in Entries \cup {None}
  BY TTLAssumption DEF Shapes, Store, Entries

LEMMA InvalidateEntries ==
    ASSUME Shapes, NEW i \in Instances, NEW reached \in BOOLEAN, Invalidate(i, reached)
    PROVE  /\ L1' \in [Instances -> Entries \cup {None}]
           /\ L2' \in Entries \cup {None}
  BY DEF Shapes, Invalidate

(* Whoever has its turn is the head of its own queue. *)
LEMMA TurnFacts ==
    ASSUME Shapes, Queues, NEW c \in Callers, Turn(c)
    PROVE  /\ c \in Locked
           /\ waiters[On[c]] \in Seq(Locked) /\ waiters[On[c]] # <<>>
           /\ IsInjective(waiters[On[c]])
           /\ Tail(waiters[On[c]]) \in Seq(Locked)
  <1>1. c \in Locked
    BY DEF Turn, Queues, Locked
  <1>2. waiters[On[c]] \in Seq(Locked) /\ IsInjective(waiters[On[c]])
    BY CallersFacts DEF Shapes, Queues
  <1>3. Queued(c, waiters[On[c]])
    BY <1>1 DEF Turn, Queues
  <1>4. waiters[On[c]] # <<>>
    BY <1>2, <1>3 DEF Queued
  <1>5. QED
    BY <1>1, <1>2, <1>4

(* The shapes of the variables survive every step. *)
LEMMA ShapesStep ==
    ASSUME Shapes, Queues, [Next]_vars
    PROVE  Shapes'
  <1> USE CallersFacts
  <1>1. ASSUME NEW c \in Callers, NEW hit \in BOOLEAN, Lookup(c, hit)
        PROVE  L1' \in [Instances -> Entries \cup {None}]
    BY <1>1, LookedEntry DEF Lookup, Shapes
  <1>2. ASSUME NEW c \in Callers, Hit(c) PROVE Shapes'
    BY <1>2, <1>1 DEF Hit, Shapes
  <1>3. ASSUME NEW c \in Callers, MissDecorated(c) PROVE Shapes'
    BY <1>3, <1>1 DEF MissDecorated, Shapes
  <1>4. ASSUME NEW c \in Callers, Wait(c) PROVE Shapes'
    <2>1. Append(waiters[On[c]], c) \in Seq(Locked)
      BY <1>4 DEF Wait, Shapes
    <2>2. QED
      BY <1>4, <1>1, <2>1 DEF Wait, Shapes
  <1>5. ASSUME NEW c \in Callers, Enter(c) PROVE Shapes'
    BY <1>5, <1>1 DEF Enter, Shapes
  <1>6. ASSUME NEW c \in Callers, Woken(c) PROVE Shapes'
    <2>1. c \in Locked /\ Tail(waiters[On[c]]) \in Seq(Locked)
      BY <1>6, TurnFacts DEF Woken
    <2>2. L1' \in [Instances -> Entries \cup {None}]
      BY <1>6, LookedEntry DEF Woken, Shapes
    <2>3. \/ pc' = [pc EXCEPT ![c] = "idle"] /\ lock' = lock
          \/ pc' = [pc EXCEPT ![c] = "fetching"] /\ lock' = [lock EXCEPT ![On[c]] = c]
      BY <1>6 DEF Woken
    <2>4. /\ pc' \in [Callers -> {"idle", "waiting", "fetching"}]
          /\ lock' \in [Instances -> Locked \cup {None}]
      <3>1. CASE pc' = [pc EXCEPT ![c] = "idle"] /\ lock' = lock
        BY <3>1 DEF Shapes
      <3>2. CASE pc' = [pc EXCEPT ![c] = "fetching"] /\ lock' = [lock EXCEPT ![On[c]] = c]
        BY <2>1, <3>2 DEF Shapes
      <3>3. QED
        BY <2>3, <3>1, <3>2
    <2>5. waiters' \in [Instances -> Seq(Locked)]
      BY <1>6, <2>1 DEF Woken, Shapes
    <2>6. QED
      BY <1>6, <2>2, <2>4, <2>5 DEF Woken, Shapes
  <1>7. ASSUME NEW c \in Callers, WokenKeyError(c) PROVE Shapes'
    <2>1. Tail(waiters[On[c]]) \in Seq(Locked)
      BY <1>7, TurnFacts DEF WokenKeyError
    <2>2. QED
      BY <1>7, <2>1 DEF WokenKeyError, Shapes
  <1>8. ASSUME NEW c \in Callers, Read(c) PROVE Shapes'
    BY <1>8 DEF Read, Shapes
  <1>9. ASSUME NEW c \in Callers, Finish(c) PROVE Shapes'
    <2>1. got[c] \in Values
      BY <1>9 DEF Finish, Shapes
    <2>2. L1' \in [Instances -> Entries \cup {None}] /\ L2' \in Entries \cup {None}
      BY <1>9, <2>1, StoreEntries DEF Finish
    <2>3. QED
      BY <1>9, <2>2 DEF Finish, Leave, Release, Shapes
  <1>10. ASSUME NEW c \in Callers, FetchFails(c) PROVE Shapes'
    BY <1>10 DEF FetchFails, FetchEnds, Leave, Release, Shapes
  <1>11. ASSUME NEW c \in Callers, CancelWaiting(c) PROVE Shapes'
    <2>1. PICK n \in DOMAIN waiters[On[c]] :
             waiters' = [waiters EXCEPT ![On[c]] = RemoveAt(@, n)]
      BY <1>11 DEF CancelWaiting
    <2>2. RemoveAt(waiters[On[c]], n) \in Seq(Locked)
      BY <2>1, Removed DEF Shapes, Queues
    <2>3. QED
      BY <1>11, <2>1, <2>2 DEF CancelWaiting, Leave, Shapes
  <1>12. ASSUME NEW i \in Instances, Set(i) PROVE Shapes'
    BY <1>12, StoreEntries DEF Set, Quiet, Shapes
  <1>13. ASSUME NEW i \in Instances, Delete(i) PROVE Shapes'
    BY <1>13, InvalidateEntries DEF Delete, Quiet, Shapes
  <1>14. ASSUME NEW i \in Instances, Clear(i) PROVE Shapes'
    <2>1. PICK matches \in BOOLEAN, reached \in BOOLEAN : Invalidate(i, matches /\ reached)
      BY <1>14 DEF Clear
    <2>2. (matches /\ reached) \in BOOLEAN
      BY Zenon
    <2>3. L1' \in [Instances -> Entries \cup {None}] /\ L2' \in Entries \cup {None}
      BY <2>1, <2>2, InvalidateEntries
    <2>4. QED
      BY <1>14, <2>3 DEF Clear, Quiet, Shapes
  <1>15. ASSUME NEW i \in Instances, Evict(i) PROVE Shapes'
    BY <1>15 DEF Evict, Quiet, Shapes
  <1>16. ASSUME NEW i \in Instances, Restart(i) PROVE Shapes'
    <2>1. <<>> \in Seq(Locked)
      OBVIOUS
    <2>2. QED
      BY <1>16, <2>1 DEF Restart, Shapes
  <1>17. CASE RedisForgets
    BY <1>17 DEF RedisForgets, Quiet, Shapes
  <1>18. CASE Update
    BY <1>18 DEF Update, Shapes
  <1>19. CASE Tick
    BY <1>19, OlderEntry DEF Tick, Quiet, Shapes
  <1>20. CASE UNCHANGED vars
    BY <1>20 DEF vars, Shapes
  <1>21. QED
    BY <1>2, <1>3, <1>4, <1>5, <1>6, <1>7, <1>8, <1>9, <1>10, <1>11, <1>12, <1>13,
       <1>14, <1>15, <1>16, <1>17, <1>18, <1>19, <1>20 DEF Next, Call

(* Locks and queues.  An action that leaves pc, lock and waiters alone     *)
(* cannot disturb them.                                                    *)
LEMMA QueuesStep ==
    ASSUME Shapes, Queues, [Next]_vars
    PROVE  Queues'
  <1> USE CallersFacts
  <1>1. ASSUME UNCHANGED <<pc, lock, waiters>> PROVE Queues'
    BY <1>1 DEF Queues, Queued
  <1>2. ASSUME NEW c \in Callers, MissDecorated(c) PROVE Queues'
    <2>1. /\ c \notin Locked /\ pc' = [pc EXCEPT ![c] = "fetching"]
          /\ lock' = lock /\ waiters' = waiters
      BY <1>2 DEF MissDecorated, Locked
    <2>2. QED
      BY <2>1, CallersAssumption DEF Queues, Shapes
  <1>3. ASSUME NEW c \in Callers, Wait(c) PROVE Queues'
    <2> DEFINE i == On[c]
               q == waiters[On[c]]
    <2>1. /\ c \in Locked /\ pc[c] = "idle" /\ i \in Instances
          /\ pc' = [pc EXCEPT ![c] = "waiting"]
          /\ waiters' = [waiters EXCEPT ![i] = Append(q, c)]
          /\ lock' = lock
      BY <1>3 DEF Wait, Lookup
    <2>2. q \in Seq(Locked) /\ IsInjective(q) /\ ~Queued(c, q)
      BY <2>1 DEF Shapes, Queues
    <2>3. /\ IsInjective(Append(q, c))
          /\ \A y : Queued(y, Append(q, c)) <=> y = c \/ Queued(y, q)
      BY <2>1, <2>2, Appended
    <2>4. QED
      BY <2>1, <2>3 DEF Shapes, Queues, Locked
  <1>4. ASSUME NEW c \in Callers, Enter(c) PROVE Queues'
    <2>1. /\ c \in Locked /\ pc[c] = "idle" /\ On[c] \in Instances
          /\ lock[On[c]] = None
          /\ pc' = [pc EXCEPT ![c] = "fetching"]
          /\ lock' = [lock EXCEPT ![On[c]] = c]
          /\ waiters' = waiters
      BY <1>4 DEF Enter, Lookup, LockFree
    <2>2. QED
      BY <2>1 DEF Shapes, Queues, Locked
  <1>5. ASSUME NEW c \in Callers, Turn(c), waiters' = [waiters EXCEPT ![On[c]] = Tail(@)],
               \/ pc' = [pc EXCEPT ![c] = "idle"] /\ lock' = lock
               \/ pc' = [pc EXCEPT ![c] = "fetching"] /\ lock' = [lock EXCEPT ![On[c]] = c]
        PROVE  Queues'
    <2> DEFINE q == waiters[On[c]]
    <2>1. /\ c \in Locked /\ pc[c] = "waiting" /\ On[c] \in Instances
          /\ lock[On[c]] = None /\ c = Head(q)
      BY <1>5, TurnFacts DEF Turn
    <2>2. q \in Seq(Locked) /\ q # <<>> /\ IsInjective(q)
      BY <1>5, TurnFacts
    <2>3. /\ IsInjective(Tail(q))
          /\ \A y : Queued(y, Tail(q)) <=> y # c /\ Queued(y, q)
      BY <2>1, <2>2, Tailed
    <2>4. waiters' = [waiters EXCEPT ![On[c]] = Tail(q)]
      BY <1>5
    <2>5. CASE pc' = [pc EXCEPT ![c] = "idle"] /\ lock' = lock
      BY <2>1, <2>3, <2>4, <2>5 DEF Shapes, Queues, Locked
    <2>6. CASE pc' = [pc EXCEPT ![c] = "fetching"] /\ lock' = [lock EXCEPT ![On[c]] = c]
      BY <2>1, <2>3, <2>4, <2>6 DEF Shapes, Queues, Locked
    <2>7. QED
      BY <1>5, <2>5, <2>6
  <1>6. ASSUME NEW c \in Callers, Woken(c) PROVE Queues'
    BY <1>5, <1>6 DEF Woken
  <1>7. ASSUME NEW c \in Callers, WokenKeyError(c) PROVE Queues'
    BY <1>5, <1>7 DEF WokenKeyError
  <1>8. ASSUME NEW c \in Callers, pc[c] = "fetching", Leave(c), Release(c),
               UNCHANGED waiters
        PROVE  Queues'
    BY <1>8 DEF Leave, Release, Shapes, Queues, Locked
  <1>9. ASSUME NEW c \in Callers, Finish(c) \/ FetchFails(c) PROVE Queues'
    BY <1>8, <1>9 DEF Finish, FetchFails, FetchEnds
  <1>10. ASSUME NEW c \in Callers, CancelWaiting(c) PROVE Queues'
    <2> DEFINE q == waiters[On[c]]
    <2>1. PICK n \in DOMAIN q :
             q[n] = c /\ waiters' = [waiters EXCEPT ![On[c]] = RemoveAt(q, n)]
      BY <1>10 DEF CancelWaiting
    <2>2. /\ c \in Locked /\ pc[c] = "waiting" /\ On[c] \in Instances
          /\ pc' = [pc EXCEPT ![c] = "idle"] /\ lock' = lock
      BY <1>10 DEF CancelWaiting, Leave, Queues, Locked
    <2>3. q \in Seq(Locked) /\ IsInjective(q)
      BY <2>2 DEF Shapes, Queues
    <2>4. /\ IsInjective(RemoveAt(q, n))
          /\ \A y : Queued(y, RemoveAt(q, n)) <=> y # c /\ Queued(y, q)
      BY <2>1, <2>3, Removed
    <2>5. QED
      BY <2>1, <2>2, <2>4 DEF Shapes, Queues, Locked
  <1>11. ASSUME NEW i \in Instances, Restart(i) PROVE Queues'
    <2>1. IsInjective(<<>>) /\ \A y : ~Queued(y, <<>>)
      BY DEF IsInjective, Queued
    <2>2. ASSUME NEW c \in Locked
          PROVE  /\ pc'[c] = "fetching" <=> lock'[On[c]] = c
                 /\ pc'[c] = "waiting" <=> Queued(c, waiters'[On[c]])
      BY <1>11, <2>1 DEF Restart, Shapes, Queues, Locked
    <2>3. \A c \in Decorated : pc'[c] # "waiting"
      BY <1>11, CallersAssumption DEF Restart, Queues
    <2>4. \A j \in Instances : IsInjective(waiters'[j])
      BY <1>11, <2>1 DEF Restart, Shapes, Queues
    <2>5. QED
      BY <2>2, <2>3, <2>4 DEF Queues
  <1>12. QED
    BY <1>1, <1>2, <1>3, <1>4, <1>6, <1>7, <1>9, <1>10, <1>11
       DEF Next, Call, Hit, Read, Set, Delete, Clear, Evict, RedisForgets, Update, Tick, Quiet, vars

-----------------------------------------------------------------------------
(* Theorems *)

(* Every variable has its type, a lock belongs to the caller that fetches  *)
(* under it, and its queue holds the callers that wait (get_with_lock).    *)
THEOREM TypeCorrect == Spec => []TypeOK
  <1>1. Init => Shapes /\ Queues
    <2> SUFFICES ASSUME Init PROVE Shapes /\ Queues
      OBVIOUS
    <2>1. Shapes
      BY DEF Init, Shapes
    <2>2. IsInjective(<<>>) /\ \A y : ~Queued(y, <<>>)
      BY DEF IsInjective, Queued
    <2>3. Queues
      BY <2>2, CallersFacts, CallersAssumption DEF Init, Queues
    <2>4. QED
      BY <2>1, <2>3
  <1>2. Shapes /\ Queues /\ [Next]_vars => (Shapes /\ Queues)'
    BY ShapesStep, QueuesStep
  <1>3. QED
    BY <1>1, <1>2, Halves, PTL DEF Spec

(* A caller of get_with_lock fetches only when no other on its instance    *)
(* does, and only when the instance's L1 has nothing it could use.         *)
THEOREM NoStampedeCorrect == Spec => NoStampede
  <1> DEFINE Alone(c) ==
         /\ ~Usable(L1[On[c]])
         /\ \A d \in Locked : On[d] = On[c] => pc[d] # "fetching"
  <1>1. ASSUME TypeOK, [Next]_vars, NEW c \in Locked, pc[c] # "fetching", pc'[c] = "fetching"
        PROVE  Alone(c)
    <2> USE CallersFacts
    <2>1. Shapes /\ Queues
      BY <1>1, Halves
    <2>2. Enter(c) \/ Woken(c)
      <3>1. ASSUME NEW x \in Callers, Call(x) PROVE Enter(c)
        BY <1>1, <2>1, <3>1 DEF Call, Hit, MissDecorated, Wait, Enter, Shapes, Locked
      <3>2. ASSUME NEW x \in Callers, Woken(x) PROVE Woken(c)
        BY <1>1, <2>1, <3>2 DEF Woken, Shapes, Locked
      <3>3. ASSUME NEW x \in Callers,
                   WokenKeyError(x) \/ Finish(x) \/ FetchFails(x) \/ CancelWaiting(x)
            PROVE  FALSE
        BY <1>1, <2>1, <3>3
           DEF WokenKeyError, Finish, FetchFails, FetchEnds, CancelWaiting, Leave, Shapes, Locked
      <3>4. ASSUME NEW i \in Instances, Restart(i) PROVE FALSE
        BY <1>1, <3>4 DEF Restart, Locked
      <3>5. pc' # pc
        BY <1>1
      <3>6. QED
        BY <1>1, <3>1, <3>2, <3>3, <3>4, <3>5
           DEF Next, Read, Set, Delete, Clear, Evict, RedisForgets, Update, Tick, Quiet, vars
    <2>3. lock[On[c]] = None
      BY <2>2 DEF Enter, LockFree, Woken, Turn
    <2>4. \A d \in Locked : On[d] = On[c] => pc[d] # "fetching"
      BY <2>1, <2>3 DEF Queues, Locked
    <2>5. PICK reached \in BOOLEAN : ~Usable(Looked(L1[On[c]], reached))
      <3>1. CASE Enter(c)
        BY <3>1 DEF Enter, Lookup
      <3>2. CASE Woken(c)
        BY <1>1, <2>1, <3>2 DEF Woken, Filled, Shapes, Locked
      <3>3. QED
        BY <2>2, <3>1, <3>2
    <2>6. ~Usable(L1[On[c]])
      BY <2>5 DEF Looked, Usable
    <2>7. QED
      BY <2>4, <2>6
  <1>2. TypeOK /\ [Next]_vars =>
           [\A c \in Locked : pc[c] # "fetching" /\ pc'[c] = "fetching" => Alone(c)]_vars
    BY <1>1
  <1>3. QED
    BY <1>2, TypeCorrect, PTL DEF Spec, NoStampede


(* Every L1 has dropped a value before it is ttl + l1_ttl old, and Redis   *)
(* when it is ttl old, through any number of promotions, instances and     *)
(* failed commands.                                                        *)
THEOREM StaleCorrect == Spec => []StaleBounded
  <1> USE CallersFacts
  <1>1. Init => StaleBounded
    BY DEF Init, StaleBounded
  <1>2. ASSUME Shapes, StaleBounded, NEW i \in Instances, NEW reached \in BOOLEAN,
               LET e == Looked(L1[i], reached)
               IN  L1' = [L1 EXCEPT ![i] = e],
               L2' = L2
        PROVE  StaleBounded'
    <2> DEFINE e == Looked(L1[i], reached)
    <2>1. e # None => e.age + e.left < TTL + L1TTL
      <3>1. CASE L1[i] = None /\ reached /\ L2 # None
        <4>1. e = [L2 EXCEPT !.left = L1TTL]
          BY <3>1 DEF Looked
        <4>2. L2 \in Entries /\ L2.age + L2.left = TTL
          BY <1>2, <3>1 DEF Shapes, StaleBounded
        <4>3. e.age = L2.age /\ e.left = L1TTL
          BY <4>1, <4>2 DEF Entries
        <4>4. L2.age \in Nat /\ L2.left \in Nat \ {0}
          BY <4>2 DEF Entries
        <4>5. QED
          BY <4>2, <4>3, <4>4, TTLAssumption
      <3>2. CASE ~(L1[i] = None /\ reached /\ L2 # None)
        BY <1>2, <3>2 DEF Looked, StaleBounded
      <3>3. QED
        BY <3>1, <3>2
    <2>2. L1' = [L1 EXCEPT ![i] = e]
      BY <1>2
    <2> HIDE DEF e
    <2>3. QED
      BY <1>2, <2>1, <2>2 DEF Shapes, StaleBounded
  <1>3. ASSUME Shapes, StaleBounded, NEW i \in Instances, NEW v \in Values,
               NEW reached \in BOOLEAN, Store(i, v, reached)
        PROVE  StaleBounded'
    BY <1>3, TTLAssumption DEF Store, Shapes, StaleBounded
  <1>4. ASSUME Shapes, StaleBounded, NEW i \in Instances, NEW reached,
               Invalidate(i, reached)
        PROVE  StaleBounded'
    BY <1>4 DEF Invalidate, Shapes, StaleBounded
  <1>5. ASSUME Shapes, StaleBounded, Tick PROVE StaleBounded'
    <2>1. ASSUME NEW i \in Instances, L1'[i] # None
          PROVE  L1'[i].age + L1'[i].left < TTL + L1TTL
      BY <1>5, <2>1, OlderEntry DEF Tick, Shapes, StaleBounded
    <2>2. L2' # None => L2'.age + L2'.left = TTL
      BY <1>5, OlderEntry DEF Tick, Shapes, StaleBounded
    <2>3. QED
      BY <2>1, <2>2 DEF StaleBounded
  <1>6. ASSUME UNCHANGED <<L1, L2>>, StaleBounded PROVE StaleBounded'
    BY <1>6 DEF StaleBounded
  <1>7. Shapes /\ StaleBounded /\ [Next]_vars => StaleBounded'
    <2> SUFFICES ASSUME Shapes, StaleBounded, [Next]_vars
                 PROVE  StaleBounded'
      OBVIOUS
    <2>1. ASSUME NEW c \in Callers, Call(c) \/ Woken(c) PROVE StaleBounded'
      <3>1. PICK reached \in BOOLEAN :
               L1' = [L1 EXCEPT ![On[c]] = Looked(L1[On[c]], reached)]
        BY <2>1 DEF Call, Hit, MissDecorated, Wait, Enter, Lookup, Woken
      <3>2. L2' = L2
        BY <2>1 DEF Call, Hit, MissDecorated, Wait, Enter, Woken
      <3>3. QED
        BY <1>2, <3>1, <3>2
    <2>2. ASSUME NEW c \in Callers, Finish(c) PROVE StaleBounded'
      <3>1. got[c] \in Values
        BY <2>2 DEF Finish, Shapes
      <3>2. QED
        BY <1>3, <2>2, <3>1 DEF Finish
    <2>3. ASSUME NEW i \in Instances, Set(i) PROVE StaleBounded'
      BY <1>3, <2>3 DEF Set
    <2>4. ASSUME NEW i \in Instances, Delete(i) \/ Clear(i) PROVE StaleBounded'
      BY <1>4, <2>4 DEF Delete, Clear
    <2>5. ASSUME NEW i \in Instances, Evict(i) \/ Restart(i) PROVE StaleBounded'
      BY <2>5 DEF Evict, Restart, Shapes, StaleBounded
    <2>6. CASE RedisForgets
      BY <2>6 DEF RedisForgets, StaleBounded
    <2>7. CASE Tick
      BY <1>5, <2>7
    <2>8. QED
      BY <1>6, <2>1, <2>2, <2>3, <2>4, <2>5, <2>6, <2>7
         DEF Next, WokenKeyError, Read, FetchFails, CancelWaiting, Update, vars
  <1>8. QED
    BY <1>1, <1>7, TypeCorrect, Halves, PTL DEF Spec


=============================================================================
