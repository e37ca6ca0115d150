------------------------ MODULE SessionTimeoutProofs ------------------------
(***************************************************************************)
(* Proofs about the in-memory session store and the middleware in front of *)
(* it, for any users, lifetimes, limit and timeout.                        *)
(***************************************************************************)
EXTENDS SessionTimeout, FiniteSetTheorems, SequenceTheorems, TLAPS

----------------------------------------------------------------------------
(* Without() *)

(* A set of numbers below a bound is finite, and so is every part of it.   *)
LEMMA RankFinite ==
  ASSUME NEW S, S \subseteq Nat, IsFiniteSet(S), NEW i \in S
  PROVE  /\ IsFiniteSet({j \in S : j <= i})
         /\ Rank(S, i) \in 1..Cardinality(S)
<1>0. i \in Nat
  OBVIOUS
<1> DEFINE low == {j \in S : j <= i}
<1>1. IsFiniteSet(low) /\ Cardinality(low) <= Cardinality(S)
  BY FS_Subset
<1>2. Cardinality(low) \in Nat /\ Cardinality(S) \in Nat
  BY <1>1, FS_CardinalityType
<1>3. i \in low
  BY <1>0
<1>4. Cardinality(low) # 0
  BY <1>1, <1>3, FS_EmptySet
<1>5. QED
  BY <1>1, <1>2, <1>4 DEF Rank

(* Of two members of a set of numbers the larger one has the larger rank.  *)
LEMMA RankMonotone ==
  ASSUME NEW S, S \subseteq Nat, IsFiniteSet(S),
         NEW i \in S, NEW j \in S, i < j
  PROVE  Rank(S, i) < Rank(S, j)
<1> DEFINE low(k) == {m \in S : m <= k}
<1>1. IsFiniteSet(low(j)) /\ IsFiniteSet(low(i))
  BY FS_Subset
<1>2. low(i) \in SUBSET low(j)
  <2>1. \A m \in S : m <= i => m <= j
    OBVIOUS
  <2>2. QED
    BY <2>1
<1>3. j \in low(j) /\ j \notin low(i)
  OBVIOUS
<1>4. Cardinality(low(i)) <= Cardinality(low(j)) /\ Cardinality(low(j)) # Cardinality(low(i))
  <2> HIDE DEF low
  <2>1. QED BY <1>1, <1>2, <1>3, FS_Subset
<1>5. Cardinality(low(i)) \in Nat /\ Cardinality(low(j)) \in Nat
  <2> HIDE DEF low
  <2>1. QED BY <1>1, FS_CardinalityType
<1>6. QED
  BY <1>4, <1>5 DEF Rank

(* The n-th member exists: the ranks of a set are 1..Cardinality(set).     *)
LEMMA NthExists ==
  ASSUME NEW S, S \subseteq Nat, IsFiniteSet(S), NEW n \in 1..Cardinality(S)
  PROVE  Nth(S, n) \in S /\ Rank(S, Nth(S, n)) = n
<1> DEFINE T == 1..Cardinality(S)
           rank == [i \in S |-> Rank(S, i)]
<1>1. rank \in [S -> T]
  BY RankFinite
<1>2. ASSUME NEW i \in S, NEW j \in S, i # j
      PROVE  rank[i] # rank[j]
  <2>1. i \in Nat /\ j \in Nat
    OBVIOUS
  <2>2. Rank(S, i) \in Nat /\ Rank(S, j) \in Nat
    <3>1. Rank(S, i) \in 1..Cardinality(S) /\ Rank(S, j) \in 1..Cardinality(S)
      BY RankFinite
    <3>2. QED
      BY <3>1
  <2>3. CASE i < j
    <3>1. Rank(S, i) < Rank(S, j)
      BY <2>3, RankMonotone
    <3>2. QED
      BY <2>2, <3>1
  <2>4. CASE j < i
    <3>1. Rank(S, j) < Rank(S, i)
      BY <2>4, RankMonotone
    <3>2. QED
      BY <2>2, <3>1
  <2>5. QED
    BY <1>2, <2>1, <2>3, <2>4
<1>3. rank \in Injection(S, T)
  <2> HIDE DEF rank, T
  <2>1. QED BY <1>1, <1>2 DEF Injection, IsInjective
<1>4. Cardinality(S) \in Nat
  BY FS_CardinalityType
<1>5. IsFiniteSet(T) /\ Cardinality(T) = Cardinality(S)
  BY <1>4, FS_Interval
<1>6. rank \in Surjection(S, T)
  <2> HIDE DEF rank, T
  <2>1. QED BY <1>3, <1>5, FS_Injection
<1>7. \E i \in S : rank[i] = n
  <2> HIDE DEF rank
  <2>1. QED BY <1>6 DEF Surjection
<1>8. \E i \in S : Rank(S, i) = n
  BY <1>7
<1>9. QED
  BY <1>8 DEF Nth

(* Removing ids from a list takes out these and nothing else.              *)
LEMMA WithoutCorrect ==
  ASSUME NEW X, NEW list \in Seq(X), NEW ids
  PROVE  /\ Without(list, ids) \in Seq(X)
         /\ Range(Without(list, ids)) = Range(list) \ ids
         /\ Len(Without(list, ids)) <= Len(list)
<1> DEFINE stay == Staying(list, ids)
           N == Cardinality(stay)
           rest == Without(list, ids)
<1>1. stay \subseteq 1..Len(list) /\ stay \subseteq Nat
  BY DEF Staying
<1>2. IsFiniteSet(stay)
  BY <1>1, FS_Interval, FS_Subset
<1>3. N \in Nat
  BY <1>2, FS_CardinalityType
<1>4. \A n \in 1..N : Nth(stay, n) \in stay /\ Rank(stay, Nth(stay, n)) = n
  <2> HIDE DEF stay
  <2>1. QED BY <1>1, <1>2, NthExists
<1>5. rest = [n \in 1..N |-> list[Nth(stay, n)]]
  BY DEF Without
<1> HIDE DEF rest
<1>6. \A i \in stay : i \in DOMAIN list /\ list[i] \in X /\ list[i] \notin ids
  BY DEF Staying
<1>7. rest \in [1..N -> X]
  <2> HIDE DEF stay, N
  <2>1. QED BY <1>4, <1>5, <1>6
<1>8. rest \in Seq(X)
  <2> HIDE DEF stay, N
  <2>1. QED BY <1>3, <1>7
<1>9. \A i \in stay : Rank(stay, i) \in 1..N /\ Nth(stay, Rank(stay, i)) = i
  <2> HIDE DEF stay
  <2>1. ASSUME NEW i \in stay PROVE Rank(stay, i) \in 1..N
    BY <1>1, <1>2, RankFinite
  <2>2. ASSUME NEW i \in stay PROVE Nth(stay, Rank(stay, i)) = i
    <3> DEFINE k == Nth(stay, Rank(stay, i))
    <3>1. k \in stay /\ Rank(stay, k) = Rank(stay, i)
      BY <1>4, <2>1, <2>2
    <3> HIDE DEF k
    <3>2. Rank(stay, i) \in Nat
      BY <2>1, <1>3
    <3>3. ~(k < i)
      <4>1. k < i => Rank(stay, k) < Rank(stay, i)
        BY <1>1, <1>2, <3>1, RankMonotone
      <4>2. QED BY <4>1, <3>1, <3>2
    <3>4. ~(i < k)
      <4>1. i < k => Rank(stay, i) < Rank(stay, k)
        BY <1>1, <1>2, <3>1, RankMonotone
      <4>2. QED BY <4>1, <3>1, <3>2
    <3>5. k \in Nat /\ i \in Nat
      BY <1>1, <3>1
    <3>6. k = i
      BY <3>3, <3>4, <3>5
    <3>7. QED
      BY <3>6 DEF k
  <2>3. QED
    BY <2>1, <2>2
<1>10. Range(rest) = {rest[n] : n \in 1..N}
  BY <1>5 DEF Range
<1>11. Range(list) = {list[i] : i \in DOMAIN list}
  BY DEF Range
<1>12. \A x : x \in Range(rest) => x \in Range(list) /\ x \notin ids
  <2> HIDE DEF stay, N
  <2>1. QED BY <1>4, <1>5, <1>6, <1>10, <1>11
<1>13. \A x : x \in Range(list) /\ x \notin ids => x \in Range(rest)
  <2> SUFFICES ASSUME NEW x, x \in Range(list), x \notin ids
               PROVE  x \in Range(rest)
    OBVIOUS
  <2>1. PICK i \in DOMAIN list : list[i] = x
    BY <1>11
  <2>2. i \in stay
    BY <2>1 DEF Staying
  <2> HIDE DEF stay, N
  <2>3. rest[Rank(stay, i)] = x /\ Rank(stay, i) \in 1..N
    BY <1>5, <1>9, <2>1, <2>2
  <2>4. QED
    BY <1>10, <2>3
<1>14. Len(rest) = N
  <2> HIDE DEF stay, N
  <2>1. QED BY <1>3, <1>7
<1>15. N <= Len(list)
  <2>1. Len(list) \in Nat
    OBVIOUS
  <2> HIDE DEF stay
  <2>2. IsFiniteSet(1..Len(list)) /\ Cardinality(1..Len(list)) = Len(list)
    BY <2>1, FS_Interval
  <2>3. QED
    BY <1>1, <2>2, FS_Subset
<1>16. QED
  BY <1>8, <1>12, <1>13, <1>14, <1>15 DEF rest

Increasing(list) == \A i, j \in DOMAIN list : i < j => list[i] < list[j]

(* What stays of an increasing list is increasing.                         *)
LEMMA WithoutIncreasing ==
  ASSUME NEW list \in Seq(Nat), NEW ids, Increasing(list)
  PROVE  Increasing(Without(list, ids))
<1> DEFINE stay == Staying(list, ids)
           N == Cardinality(stay)
           rest == Without(list, ids)
<1>1. stay \subseteq 1..Len(list) /\ stay \subseteq Nat /\ stay \subseteq DOMAIN list
  BY DEF Staying
<1>2. IsFiniteSet(stay)
  BY <1>1, FS_Interval, FS_Subset
<1>3. N \in Nat
  BY <1>2, FS_CardinalityType
<1>4. \A n \in 1..N : Nth(stay, n) \in stay /\ Rank(stay, Nth(stay, n)) = n
  <2> HIDE DEF stay
  <2>1. QED BY <1>1, <1>2, NthExists
<1>5. rest = [n \in 1..N |-> list[Nth(stay, n)]]
  BY DEF Without
<1> HIDE DEF rest, stay, N
<1> SUFFICES ASSUME NEW n \in 1..N, NEW m \in 1..N, n < m
             PROVE  rest[n] < rest[m]
  BY <1>5 DEF Increasing, rest
<1>6. Nth(stay, n) < Nth(stay, m)
  <2> DEFINE i == Nth(stay, n)
             j == Nth(stay, m)
  <2>1. i \in stay /\ j \in stay /\ Rank(stay, i) = n /\ Rank(stay, j) = m
    BY <1>4
  <2> HIDE DEF i, j
  <2>2. j < i => Rank(stay, j) < Rank(stay, i)
    BY <1>1, <1>2, <2>1, RankMonotone
  <2>3. i \in Nat /\ j \in Nat /\ n \in Nat /\ m \in Nat
    BY <1>1, <1>3, <2>1
  <2>4. i < j
    BY <2>1, <2>2, <2>3
  <2>5. QED
    BY <2>4 DEF i, j
<1>7. QED
  BY <1>1, <1>4, <1>5, <1>6 DEF Increasing

----------------------------------------------------------------------------
(* What a step of the store or of the middleware does to the two dicts.    *)

(* The sessions of gone are removed and no other is changed, except that a *)
(* get() may touch it.                                                     *)
Shrinks(gone) ==
  /\ DOMAIN sessions' = Stored \ gone
  /\ \A s \in Stored \ gone : sessions'[s] \in {sessions[s], Touched(s)}
  /\ userSessions' = [u \in Users |-> Without(userSessions[u], gone)]
  /\ UNCHANGED <<now, nextId>>

(* Session s is marked as used now, and may get a new end.                 *)
Renews(s) ==
  /\ s \in Stored
  /\ DOMAIN sessions' = Stored
  /\ \A t \in Stored \ {s} : sessions'[t] = sessions[t]
  /\ sessions'[s] \in Session
  /\ sessions'[s].user = sessions[s].user
  /\ sessions'[s].lastAccessed = now
  /\ UNCHANGED <<now, userSessions, nextId>>

(* Time passes at most.                                                    *)
Waits ==
  /\ now' \in 0..MaxTime
  /\ now <= now'
  /\ UNCHANGED <<sessions, userSessions, nextId>>

(* A user's list is a list of ids, which are numbers.                      *)
LEMMA ListType ==
  ASSUME TypeOK, NEW u \in Users
  PROVE  userSessions[u] \in Seq(Sids) /\ userSessions[u] \in Seq(Nat)
<1>1. userSessions[u] \in Seq(Sids) /\ Sids \subseteq Nat
  BY DEF TypeOK, Sids
<1>2. QED
  BY <1>1, SeqMonotonic

(* Reading several sessions removes some and touches others.               *)
LEMMA GetEachShrinks ==
  ASSUME NEW ids \in SUBSET Stored, GetEach(ids), UNCHANGED <<now, nextId>>
  PROVE  Shrinks({s \in ids : Expired(s)})
BY DEF GetEach, Shrinks

(* Deleting sessions removes them and nothing else.                        *)
LEMMA DropShrinks ==
  ASSUME NEW ids, Drop(ids), UNCHANGED <<now, nextId>>
  PROVE  Shrinks(ids)
BY DEF Drop, Shrinks, Restrict

(* Lifetimes are numbers.                                                  *)
LEMMA TtlChoicesType == TtlChoices \subseteq Nat
BY TtlAssumption DEF TtlChoices

(* update() changes one session.                                           *)
LEMMA UpdateRenews ==
  ASSUME TypeOK, NEW s \in Stored, UNCHANGED <<now, userSessions, nextId>>,
         sessions' = [sessions EXCEPT ![s].lastAccessed = now]
  PROVE  Renews(s)
BY DEF TypeOK, Renews, Session, Stored

(* refresh() changes one session.                                          *)
LEMMA RefreshRenews ==
  ASSUME TypeOK, NEW s, NEW ttl \in TtlChoices, Refresh(s, ttl)
  PROVE  Renews(s)
<1>1. s \in Stored /\ sessions[s] \in Session /\ now \in 0..MaxTime
  BY DEF Refresh, TypeOK
<1>2. now + ttl \in Nat
  BY <1>1, TtlChoicesType, BoundAssumption
<1> DEFINE r == [[sessions[s] EXCEPT !.lastAccessed = now] EXCEPT !.expiresAt = now + ttl]
<1>3. r \in Session /\ r.user = sessions[s].user /\ r.lastAccessed = now
  BY <1>1, <1>2 DEF Session
<1>4. DOMAIN sessions' = Stored
  BY DEF Refresh, Stored
<1>5. sessions'[s] = r
  BY <1>1 DEF Refresh, Stored
<1>6. \A t \in Stored \ {s} : sessions'[t] = sessions[t]
  BY DEF Refresh, Stored
<1> HIDE DEF r
<1>7. QED
  BY <1>1, <1>3, <1>4, <1>5, <1>6 DEF Refresh, Renews

(* Every step of the store does one of these, or creates a session.        *)
LEMMA NextCases ==
  ASSUME TypeOK, Next
  PROVE  \/ Waits
         \/ \E gone : Shrinks(gone)
         \/ \E s \in Sids : Renews(s) /\ reply'.op \in {"update", "refresh"} /\ reply'.ids = {s}
         \/ \E u \in Users, ttl \in TtlChoices : Create(u, ttl)
<1>1. CASE Tick
  BY <1>1, BoundAssumption DEF Tick, Waits, TypeOK
<1>2. ASSUME NEW u \in Users, NEW ttl \in TtlChoices, Create(u, ttl)
      PROVE  \E v \in Users, t \in TtlChoices : Create(v, t)
  BY <1>2
<1>3. ASSUME NEW u \in Users, ListUserSessions(u)
      PROVE  \E gone : Shrinks(gone)
  BY <1>3, GetEachShrinks DEF ListUserSessions
<1>4. ASSUME NEW u \in Users, DeleteUserSessions(u)
      PROVE  \E gone : Shrinks(gone)
  BY <1>4, DropShrinks DEF DeleteUserSessions
<1>5. ASSUME NEW s \in Sids, Get(s)
      PROVE  \E gone : Shrinks(gone)
  BY <1>5, GetEachShrinks DEF Get
<1>6. ASSUME NEW s \in Sids, Update(s)
      PROVE  Renews(s) /\ reply'.op \in {"update", "refresh"} /\ reply'.ids = {s}
  BY <1>6, UpdateRenews DEF Update, Reply
<1>7. ASSUME NEW s \in Sids, NEW ttl \in TtlChoices, Refresh(s, ttl)
      PROVE  Renews(s) /\ reply'.op \in {"update", "refresh"} /\ reply'.ids = {s}
  BY <1>7, RefreshRenews DEF Refresh, Reply
<1>8. ASSUME NEW s \in Sids, Delete(s)
      PROVE  \E gone : Shrinks(gone)
  BY <1>8, DropShrinks DEF Delete
<1>9. ASSUME NEW cutoff \in 0..now, GetInactiveSessions(cutoff)
      PROVE  \E gone : Shrinks(gone)
  BY <1>9, GetEachShrinks DEF GetInactiveSessions
<1>10. ASSUME NEW cutoff \in 0..now, DeleteInactiveSessions(cutoff)
       PROVE  \E gone : Shrinks(gone)
  <2> DEFINE gone == {s \in Stored : Expired(s)} \cup Inactive(cutoff)
  <2>1. Shrinks(gone)
    BY <1>10 DEF DeleteInactiveSessions, Shrinks
  <2>2. QED
    BY <2>1
<1>11. QED
  BY <1>1, <1>2, <1>3, <1>4, <1>5, <1>6, <1>7, <1>8, <1>9, <1>10 DEF Next

(* The same for a step of the store and the middleware together.           *)
LEMMA TNextCases ==
  ASSUME TypeOK, [TNext]_allVars
  PROVE  \/ Waits
         \/ \E gone : Shrinks(gone)
         \/ \E s \in Sids : Renews(s)
         \/ \E u \in Users, ttl \in TtlChoices : Create(u, ttl)
<1>1. CASE StoreStep
  BY <1>1, NextCases DEF StoreStep
<1>2. ASSUME NEW s \in Sids, DispatchWithoutSession(s)
      PROVE  \E gone : Shrinks(gone)
  BY <1>2, GetEachShrinks DEF DispatchWithoutSession
<1>3. ASSUME NEW s \in Sids, DispatchTimeout(s)
      PROVE  \E gone : Shrinks(gone)
  BY <1>3, DropShrinks DEF DispatchTimeout
<1>4. ASSUME NEW s \in Sids, DispatchActive(s)
      PROVE  Renews(s)
  BY <1>4, UpdateRenews DEF DispatchActive
<1>5. CASE UNCHANGED allVars
  BY <1>5 DEF Waits, TypeOK, allVars, vars
<1>6. QED
  BY <1>1, <1>2, <1>3, <1>4, <1>5 DEF TNext

----------------------------------------------------------------------------
(* Types *)

(* The fields of a session that get() returns.                             *)
LEMMA TouchedType ==
  ASSUME TypeOK, NEW s \in Stored
  PROVE  /\ Touched(s) \in Session
         /\ Touched(s).user = sessions[s].user
         /\ Touched(s).lastAccessed <= now
         /\ ~SlidingWindow => Touched(s) = sessions[s]
<1>1. sessions[s] \in Session /\ sessions[s].lastAccessed <= now /\ now \in 0..MaxTime
  BY DEF TypeOK
<1>2. [sessions[s] EXCEPT !.lastAccessed = now] \in Session
  BY <1>1 DEF Session
<1>3. [sessions[s] EXCEPT !.lastAccessed = now].user = sessions[s].user
  BY <1>1 DEF Session
<1>4. [sessions[s] EXCEPT !.lastAccessed = now].lastAccessed = now
  BY <1>1 DEF Session
<1>5. now <= now
  BY <1>1, BoundAssumption
<1>6. QED
  BY <1>1, <1>2, <1>3, <1>4, <1>5 DEF Touched

(* Removing sessions keeps the types.                                      *)
LEMMA ShrinksType ==
  ASSUME TypeOK, NEW gone, Shrinks(gone)
  PROVE  TypeOK'
<1>1. Stored' = Stored \ gone /\ now' = now /\ nextId' = nextId
  BY DEF Shrinks, Stored
<1>2. \A s \in Stored' : sessions'[s] \in Session /\ sessions'[s].lastAccessed <= now'
  BY <1>1, TouchedType DEF Shrinks, TypeOK
<1>3. userSessions' \in [Users -> Seq(Sids)]
  <2>1. \A u \in Users : Without(userSessions[u], gone) \in Seq(Sids)
    BY WithoutCorrect DEF TypeOK
  <2>2. QED
    BY <2>1 DEF Shrinks
<1>4. QED
  BY <1>1, <1>2, <1>3 DEF TypeOK, Session, Sids

(* Changing a session keeps the types.                                     *)
LEMMA RenewsType ==
  ASSUME TypeOK, NEW s, Renews(s)
  PROVE  TypeOK'
<1>1. Stored' = Stored /\ now' = now /\ nextId' = nextId /\ userSessions' = userSessions
  BY DEF Renews, Stored
<1>2. now <= now
  BY BoundAssumption DEF TypeOK
<1>3. \A t \in Stored' : sessions'[t] \in Session /\ sessions'[t].lastAccessed <= now'
  BY <1>1, <1>2 DEF Renews, TypeOK
<1>4. QED
  BY <1>1, <1>3 DEF TypeOK, Session, Sids

(* Time passing keeps the types.                                           *)
LEMMA WaitsType ==
  ASSUME TypeOK, Waits
  PROVE  TypeOK'
<1>1. Stored' = Stored /\ nextId' = nextId /\ userSessions' = userSessions
  BY DEF Waits, Stored
<1>2. \A t \in Stored' : sessions'[t] \in Session /\ sessions'[t].lastAccessed <= now'
  <2> SUFFICES ASSUME NEW t \in Stored
               PROVE  sessions[t] \in Session /\ sessions[t].lastAccessed <= now'
    BY <1>1 DEF Waits
  <2>1. sessions[t] \in Session /\ sessions[t].lastAccessed <= now
    BY DEF TypeOK
  <2>2. now \in Nat /\ now' \in Nat /\ sessions[t].lastAccessed \in Nat
    BY <2>1, BoundAssumption DEF TypeOK, Session, Waits
  <2>3. QED
    BY <2>1, <2>2 DEF Waits
<1>3. QED
  BY <1>1, <1>2 DEF TypeOK, Waits, Session, Sids

(* The list a new session is added to: that of the user, less its head     *)
(* when the limit is reached.                                              *)
LEMMA KeptType ==
  ASSUME NEW X, NEW u \in Users, userSessions[u] \in Seq(X)
  PROVE  /\ Kept(u) \in Seq(X)
         /\ Range(Kept(u)) \subseteq Range(userSessions[u])
         /\ Kept(u) \in {userSessions[u], Tail(userSessions[u])}
         /\ userSessions[u] = <<>> => Kept(u) = <<>>
         /\ Len(userSessions[u]) >= MaxConcurrent /\ userSessions[u] # <<>>
              => Kept(u) = Tail(userSessions[u])
BY DEF Kept, Range

(* create() keeps the types.                                               *)
LEMMA CreateType ==
  ASSUME TypeOK, NEW u \in Users, NEW ttl \in TtlChoices, Create(u, ttl)
  PROVE  TypeOK'
<1> DEFINE evicted == Range(userSessions[u]) \ Range(Kept(u))
<1>1. /\ Stored' = (Stored \ evicted) \cup {nextId}
      /\ now' = now /\ nextId' = nextId + 1
      /\ userSessions' = [userSessions EXCEPT ![u] = Append(Kept(u), nextId)]
  BY DEF Create, Stored
<1>2. now \in Nat /\ now \in 0..MaxTime /\ now + ttl \in Nat
  BY TtlChoicesType, BoundAssumption DEF TypeOK
<1>3. NewSession(u, ttl) \in Session /\ NewSession(u, ttl).lastAccessed <= now
  BY <1>2 DEF NewSession, Session
<1>4. \A s \in Stored' : sessions'[s] = IF s = nextId THEN NewSession(u, ttl) ELSE sessions[s]
  BY <1>1 DEF Create
<1>5. \A s \in Stored' : sessions'[s] \in Session /\ sessions'[s].lastAccessed <= now'
  BY <1>1, <1>3, <1>4 DEF TypeOK
<1>6. nextId \in Sids /\ nextId' \in 1..(MaxSessions + 1)
  BY <1>1, BoundAssumption DEF TypeOK, Create, Sids
<1>7. Stored' \subseteq 1..(nextId' - 1)
  <2>1. nextId \in Nat /\ nextId' - 1 = nextId /\ nextId >= 1
    BY <1>1, BoundAssumption DEF TypeOK
  <2>2. Stored \subseteq 1..nextId /\ nextId \in 1..nextId
    BY <2>1 DEF TypeOK
  <2>3. QED
    BY <1>1, <2>1, <2>2
<1>8. Kept(u) \in Seq(Sids)
  BY KeptType DEF TypeOK
<1>9. Append(Kept(u), nextId) \in Seq(Sids)
  BY <1>6, <1>8
<1>10. userSessions' \in [Users -> Seq(Sids)]
  BY <1>1, <1>9 DEF TypeOK
<1>11. QED
  BY <1>1, <1>2, <1>5, <1>6, <1>7, <1>10 DEF TypeOK, Session, Sids

(* The types hold in the beginning.                                        *)
LEMMA InitType == Init => TypeOK
<1> SUFFICES ASSUME Init PROVE TypeOK
  OBVIOUS
<1>1. Stored = {} /\ now = 0 /\ nextId = 1
  BY DEF Init, Stored
<1>2. userSessions \in [Users -> Seq(Sids)]
  BY DEF Init
<1>3. QED
  BY <1>1, <1>2, BoundAssumption DEF TypeOK

(* Types of the in-memory store, alone and behind the middleware.          *)
THEOREM StoreTypeCorrect == Spec => []TypeOK
<1>1. TypeOK /\ [Next]_vars => TypeOK'
  <2> SUFFICES ASSUME TypeOK, [Next]_vars PROVE TypeOK'
    OBVIOUS
  <2>1. CASE Next
    BY <2>1, NextCases, ShrinksType, RenewsType, WaitsType, CreateType
  <2>2. CASE UNCHANGED vars
    BY <2>2 DEF vars, TypeOK, Stored, Session, Sids
  <2>3. QED
    BY <2>1, <2>2
<1>2. QED
  BY <1>1, InitType, PTL DEF Spec

(* Types of the store behind the middleware.                               *)
THEOREM TypeCorrect == TSpec => []TypeOK
<1>1. TypeOK /\ [TNext]_allVars => TypeOK'
  BY TNextCases, ShrinksType, RenewsType, WaitsType, CreateType
<1>2. TInit => TypeOK
  BY InitType DEF TInit
<1>3. QED
  BY <1>1, <1>2, PTL DEF TSpec

----------------------------------------------------------------------------
(* The two dicts agree *)

Mine(u) == {s \in Stored : sessions[s].user = u}

(* What it means that the two dicts agree.                                 *)
LEMMA IndexMeaning ==
  IndexConsistent <=>
    \A u \in Users : Range(userSessions[u]) = Mine(u) /\ Increasing(userSessions[u])
BY DEF IndexConsistent, Mine, Increasing

(* Removing sessions from both dicts keeps them in step.                   *)
LEMMA ShrinksIndex ==
  ASSUME TypeOK, IndexConsistent, NEW gone, Shrinks(gone)
  PROVE  IndexConsistent'
<1> SUFFICES ASSUME NEW u \in Users
             PROVE  /\ Range(userSessions'[u]) = Mine(u)'
                    /\ Increasing(userSessions'[u])
  BY IndexMeaning DEF IndexConsistent, Mine, Increasing
<1>1. userSessions[u] \in Seq(Sids) /\ userSessions[u] \in Seq(Nat)
  BY ListType
<1>2. Range(userSessions[u]) = Mine(u) /\ Increasing(userSessions[u])
  BY IndexMeaning
<1>3. userSessions'[u] = Without(userSessions[u], gone)
  BY DEF Shrinks
<1>4. Mine(u)' = Mine(u) \ gone
  <2>1. Stored' = Stored \ gone
    BY DEF Shrinks, Stored
  <2>2. \A s \in Stored \ gone : sessions'[s].user = sessions[s].user
    BY TouchedType DEF Shrinks
  <2>3. QED
    BY <2>1, <2>2 DEF Mine
<1>5. QED
  BY <1>1, <1>2, <1>3, <1>4, WithoutCorrect, WithoutIncreasing

(* Changing a session keeps the dicts in step.                             *)
LEMMA RenewsIndex ==
  ASSUME TypeOK, IndexConsistent, NEW s, Renews(s)
  PROVE  IndexConsistent'
<1>1. Stored' = Stored /\ userSessions' = userSessions
  BY DEF Renews, Stored
<1>2. \A t \in Stored : sessions'[t].user = sessions[t].user
  BY DEF Renews
<1>3. QED
  BY <1>1, <1>2 DEF IndexConsistent

(* The ids of a shortened list, and its order.                             *)
LEMMA KeptIncreasing ==
  ASSUME TypeOK, NEW u \in Users, Increasing(userSessions[u])
  PROVE  Increasing(Kept(u))
<1>1. userSessions[u] \in Seq(Nat)
  BY ListType
<1>2. CASE Kept(u) = userSessions[u]
  BY <1>2
<1>3. CASE Kept(u) = Tail(userSessions[u]) /\ userSessions[u] # <<>>
  <2> DEFINE list == userSessions[u]
             rest == Tail(list)
  <2>1. DOMAIN rest = 1..(Len(list) - 1) /\ DOMAIN list = 1..Len(list) /\ Len(list) \in Nat
    BY <1>1, <1>3
  <2>2. \A i \in DOMAIN rest : rest[i] = list[i + 1] /\ i + 1 \in DOMAIN list
    BY <1>1, <1>3, <2>1
  <2>3. \A i, j \in DOMAIN rest : i < j => i + 1 < j + 1
    BY <2>1
  <2> HIDE DEF list, rest
  <2>4. Increasing(rest)
    BY <2>2, <2>3 DEF Increasing, list
  <2>5. QED
    BY <2>4, <1>3 DEF rest, list
<1>4. QED
  BY <1>2, <1>3 DEF Kept

(* Appending an id adds it.                                                *)
LEMMA AppendRange ==
  ASSUME NEW X, NEW list \in Seq(X), NEW x
  PROVE  Range(Append(list, x)) = Range(list) \cup {x}
<1>1. DOMAIN Append(list, x) = 1..(Len(list) + 1) /\ Len(list) \in Nat
  OBVIOUS
<1>2. \A i \in 1..Len(list) : Append(list, x)[i] = list[i]
  OBVIOUS
<1>3. Append(list, x)[Len(list) + 1] = x
  OBVIOUS
<1>4. DOMAIN list = 1..Len(list)
  OBVIOUS
<1>5. 1..(Len(list) + 1) = 1..Len(list) \cup {Len(list) + 1}
  BY <1>1
<1>6. QED
  BY <1>1, <1>2, <1>3, <1>4, <1>5 DEF Range

(* Appending an id larger than all keeps a list increasing.                *)
LEMMA AppendIncreasing ==
  ASSUME NEW list \in Seq(Nat), NEW x \in Nat, Increasing(list),
         \A y \in Range(list) : y < x
  PROVE  Increasing(Append(list, x))
<1>1. DOMAIN Append(list, x) = 1..(Len(list) + 1) /\ Len(list) \in Nat
  OBVIOUS
<1>2. \A i \in 1..Len(list) : Append(list, x)[i] = list[i]
  OBVIOUS
<1>3. Append(list, x)[Len(list) + 1] = x
  OBVIOUS
<1>4. \A i \in 1..Len(list) : list[i] < x
  BY DEF Range
<1>5. \A i, j \in 1..(Len(list) + 1) : i < j => /\ i \in 1..Len(list)
                                              /\ (j \in 1..Len(list) \/ j = Len(list) + 1)
  BY <1>1
<1>6. QED
  BY <1>1, <1>2, <1>3, <1>4, <1>5 DEF Increasing

(* create() keeps the dicts in step.                                       *)
LEMMA CreateIndex ==
  ASSUME TypeOK, IndexConsistent, NEW u \in Users, NEW ttl \in TtlChoices, Create(u, ttl)
  PROVE  IndexConsistent'
<1> DEFINE evicted == Range(userSessions[u]) \ Range(Kept(u))
<1>1. /\ Stored' = (Stored \ evicted) \cup {nextId}
      /\ userSessions' = [userSessions EXCEPT ![u] = Append(Kept(u), nextId)]
  BY DEF Create, Stored
<1>2. \A s \in Stored' : sessions'[s] = IF s = nextId THEN NewSession(u, ttl) ELSE sessions[s]
  BY <1>1 DEF Create
<1>3. \A s \in Stored : s \in Nat /\ s < nextId
  BY BoundAssumption DEF TypeOK
<1>4. nextId \notin Stored /\ nextId \in Nat
  BY BoundAssumption DEF TypeOK
<1>5. NewSession(u, ttl).user = u
  BY DEF NewSession
<1>6. /\ Kept(u) \in Seq(Sids) /\ Kept(u) \in Seq(Nat)
      /\ Range(Kept(u)) \subseteq Range(userSessions[u])
  BY KeptType, ListType
<1>7. Range(userSessions[u]) = Mine(u)
  BY IndexMeaning
<1>8. Mine(u)' = Range(Kept(u)) \cup {nextId}
  <2> HIDE DEF evicted
  <2>1. Mine(u)' = (Mine(u) \ evicted) \cup {nextId}
    BY <1>1, <1>2, <1>4, <1>5 DEF Mine
  <2>2. Mine(u) \ evicted = Range(Kept(u))
    BY <1>6, <1>7 DEF evicted
  <2>3. QED
    BY <2>1, <2>2
<1>9. Range(userSessions'[u]) = Range(Kept(u)) \cup {nextId}
  BY <1>1, <1>6, AppendRange DEF TypeOK
<1>10. Increasing(userSessions'[u])
  <2>1. Increasing(Kept(u))
    BY IndexMeaning, KeptIncreasing
  <2>2. \A y \in Range(Kept(u)) : y < nextId
    BY <1>3, <1>6, <1>7 DEF Mine
  <2>3. Increasing(Append(Kept(u), nextId))
    BY <1>4, <1>6, <2>1, <2>2, AppendIncreasing
  <2>4. QED
    BY <1>1, <2>3 DEF TypeOK
<1>11. ASSUME NEW v \in Users, v # u
       PROVE  Range(userSessions'[v]) = Mine(v)' /\ Increasing(userSessions'[v])
  <2>1. userSessions'[v] = userSessions[v]
    BY <1>1, <1>11 DEF TypeOK
  <2>2. evicted \cap Mine(v) = {}
    BY <1>7, <1>11 DEF Mine
  <2> HIDE DEF evicted
  <2>3. Mine(v)' = Mine(v)
    BY <1>1, <1>2, <1>4, <1>5, <1>11, <2>2 DEF Mine
  <2>4. QED
    BY <2>1, <2>3, IndexMeaning
<1>12. \A v \in Users : Range(userSessions'[v]) = Mine(v)' /\ Increasing(userSessions'[v])
  BY <1>8, <1>9, <1>10, <1>11
<1>13. QED
  BY <1>12 DEF IndexConsistent, Mine, Increasing

(* The dicts agree in the beginning.                                       *)
LEMMA InitIndex == Init => IndexConsistent
BY DEF Init, IndexConsistent, Stored, Range

(* The two dicts agree, whichever operations, requests and expiries there  *)
(* were: auth/session.py keeps _sessions and user_sessions in step.        *)
THEOREM IndexCorrect == TSpec => []IndexConsistent
<1>1. TypeOK /\ IndexConsistent /\ [TNext]_allVars => IndexConsistent'
  <2> SUFFICES ASSUME TypeOK, IndexConsistent, [TNext]_allVars
               PROVE  IndexConsistent'
    OBVIOUS
  <2>1. CASE Waits
    BY <2>1 DEF Waits, IndexConsistent, Stored
  <2>2. QED
    BY <2>1, TNextCases, ShrinksIndex, RenewsIndex, CreateIndex
<1>2. TInit => IndexConsistent
  BY InitIndex DEF TInit
<1>3. QED
  BY <1>1, <1>2, TypeCorrect, PTL DEF TSpec

----------------------------------------------------------------------------
(* The limit.  With max_concurrent_sessions = 0 create() removes the one   *)
(* session there is and adds another, so a positive limit is assumed.      *)

ShortLists == \A u \in Users : Len(userSessions[u]) <= MaxConcurrent

(* No step makes a list longer than the limit.                             *)
LEMMA ShortListsStep ==
  ASSUME MaxConcurrent > 0, TypeOK, ShortLists, [TNext]_allVars
  PROVE  ShortLists'
<1> USE DEF ShortLists
<1>1. \A u \in Users : Len(userSessions[u]) \in Nat
  BY ListType
<1>2. ASSUME NEW gone, Shrinks(gone)
      PROVE  ShortLists'
  <2> SUFFICES ASSUME NEW u \in Users PROVE Len(userSessions'[u]) <= MaxConcurrent
    OBVIOUS
  <2>1. userSessions'[u] = Without(userSessions[u], gone)
    BY <1>2 DEF Shrinks
  <2>2. /\ Without(userSessions[u], gone) \in Seq(Nat)
        /\ Len(Without(userSessions[u], gone)) <= Len(userSessions[u])
    BY ListType, WithoutCorrect
  <2>3. Len(Without(userSessions[u], gone)) \in Nat
    BY <2>2
  <2>4. QED
    BY <1>1, <2>1, <2>2, <2>3, LimitAssumption
<1>3. ASSUME NEW u \in Users, NEW ttl \in TtlChoices, Create(u, ttl)
      PROVE  ShortLists'
  <2>1. userSessions' = [userSessions EXCEPT ![u] = Append(Kept(u), nextId)]
    BY <1>3 DEF Create
  <2>2. userSessions[u] \in Seq(Nat) /\ Kept(u) \in Seq(Nat)
    BY ListType, KeptType
  <2>3. Len(Kept(u)) < MaxConcurrent
    BY <2>2, LimitAssumption DEF Kept
  <2>4. Len(Append(Kept(u), nextId)) <= MaxConcurrent
    BY <2>2, <2>3, LimitAssumption
  <2>5. QED
    BY <2>1, <2>4 DEF TypeOK
<1>4. QED
  BY <1>2, <1>3, TNextCases DEF Waits, Renews

(* A list has at least as many places as members.                          *)
LEMMA ListCountsSessions ==
  ASSUME NEW X, NEW list \in Seq(X)
  PROVE  Cardinality(Range(list)) <= Len(list)
<1>1. Len(list) \in Nat /\ DOMAIN list = 1..Len(list)
  OBVIOUS
<1>2. list \in Surjection(1..Len(list), Range(list))
  BY <1>1 DEF Surjection, Range
<1>3. IsFiniteSet(1..Len(list)) /\ Cardinality(1..Len(list)) = Len(list)
  BY <1>1, FS_Interval
<1>4. QED
  BY <1>2, <1>3, FS_Surjection

(* No user has more sessions than a positive max_concurrent_sessions.      *)
THEOREM LimitCorrect ==
  ASSUME MaxConcurrent > 0
  PROVE  TSpec => []WithinLimit
<1>1. TInit => ShortLists
  BY LimitAssumption DEF TInit, Init, ShortLists
<1>2. TypeOK /\ ShortLists /\ [TNext]_allVars => ShortLists'
  BY ShortListsStep
<1>3. TypeOK /\ IndexConsistent /\ ShortLists => WithinLimit
  <2> SUFFICES ASSUME TypeOK, IndexConsistent, ShortLists, NEW u \in Users
               PROVE  Cardinality(Mine(u)) <= MaxConcurrent
    BY DEF WithinLimit, Mine
  <2>1. Mine(u) = Range(userSessions[u])
    BY IndexMeaning
  <2>2. Cardinality(Range(userSessions[u])) <= Len(userSessions[u])
    BY ListType, ListCountsSessions
  <2>3. IsFiniteSet(Mine(u))
    <3>1. IsFiniteSet(1..(nextId - 1)) /\ Mine(u) \subseteq 1..(nextId - 1)
      <4>1. nextId - 1 \in Int
        BY BoundAssumption DEF TypeOK
      <4>2. IsFiniteSet(1..(nextId - 1))
        BY <4>1, FS_Interval
      <4>3. QED
        BY <4>2 DEF TypeOK, Mine
    <3>2. QED
      BY <3>1, FS_Subset
  <2>4. Cardinality(Mine(u)) \in Nat /\ Len(userSessions[u]) \in Nat
    BY <2>3, FS_CardinalityType, ListType
  <2>5. QED
    BY <2>1, <2>2, <2>4, LimitAssumption DEF ShortLists
<1>4. QED
  BY <1>1, <1>2, <1>3, TypeCorrect, IndexCorrect, PTL DEF TSpec

----------------------------------------------------------------------------
(* Sessions that are gone *)

(* An id that was handed out and has no session never has one again: what  *)
(* was deleted, evicted, refused or found expired stays so.                *)
GoneForGood ==
  [][\A s \in 1..(nextId - 1) : s \notin Stored => s \notin Stored']_allVars

(* A session that is not stored is not stored by a step.                   *)
LEMMA GoneStep ==
  ASSUME TypeOK, [TNext]_allVars, NEW s \in 1..(nextId - 1), s \notin Stored
  PROVE  s \notin Stored' /\ s \in 1..(nextId' - 1)
<1>1. nextId \in Nat /\ s # nextId
  BY BoundAssumption DEF TypeOK
<1>2. ASSUME NEW u \in Users, NEW ttl \in TtlChoices, Create(u, ttl)
      PROVE  s \notin Stored' /\ s \in 1..(nextId' - 1)
  <2>1. nextId' = nextId + 1 /\ Stored' \subseteq Stored \cup {nextId}
    BY <1>2 DEF Create, Stored
  <2>2. QED
    BY <1>1, <2>1
<1>3. QED
  BY <1>2, TNextCases DEF Waits, Renews, Shrinks, Stored

(* A session that was created and is not stored any more, deleted, evicted *)
(* or expired, is never stored again.                                      *)
THEOREM GoneSessionsStayGone == TSpec => GoneForGood
<1>1. TypeOK /\ [TNext]_allVars =>
        [\A s \in 1..(nextId - 1) : s \notin Stored => s \notin Stored']_allVars
  BY GoneStep
<1>2. QED
  BY <1>1, TypeCorrect, PTL DEF TSpec, GoneForGood

(* What was refused was created, and is not stored.                        *)
TerminatedGone == terminated \subseteq 1..(nextId - 1) \ Stored

(* No step stores a session that was refused.                              *)
LEMMA TerminatedStep ==
  ASSUME TypeOK, TerminatedGone, [TNext]_allVars
  PROVE  TerminatedGone'
<1>1. ASSUME NEW s \in Sids, DispatchTimeout(s)
      PROVE  TerminatedGone'
  <2>1. Stored' = Stored \ {s} /\ terminated' = terminated \cup {s} /\ nextId' = nextId
    BY <1>1 DEF DispatchTimeout, Drop, Restrict, Stored
  <2>2. s \in 1..(nextId - 1)
    BY <1>1 DEF DispatchTimeout, TypeOK
  <2>3. QED
    BY <2>1, <2>2 DEF TerminatedGone
<1>2. CASE UNCHANGED terminated
  BY <1>2, GoneStep DEF TerminatedGone
<1>3. QED
  BY <1>1, <1>2
     DEF TNext, StoreStep, DispatchWithoutSession, DispatchActive, allVars, timeoutVars

(* A session refused for inactivity is not stored again.                   *)
THEOREM TerminationCorrect == TSpec => []TerminationIsFinal
<1>1. TInit => TerminatedGone
  BY DEF TInit, TerminatedGone
<1>2. TypeOK /\ TerminatedGone /\ [TNext]_allVars => TerminatedGone'
  BY TerminatedStep
<1>3. TerminatedGone => TerminationIsFinal
  BY DEF TerminatedGone, TerminationIsFinal
<1>4. QED
  BY <1>1, <1>2, <1>3, TypeCorrect, PTL DEF TSpec

----------------------------------------------------------------------------
(* Idle sessions, for a store without sliding window: with one, the get()  *)
(* of the middleware itself hides how long the session was idle.           *)

(* last_accessed never runs ahead of what the owner did.                   *)
AccessesAreUses ==
  /\ activity \in [Sids -> Nat]
  /\ \A s \in Stored : sessions[s].lastAccessed <= activity[s]

(* The fields of a stored session.                                         *)
LEMMA StoredType ==
  ASSUME TypeOK, NEW s \in Stored
  PROVE  s \in Sids /\ sessions[s].lastAccessed \in Nat /\ now \in Nat
BY BoundAssumption DEF TypeOK, Session, Sids

(* The owner of a session uses it now, or did what it did before.          *)
OwnersOnly ==
  /\ activity' \in [Sids -> Nat]
  /\ \A s \in Sids : activity'[s] \in {activity[s], now}

(* A session nobody touched was not used later than its owner did          *)
(* anything.                                                               *)
LEMMA UnchangedAccess ==
  ASSUME TypeOK, AccessesAreUses, OwnersOnly, NEW s \in Stored
  PROVE  sessions[s].lastAccessed <= activity'[s]
<1>1. /\ s \in Sids /\ sessions[s].lastAccessed \in Nat /\ now \in Nat
      /\ activity[s] \in Nat /\ activity'[s] \in {activity[s], now}
      /\ sessions[s].lastAccessed <= now
  BY StoredType DEF AccessesAreUses, OwnersOnly, TypeOK
<1>2. sessions[s].lastAccessed <= activity[s]
  BY DEF AccessesAreUses
<1>3. QED
  BY <1>1, <1>2

(* Removing sessions keeps last accesses within what owners did.           *)
LEMMA ShrinksAccesses ==
  ASSUME ~SlidingWindow, TypeOK, AccessesAreUses, OwnersOnly,
         NEW gone, Shrinks(gone)
  PROVE  AccessesAreUses'
<1>1. \A s \in Stored' : s \in Stored /\ sessions'[s] = sessions[s]
  BY TouchedType DEF Shrinks, Stored
<1>2. QED
  BY <1>1, UnchangedAccess DEF AccessesAreUses, OwnersOnly

(* So does changing one.                                                   *)
LEMMA RenewsAccesses ==
  ASSUME TypeOK, AccessesAreUses, OwnersOnly,
         NEW s, Renews(s), activity'[s] = now
  PROVE  AccessesAreUses'
<1>1. Stored' = Stored
  BY DEF Renews, Stored
<1>2. \A t \in Stored : sessions'[t].lastAccessed <= activity'[t]
  <2>1. now <= now
    BY BoundAssumption DEF TypeOK
  <2>2. QED
    BY <2>1, UnchangedAccess DEF Renews
<1>3. QED
  BY <1>1, <1>2 DEF AccessesAreUses, OwnersOnly

(* So does create().                                                       *)
LEMMA CreateAccesses ==
  ASSUME TypeOK, AccessesAreUses, OwnersOnly,
         NEW u \in Users, NEW ttl \in TtlChoices, Create(u, ttl),
         activity'[nextId] = now
  PROVE  AccessesAreUses'
<1>1. /\ Stored' \subseteq Stored \cup {nextId}
      /\ \A s \in Stored' : sessions'[s] = IF s = nextId THEN NewSession(u, ttl) ELSE sessions[s]
  BY DEF Create, Stored
<1>2. NewSession(u, ttl).lastAccessed = now /\ now <= now
  BY BoundAssumption DEF NewSession, TypeOK
<1>3. \A s \in Stored' : sessions'[s].lastAccessed <= activity'[s]
  BY <1>1, <1>2, UnchangedAccess
<1>4. QED
  BY <1>3 DEF AccessesAreUses, OwnersOnly

(* So does time passing.                                                   *)
LEMMA WaitsAccesses ==
  ASSUME TypeOK, AccessesAreUses, OwnersOnly, UNCHANGED sessions
  PROVE  AccessesAreUses'
BY UnchangedAccess DEF AccessesAreUses, OwnersOnly, Stored

(* So does every operation of the store.                                   *)
LEMMA StoreStepAccesses ==
  ASSUME ~SlidingWindow, TypeOK, AccessesAreUses, StoreStep
  PROVE  AccessesAreUses'
<1>1. now \in Nat
  BY BoundAssumption DEF TypeOK
<1>2. activity' = [s \in Sids |->
                     IF /\ reply'.op \in {"create", "refresh", "update"}
                        /\ s \in reply'.ids
                     THEN now ELSE activity[s]]
  BY DEF StoreStep
<1>3. OwnersOnly
  BY <1>1, <1>2 DEF OwnersOnly, AccessesAreUses
<1>4. CASE Waits
  BY <1>3, <1>4, WaitsAccesses DEF Waits
<1>5. ASSUME NEW gone, Shrinks(gone)
      PROVE  AccessesAreUses'
  BY <1>3, <1>5, ShrinksAccesses
<1>6. ASSUME NEW s \in Sids, Renews(s), reply'.op \in {"update", "refresh"},
             reply'.ids = {s}
      PROVE  AccessesAreUses'
  <2>1. activity'[s] = now
    BY <1>2, <1>6
  <2>2. QED
    BY <1>3, <1>6, <2>1, RenewsAccesses
<1>7. ASSUME NEW u \in Users, NEW ttl \in TtlChoices, Create(u, ttl)
      PROVE  AccessesAreUses'
  <2>1. reply'.op = "create" /\ reply'.ids = {nextId}
    BY <1>7 DEF Create, Reply
  <2>2. nextId \in Sids
    BY <1>7, BoundAssumption DEF Create, TypeOK, Sids
  <2>3. activity'[nextId] = now
    BY <1>2, <2>1, <2>2
  <2>4. QED
    BY <1>3, <1>7, <2>3, CreateAccesses
<1>8. QED
  BY <1>4, <1>5, <1>6, <1>7, NextCases DEF StoreStep

(* A request is served only with a session that its owner used recently.   *)
LEMMA ActiveIsRecent ==
  ASSUME ~SlidingWindow, TypeOK, AccessesAreUses, NEW s \in Sids, DispatchActive(s)
  PROVE  AccessesAreUses' /\ IdleNotServed'
<1>1. s \in Stored /\ Touched(s) = sessions[s]
  BY TouchedType DEF DispatchActive
<1>2. /\ sessions[s].lastAccessed \in Nat /\ now \in Nat /\ activity[s] \in Nat
      /\ sessions[s].lastAccessed <= activity[s]
  BY <1>1, StoredType DEF AccessesAreUses
<1>3. now - sessions[s].lastAccessed <= Timeout
  BY <1>1 DEF DispatchActive, IdleSeconds
<1>4. now - activity[s] <= Timeout
  BY <1>2, <1>3, TimeoutAssumption
<1>5. request'.idle = now - activity[s]
  BY DEF DispatchActive, Request
<1>6. OwnersOnly /\ activity'[s] = now
  BY <1>2 DEF OwnersOnly, DispatchActive, AccessesAreUses
<1>7. Renews(s)
  BY <1>1, UpdateRenews DEF DispatchActive
<1>8. QED
  BY <1>4, <1>5, <1>6, <1>7, RenewsAccesses DEF IdleNotServed

IdleInv == AccessesAreUses /\ IdleNotServed

(* No step serves an idle session.                                         *)
LEMMA IdleStep ==
  ASSUME ~SlidingWindow, TypeOK, IdleInv, [TNext]_allVars
  PROVE  IdleInv'
<1> USE DEF IdleInv
<1>1. CASE StoreStep
  BY <1>1, StoreStepAccesses DEF StoreStep, NoRequest, IdleNotServed
<1>2. ASSUME NEW s \in Sids, DispatchWithoutSession(s) \/ DispatchTimeout(s)
      PROVE  IdleInv'
  <2>1. OwnersOnly
    BY <1>2 DEF DispatchWithoutSession, DispatchTimeout, OwnersOnly, AccessesAreUses
  <2>2. \E gone : Shrinks(gone)
    BY <1>2, GetEachShrinks, DropShrinks DEF DispatchWithoutSession, DispatchTimeout
  <2>3. request'.answer # "active"
    BY <1>2 DEF DispatchWithoutSession, DispatchTimeout, Request
  <2>4. QED
    BY <2>1, <2>2, <2>3, ShrinksAccesses DEF IdleNotServed
<1>3. ASSUME NEW s \in Sids, DispatchActive(s)
      PROVE  IdleInv'
  BY <1>3, ActiveIsRecent
<1>4. CASE UNCHANGED allVars
  BY <1>4 DEF allVars, vars, timeoutVars, AccessesAreUses, IdleNotServed, Stored
<1>5. QED
  BY <1>1, <1>2, <1>3, <1>4 DEF TNext

(* Over a store without sliding window no request is served with a session *)
(* its owner left unused for longer than the timeout.                      *)
THEOREM IdleCorrect ==
  ASSUME ~SlidingWindow
  PROVE  TSpec => []IdleNotServed
<1>1. TInit => IdleInv
  BY DEF TInit, Init, IdleInv, AccessesAreUses, IdleNotServed, NoRequest, Stored
<1>2. TypeOK /\ IdleInv /\ [TNext]_allVars => IdleInv'
  BY IdleStep
<1>3. IdleInv => IdleNotServed
  BY DEF IdleInv
<1>4. QED
  BY <1>1, <1>2, <1>3, TypeCorrect, PTL DEF TSpec

----------------------------------------------------------------------------
(* The store keeps what SessionStore promises: each step of the store and  *)
(* of the middleware is one of the promise, or leaves it alone.            *)

(* What the promise knows of the store.                                    *)
LEMMA HeldMeaning ==
  ASSUME TypeOK
  PROVE  /\ DOMAIN Held = Stored
         /\ \A u \in Users : Promise!Of(u) = Mine(u)
         /\ \A ids \in SUBSET Stored :
              Promise!Live(ids) = {s \in ids : ~Expired(s)}
<1>1. DOMAIN Held = Stored
  BY DEF Held
<1>2. \A u \in Users : Promise!Of(u) = Mine(u)
  BY <1>1 DEF Promise!Of, Mine, Held
<1>3. ASSUME NEW ids \in SUBSET Stored
      PROVE  Promise!Live(ids) = {s \in ids : ~Expired(s)}
  <2>1. \A s \in ids : /\ now \in Nat /\ sessions[s].expiresAt \in Nat
                       /\ Held[s].expiresAt = sessions[s].expiresAt
    BY BoundAssumption DEF TypeOK, Session, Held
  <2>2. QED
    BY <2>1 DEF Promise!Live, Expired
<1>4. QED
  BY <1>1, <1>2, <1>3

(* Sessions that are removed go from the promise too; no other changes.    *)
LEMMA ShrinksHeld ==
  ASSUME TypeOK, NEW gone, Shrinks(gone)
  PROVE  Promise!Keep(Stored \ gone)
<1>1. Stored' = Stored \ gone
  BY DEF Shrinks, Stored
<1>2. ASSUME NEW s \in Stored \ gone
      PROVE  /\ sessions'[s].user = sessions[s].user
             /\ sessions'[s].expiresAt = sessions[s].expiresAt
  <2>1. sessions[s] \in Session
    BY DEF TypeOK
  <2>2. Touched(s).expiresAt = sessions[s].expiresAt
    BY <2>1 DEF Touched, Session
  <2>3. QED
    BY <2>2, TouchedType DEF Shrinks
<1>3. Held' = [s \in Stored \ gone |-> Held[s]]
  BY <1>1, <1>2 DEF Held
<1>4. QED
  BY <1>3 DEF Promise!Keep

(* What is read is read in the promise as well.                            *)
LEMMA ReadHeld ==
  ASSUME TypeOK, NEW op, NEW ids \in SUBSET Stored, GetEach(ids),
         UNCHANGED <<now, nextId>>,
         reply' \in {Reply(op, {s \in ids : ~Expired(s)}), Reply("none", {})}
  PROVE  Promise!Read(op, ids)
<1> DEFINE dead == {s \in ids : Expired(s)}
<1>1. Promise!Live(ids) = {s \in ids : ~Expired(s)}
  BY HeldMeaning
<1>2. ids \ Promise!Live(ids) = dead
  BY <1>1
<1>3. Promise!Keep(Stored \ dead)
  BY GetEachShrinks, ShrinksHeld
<1>4. DOMAIN Held = Stored
  BY HeldMeaning
<1> HIDE DEF dead
<1>5. Promise!Answer(op, Promise!Live(ids))
  BY <1>1 DEF Promise!Answer, Reply
<1>6. QED
  BY <1>2, <1>3, <1>4, <1>5 DEF Promise!Read

(* What is deleted is revoked.                                             *)
LEMMA DropHeld ==
  ASSUME TypeOK, NEW op, NEW ids, ids # {}, Drop(ids), UNCHANGED <<now, nextId>>,
         reply' \in {Reply(op, ids), Reply("none", {})}
  PROVE  Promise!Revoke(op, ids)
<1>1. Promise!Keep(Stored \ ids)
  BY DropShrinks, ShrinksHeld
<1>2. DOMAIN Held = Stored
  BY HeldMeaning
<1>3. Promise!Answer(op, ids)
  BY DEF Promise!Answer, Reply
<1>4. QED
  BY <1>1, <1>2, <1>3 DEF Promise!Revoke

(* Marking a session as used changes nothing the promise knows.            *)
LEMMA UpdateHeld ==
  ASSUME TypeOK, NEW s \in Stored,
         sessions' = [sessions EXCEPT ![s].lastAccessed = now]
  PROVE  Held' = Held
<1>1. Stored' = Stored
  BY DEF Stored
<1>2. sessions[s] \in Session
  BY DEF TypeOK
<1>3. \A t \in Stored : /\ sessions'[t].user = sessions[t].user
                        /\ sessions'[t].expiresAt = sessions[t].expiresAt
  BY <1>2 DEF Stored, Session
<1>4. QED
  BY <1>1, <1>3 DEF Held

(* A list of increasing ids is as long as there are ids.                   *)
LEMMA IncreasingCounts ==
  ASSUME NEW list \in Seq(Nat), Increasing(list)
  PROVE  Cardinality(Range(list)) = Len(list)
<1>1. Len(list) \in Nat /\ DOMAIN list = 1..Len(list)
  OBVIOUS
<1>2. list \in Surjection(1..Len(list), Range(list))
  BY <1>1 DEF Surjection, Range
<1>3. IsFiniteSet(1..Len(list)) /\ Cardinality(1..Len(list)) = Len(list)
  BY <1>1, FS_Interval
<1>4. ASSUME NEW i \in 1..Len(list), NEW j \in 1..Len(list), list[i] = list[j]
      PROVE  i = j
  <2>1. list[i] \in Nat /\ list[j] \in Nat /\ i \in Nat /\ j \in Nat
    BY <1>1
  <2>2. ~(i < j) /\ ~(j < i)
    BY <1>1, <1>4, <2>1 DEF Increasing
  <2>3. QED
    BY <2>1, <2>2
<1>5. list \in Injection(1..Len(list), Range(list))
  BY <1>2, <1>4 DEF Injection, IsInjective, Surjection
<1>6. QED
  BY <1>2, <1>3, <1>5, FS_Surjection

(* The head of an increasing list is the smallest id, and is what Tail     *)
(* takes away.                                                             *)
LEMMA HeadIsOldest ==
  ASSUME NEW list \in Seq(Nat), Increasing(list), list # <<>>
  PROVE  Range(list) \ Range(Tail(list)) = Promise!Oldest(Range(list))
<1>1. /\ Len(list) \in Nat /\ 1 \in 1..Len(list)
      /\ DOMAIN list = 1..Len(list) /\ DOMAIN Tail(list) = 1..(Len(list) - 1)
  OBVIOUS
<1>2. \A i \in 1..(Len(list) - 1) : Tail(list)[i] = list[i + 1]
  OBVIOUS
<1>3. \A i \in 1..Len(list) : i # 1 => i - 1 \in 1..(Len(list) - 1) /\ (i - 1) + 1 = i
  BY <1>1
<1>4. \A i \in 1..(Len(list) - 1) : i + 1 \in 1..Len(list) /\ 1 < i + 1
  BY <1>1
<1>5. \A i \in 1..Len(list) : list[i] \in Nat /\ (i # 1 => list[1] < list[i])
  <2>1. \A i \in 1..Len(list) : list[i] \in Nat /\ (i # 1 => 1 < i)
    BY <1>1
  <2>2. QED
    BY <1>1, <2>1 DEF Increasing
<1>6. Range(Tail(list)) = {list[i] : i \in (1..Len(list)) \ {1}}
  <2>1. ASSUME NEW x \in Range(Tail(list))
        PROVE  x \in {list[i] : i \in (1..Len(list)) \ {1}}
    <3>1. PICK i \in 1..(Len(list) - 1) : x = Tail(list)[i]
      BY <1>1 DEF Range
    <3>2. x = list[i + 1] /\ i + 1 \in 1..Len(list) /\ i + 1 # 1
      BY <3>1, <1>2, <1>4
    <3>3. QED
      BY <3>2
  <2>2. ASSUME NEW i \in (1..Len(list)) \ {1}
        PROVE  list[i] \in Range(Tail(list))
    <3>1. i - 1 \in DOMAIN Tail(list) /\ Tail(list)[i - 1] = list[i]
      BY <1>1, <1>2, <1>3
    <3>2. QED
      BY <3>1 DEF Range
  <2>3. QED
    BY <2>1, <2>2
<1>7. Range(list) = {list[i] : i \in 1..Len(list)}
  BY <1>1 DEF Range
<1>8. Range(list) \ Range(Tail(list)) = {list[1]}
  <2>1. list[1] \in Range(list) /\ list[1] \notin Range(Tail(list))
    BY <1>1, <1>5, <1>6, <1>7
  <2>2. \A x \in Range(list) : x # list[1] => x \in Range(Tail(list))
    BY <1>6, <1>7
  <2>3. QED
    BY <2>1, <2>2
<1>9. Promise!Oldest(Range(list)) = {list[1]}
  <2>1. ASSUME NEW x \in Range(list) PROVE list[1] <= x
    <3>1. PICK i \in 1..Len(list) : x = list[i]
      BY <1>7
    <3>2. QED
      BY <1>1, <1>5, <3>1
  <2>2. ASSUME NEW x \in Range(list), \A y \in Range(list) : x <= y
        PROVE  x = list[1]
    <3>1. x <= list[1] /\ list[1] <= x /\ x \in Nat /\ list[1] \in Nat
      BY <1>1, <1>5, <1>7, <2>1, <2>2
    <3>2. QED
      BY <3>1
  <2>3. list[1] \in Range(list)
    BY <1>1, <1>7
  <2>4. QED
    BY <2>1, <2>2, <2>3 DEF Promise!Oldest
<1>10. QED
  BY <1>8, <1>9

(* create() removes the session the promise says: popping the head of the  *)
(* list when it is full is evicting the oldest of the user's sessions.     *)
LEMMA EvictsOldest ==
  ASSUME TypeOK, IndexConsistent, NEW u \in Users
  PROVE  Range(userSessions[u]) \ Range(Kept(u)) =
           IF Cardinality(Promise!Of(u)) >= MaxConcurrent
             THEN Promise!Oldest(Promise!Of(u)) ELSE {}
<1> DEFINE list == userSessions[u]
<1>1. list \in Seq(Nat) /\ Increasing(list) /\ Range(list) = Promise!Of(u)
  BY ListType, IndexMeaning, HeldMeaning
<1>2. Cardinality(Promise!Of(u)) = Len(list)
  BY <1>1, IncreasingCounts
<1>3. CASE list = <<>>
  <2>1. Promise!Of(u) = {}
    BY <1>1, <1>3 DEF Range
  <2>2. Promise!Oldest({}) = {}
    BY DEF Promise!Oldest
  <2>3. QED
    BY <1>1, <2>1, <2>2
<1>4. CASE list # <<>> /\ Len(list) >= MaxConcurrent
  <2>1. Kept(u) = Tail(list)
    BY <1>4 DEF Kept
  <2>2. QED
    BY <1>1, <1>2, <1>4, <2>1, HeadIsOldest
<1>5. CASE list # <<>> /\ ~(Len(list) >= MaxConcurrent)
  <2>1. Kept(u) = list
    BY <1>5 DEF Kept
  <2>2. QED
    BY <1>2, <1>5, <2>1
<1>6. QED
  BY <1>3, <1>4, <1>5

(* The Cardinality of the instance is that of FiniteSets.                  *)
LEMMA SameCardinality == \A S : Promise!Cardinality(S) = Cardinality(S)
BY Zenon DEF Promise!Cardinality, Cardinality, Promise!IsFiniteSet, IsFiniteSet

(* create() is the promise's.                                              *)
LEMMA CreateHeld ==
  ASSUME TypeOK, IndexConsistent, NEW u \in Users, NEW ttl \in TtlChoices,
         Create(u, ttl)
  PROVE  Promise!Create(u, ttl)
<1> DEFINE evicted == Range(userSessions[u]) \ Range(Kept(u))
<1>1. DOMAIN Held = Stored
  BY HeldMeaning
<1>2. Stored' = (Stored \ evicted) \cup {nextId}
  BY DEF Create, Stored
<1>3. \A s \in Stored' : sessions'[s] = IF s = nextId THEN NewSession(u, ttl) ELSE sessions[s]
  BY <1>2 DEF Create
<1>4. evicted = IF Cardinality(Promise!Of(u)) >= MaxConcurrent
                  THEN Promise!Oldest(Promise!Of(u)) ELSE {}
  BY EvictsOldest
<1> HIDE DEF evicted
<1>5. NewSession(u, ttl).user = u /\ NewSession(u, ttl).expiresAt = now + ttl
  BY DEF NewSession
<1>6. Held' = [s \in (Stored \ evicted) \cup {nextId} |->
                 IF s = nextId THEN [user |-> u, expiresAt |-> now + ttl]
                               ELSE Held[s]]
  BY <1>2, <1>3, <1>5 DEF Held
<1>7. Promise!Answer("create", {nextId})
  BY DEF Create, Reply, Promise!Answer
<1>8. nextId <= MaxSessions /\ nextId' = nextId + 1 /\ UNCHANGED now
  BY DEF Create
<1>9. Promise!Cardinality(Promise!Of(u)) = Cardinality(Promise!Of(u))
  BY SameCardinality
<1>10. QED
  BY <1>1, <1>4, <1>6, <1>7, <1>8, <1>9 DEF Promise!Create

(* refresh() is the promise's.                                             *)
LEMMA RefreshHeld ==
  ASSUME TypeOK, NEW s, NEW ttl \in TtlChoices, Refresh(s, ttl)
  PROVE  Promise!Refresh(s, ttl)
<1>1. s \in Stored /\ sessions[s] \in Session /\ DOMAIN Held = Stored
  BY HeldMeaning DEF Refresh, TypeOK
<1>2. Stored' = Stored
  BY DEF Refresh, Stored
<1>3. \A t \in Stored \ {s} : sessions'[t] = sessions[t]
  BY DEF Refresh, Stored
<1>4. sessions'[s].user = sessions[s].user /\ sessions'[s].expiresAt = now + ttl
  BY <1>1 DEF Refresh, Stored, Session
<1>5. Held' = [Held EXCEPT ![s].expiresAt = now + ttl]
  <2>1. Held[s] = [user |-> sessions[s].user, expiresAt |-> sessions[s].expiresAt]
    BY <1>1 DEF Held
  <2>2. [Held[s] EXCEPT !.expiresAt = now + ttl] =
          [user |-> sessions[s].user, expiresAt |-> now + ttl]
    BY <2>1
  <2>3. Held'[s] = [user |-> sessions[s].user, expiresAt |-> now + ttl]
    BY <1>1, <1>2, <1>4 DEF Held
  <2>4. \A t \in Stored \ {s} : Held'[t] = Held[t]
    BY <1>2, <1>3 DEF Held
  <2>5. DOMAIN Held' = Stored
    BY <1>2 DEF Held
  <2>6. Held' = [t \in Stored |-> Held'[t]]
    BY <1>2 DEF Held
  <2>7. Held = [t \in Stored |-> Held[t]]
    BY DEF Held
  <2> HIDE DEF Held
  <2>8. QED
    BY <1>1, <2>2, <2>3, <2>4, <2>5, <2>6, <2>7
<1>6. Promise!Answer("refresh", {s})
  BY DEF Refresh, Reply, Promise!Answer
<1>7. QED
  BY <1>1, <1>5, <1>6 DEF Refresh, Promise!Refresh

(* A sweep finds live sessions, and forgets those that expired.            *)
LEMMA InactiveHeld ==
  ASSUME TypeOK, NEW cutoff
  PROVE  /\ GetInactiveSessions(cutoff) => Promise!GetInactive(Inactive(cutoff))
         /\ DeleteInactiveSessions(cutoff) => Promise!DeleteInactive(Inactive(cutoff))
         /\ Inactive(cutoff) \in SUBSET Promise!Live(DOMAIN Held)
<1> DEFINE dead == {s \in Stored : Expired(s)}
           live == {s \in Stored : ~Expired(s)}
<1>1. DOMAIN Held = Stored /\ Promise!Live(DOMAIN Held) = live
  BY HeldMeaning
<1>2. Inactive(cutoff) \subseteq live
  BY DEF Inactive
<1>3. ASSUME GetInactiveSessions(cutoff)
      PROVE  Promise!GetInactive(Inactive(cutoff))
  <2>1. Shrinks(dead)
    BY <1>3, GetEachShrinks DEF GetInactiveSessions
  <2>2. Promise!Keep(live)
    <3>1. live = Stored \ dead
      OBVIOUS
    <3>2. Promise!Keep(Stored \ dead)
      BY <2>1, ShrinksHeld
    <3> HIDE DEF live, dead
    <3>3. QED
      BY <3>1, <3>2
  <2>3. Promise!Answer("inactive", Inactive(cutoff))
    BY <1>3 DEF GetInactiveSessions, Reply, Promise!Answer
  <2>4. QED
    BY <1>1, <1>3, <2>2, <2>3 DEF GetInactiveSessions, Promise!GetInactive
<1>4. ASSUME DeleteInactiveSessions(cutoff)
      PROVE  Promise!DeleteInactive(Inactive(cutoff))
  <2>1. Shrinks(dead \cup Inactive(cutoff))
    BY <1>4 DEF DeleteInactiveSessions, Shrinks
  <2>2. Promise!Keep(live \ Inactive(cutoff))
    <3>1. live \ Inactive(cutoff) = Stored \ (dead \cup Inactive(cutoff))
      OBVIOUS
    <3>2. Promise!Keep(Stored \ (dead \cup Inactive(cutoff)))
      BY <2>1, ShrinksHeld
    <3> HIDE DEF live, dead
    <3>3. QED
      BY <3>1, <3>2
  <2>3. Promise!Answer("deleteInactive", Inactive(cutoff))
    BY <1>4 DEF DeleteInactiveSessions, Reply, Promise!Answer
  <2>4. QED
    BY <1>1, <1>4, <2>2, <2>3 DEF DeleteInactiveSessions, Promise!DeleteInactive
<1>5. QED
  BY <1>1, <1>2, <1>3, <1>4

(* Each operation of the store is the one of that name in the promise.     *)
LEMMA NextHeld ==
  ASSUME TypeOK, IndexConsistent, Next
  PROVE  Promise!Next
<1>1. DOMAIN Held = Stored /\ \A u \in Users : Promise!Of(u) = Range(userSessions[u])
  BY HeldMeaning, IndexMeaning
<1>2. \A u \in Users : Promise!Of(u) \in SUBSET Stored
  BY <1>1 DEF Promise!Of
<1>3. CASE Tick
  <2>1. Held' = Held
    BY <1>3 DEF Tick, Held, Stored
  <2>2. Promise!Tick
    BY <1>3, <2>1 DEF Tick, Reply, Promise!Tick, Promise!Answer
  <2>3. QED
    BY <2>2 DEF Promise!Next
<1>4. ASSUME NEW u \in Users, NEW ttl \in TtlChoices, Create(u, ttl)
      PROVE  Promise!Next
  BY <1>4, CreateHeld DEF Promise!Next
<1>5. ASSUME NEW u \in Users, ListUserSessions(u)
      PROVE  Promise!Next
  <2>1. Range(userSessions[u]) \cap Stored = Promise!Of(u)
    BY <1>1, <1>2
  <2>2. Promise!Read("list", Promise!Of(u))
    BY <1>2, <1>5, <2>1, ReadHeld DEF ListUserSessions
  <2>3. QED
    BY <2>2 DEF Promise!Next
<1>6. ASSUME NEW u \in Users, DeleteUserSessions(u)
      PROVE  Promise!Next
  <2>1. Range(userSessions[u]) # {}
    <3>1. userSessions[u] \in Seq(Nat) /\ userSessions[u] # <<>>
      BY <1>6, ListType DEF DeleteUserSessions
    <3>2. 1 \in DOMAIN userSessions[u]
      BY <3>1
    <3>3. QED
      BY <3>2 DEF Range
  <2>2. Promise!Revoke("deleteAll", Promise!Of(u))
    BY <1>1, <1>6, <2>1, DropHeld DEF DeleteUserSessions
  <2>3. QED
    BY <2>2 DEF Promise!Next
<1>7. ASSUME NEW s \in Sids, Get(s)
      PROVE  Promise!Next
  <2>1. Promise!Read("get", {s} \cap DOMAIN Held)
    BY <1>1, <1>7, ReadHeld DEF Get
  <2>2. QED
    BY <2>1 DEF Promise!Next, Sids
<1>8. ASSUME NEW s \in Sids, Update(s)
      PROVE  Promise!Next
  <2>1. Held' = Held
    BY <1>8, UpdateHeld DEF Update
  <2>2. Promise!Update(s)
    BY <1>1, <1>8, <2>1 DEF Update, Reply, Promise!Update, Promise!Answer
  <2>3. QED
    BY <2>2 DEF Promise!Next, Sids
<1>9. ASSUME NEW s \in Sids, NEW ttl \in TtlChoices, Refresh(s, ttl)
      PROVE  Promise!Next
  BY <1>9, RefreshHeld DEF Promise!Next, Sids
<1>10. ASSUME NEW s \in Sids, Delete(s)
       PROVE  Promise!Next
  <2>1. {s} \cap DOMAIN Held = {s}
    BY <1>1, <1>10 DEF Delete
  <2>2. Promise!Revoke("delete", {s} \cap DOMAIN Held)
    BY <1>10, <2>1, DropHeld DEF Delete
  <2>3. QED
    BY <2>2 DEF Promise!Next, Sids
<1>11. ASSUME NEW cutoff \in 0..now,
              GetInactiveSessions(cutoff) \/ DeleteInactiveSessions(cutoff)
       PROVE  Promise!Next
  BY <1>11, InactiveHeld DEF Promise!Next
<1>12. QED
  BY <1>3, <1>4, <1>5, <1>6, <1>7, <1>8, <1>9, <1>10, <1>11 DEF Next

(* The middleware reads, deletes and marks sessions and keeps the answers. *)
LEMMA DispatchHeld ==
  ASSUME TypeOK, IndexConsistent, NEW s \in Sids,
         DispatchWithoutSession(s) \/ DispatchTimeout(s) \/ DispatchActive(s)
  PROVE  Promise!Next
<1>1. DOMAIN Held = Stored
  BY HeldMeaning
<1>2. CASE DispatchWithoutSession(s)
  <2>1. Promise!Read("get", {s} \cap DOMAIN Held)
    BY <1>1, <1>2, ReadHeld DEF DispatchWithoutSession
  <2>2. QED
    BY <2>1 DEF Promise!Next, Sids
<1>3. CASE DispatchTimeout(s)
  <2>1. {s} \cap DOMAIN Held = {s}
    BY <1>1, <1>3 DEF DispatchTimeout
  <2>2. Promise!Revoke("delete", {s} \cap DOMAIN Held)
    BY <1>3, <2>1, DropHeld DEF DispatchTimeout
  <2>3. QED
    BY <2>2 DEF Promise!Next, Sids
<1>4. CASE DispatchActive(s)
  <2>1. Held' = Held
    BY <1>4, UpdateHeld DEF DispatchActive
  <2>2. Promise!Update(s)
    BY <1>1, <1>4, <2>1 DEF DispatchActive, Reply, Promise!Update, Promise!Answer
  <2>3. QED
    BY <2>2 DEF Promise!Next, Sids
<1>5. QED
  BY <1>2, <1>3, <1>4

(* Nothing is held in the beginning.                                       *)
LEMMA InitHeld == Init => Promise!Init
<1> SUFFICES ASSUME Init PROVE Promise!Init
  OBVIOUS
<1>1. Stored = {}
  BY DEF Init, Stored
<1>2. Held = <<>>
  BY <1>1 DEF Held
<1>3. QED
  BY <1>2 DEF Init, Reply, Promise!Init

(* Who uses the in-memory store, alone or through the middleware, gets     *)
(* what SessionStore promises: auth/session.py's list of ids per user      *)
(* never shows in an answer, nor in which sessions go.                     *)
THEOREM Refinement == TSpec => ImplementsSessionStore
<1>1. TInit => Promise!Init
  BY InitHeld DEF TInit
<1>2. TypeOK /\ IndexConsistent /\ [TNext]_allVars => [Promise!Next]_(Promise!vars)
  <2> SUFFICES ASSUME TypeOK, IndexConsistent, [TNext]_allVars
               PROVE  Promise!Next \/ UNCHANGED Promise!vars
    OBVIOUS
  <2>1. CASE StoreStep
    BY <2>1, NextHeld DEF StoreStep
  <2>2. ASSUME NEW s \in Sids,
               DispatchWithoutSession(s) \/ DispatchTimeout(s) \/ DispatchActive(s)
        PROVE  Promise!Next
    BY <2>2, DispatchHeld
  <2>3. CASE UNCHANGED allVars
    BY <2>3 DEF allVars, vars, Promise!vars, Held, Stored
  <2>4. QED
    BY <2>1, <2>2, <2>3 DEF TNext
<1>3. QED
  BY <1>1, <1>2, TypeCorrect, IndexCorrect, PTL
     DEF TSpec, ImplementsSessionStore, Promise!Spec
=============================================================================
