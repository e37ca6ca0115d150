------------------------- MODULE ResilientCallProofs -------------------------
(***************************************************************************)
(* Theorems about ResilientCall, for every finite set of callers, every    *)
(* number of slots and every setting of the breaker and of the retries.    *)
(***************************************************************************)
EXTENDS ResilientCall, FiniteSetTheorems, SequenceTheorems, TLAPS

-----------------------------------------------------------------------------
(* The slots.  s describes the semaphore after a step: W are the callers   *)
(* that were waiting and still are or have just been woken, H the number   *)
(* of the other callers that hold a slot.                                  *)
GoodSlots(s, W, H) ==
    /\ s.free \in Nat
    /\ s.queue \in Seq(Callers)
    /\ s.woken \subseteq Callers
    /\ \A d \in Callers :
          d \in W <=> d \in s.woken \/ \E i \in DOMAIN s.queue : s.queue[i] = d
    /\ \A i \in DOMAIN s.queue : s.queue[i] \notin s.woken
    /\ \A i, j \in DOMAIN s.queue : s.queue[i] = s.queue[j] => i = j
    /\ s.free + Cardinality(s.woken) + H = Limit

IsSlots(s) == s = [free |-> s.free, queue |-> s.queue, woken |-> s.woken]

(* The elements of a sequence without repetition are as many as its length. *)
LEMMA PrefixCardinality ==
  ASSUME NEW q \in Seq(Callers), NEW k \in 0..Len(q),
         \A i, j \in DOMAIN q : q[i] = q[j] => i = j
  PROVE  /\ IsFiniteSet({q[i] : i \in 1..k})
         /\ Cardinality({q[i] : i \in 1..k}) = k
<1> DEFINE T == {q[i] : i \in 1..k}
           f == [i \in 1..k |-> q[i]]
<1>1. k \in Nat /\ Len(q) \in Nat /\ DOMAIN q = 1..Len(q)
  BY LenProperties
<1>2. f \in Bijection(1..k, T)
  BY <1>1 DEF Bijection, Injection, Surjection, IsInjective
<1>3. ExistsBijection(1..k, T)
  BY <1>2, Zenon DEF ExistsBijection
<1>4. IsFiniteSet(T)
  BY <1>1, <1>3, FS_NatBijection, Zenon
<1>5. Cardinality(T) = k
  BY <1>1, <1>3, FS_CountingElements, Zenon
<1> QED
  BY <1>4, <1>5

(* Waking the first k waiters hands each of them a slot that was free. *)
LEMMA WakeGood ==
  ASSUME NEW t, NEW W, NEW H \in Nat, GoodSlots(t, W, H), t.woken = {},
         NEW k \in 0..Len(t.queue), k <= t.free
  PROVE  GoodSlots(Wake(t, k), W, H)
<1> DEFINE q == t.queue
           r == Wake(t, k)
<1>1. q \in Seq(Callers) /\ t.free \in Nat
  BY DEF GoodSlots
<1>2. Len(q) \in Nat /\ DOMAIN q = 1..Len(q) /\ q \in [1..Len(q) -> Callers]
  BY <1>1, LenProperties
<1>3. \A i, j \in DOMAIN q : q[i] = q[j] => i = j
  BY DEF GoodSlots
<1>4. \A i \in (k + 1)..Len(q) : q[i] \in Callers
  BY <1>2
<1>5. /\ SubSeq(q, k + 1, Len(q)) \in Seq(Callers)
      /\ Len(SubSeq(q, k + 1, Len(q))) = Len(q) - k
      /\ \A i \in 1..(Len(q) - k) : SubSeq(q, k + 1, Len(q))[i] = q[k + i]
  <2>1. k + 1 \in Int /\ Len(q) \in Int
    BY <1>2
  <2>2. /\ SubSeq(q, k + 1, Len(q)) \in Seq(Callers)
        /\ Len(SubSeq(q, k + 1, Len(q))) = IF k + 1 <= Len(q) THEN Len(q) - (k + 1) + 1 ELSE 0
        /\ \A i \in 1..(Len(q) - (k + 1) + 1) : SubSeq(q, k + 1, Len(q))[i] = q[(k + 1) + i - 1]
    BY <1>4, <2>1, SubSeqProperties
  <2> QED
    BY <1>2, <2>2
<1> DEFINE tail == SubSeq(q, k + 1, Len(q))
<1>6. DOMAIN tail = 1..(Len(q) - k)
  BY <1>5, LenProperties
<1>7. r.free = t.free - k /\ r.queue = tail /\ r.woken = {q[i] : i \in 1..k}
  BY DEF Wake
<1> HIDE DEF tail, r
<1>8. r.free \in Nat /\ r.queue \in Seq(Callers)
  BY <1>1, <1>2, <1>5, <1>7 DEF tail
<1>9. r.woken \subseteq Callers
  BY <1>2, <1>7
<1>10. \A i \in DOMAIN tail : i \in 1..(Len(q) - k) /\ tail[i] = q[k + i] /\ k + i \in DOMAIN q /\ k + i > k
  BY <1>2, <1>5, <1>6 DEF tail
<1>11. \A d \in Callers :
          d \in W <=> d \in r.woken \/ \E i \in DOMAIN r.queue : r.queue[i] = d
  <2> SUFFICES ASSUME NEW d \in Callers
               PROVE  d \in W <=> d \in r.woken \/ \E i \in DOMAIN tail : tail[i] = d
    BY <1>7
  <2>1. d \in W <=> \E i \in DOMAIN q : q[i] = d
    BY DEF GoodSlots
  <2>2. ASSUME NEW i \in DOMAIN q, q[i] = d
        PROVE  d \in r.woken \/ \E j \in DOMAIN tail : tail[j] = d
    <3>1. CASE i <= k
      BY <1>2, <1>7, <2>2, <3>1
    <3>2. CASE i > k
      <4>1. i - k \in DOMAIN tail
        BY <1>2, <1>6, <3>2
      <4>2. tail[i - k] = q[k + (i - k)]
        BY <1>10, <4>1
      <4> QED
        BY <1>2, <2>2, <4>1, <4>2
    <3> QED
      BY <1>2, <3>1, <3>2
  <2>3. d \in r.woken => \E i \in DOMAIN q : q[i] = d
    BY <1>2, <1>7
  <2>4. (\E j \in DOMAIN tail : tail[j] = d) => \E i \in DOMAIN q : q[i] = d
    BY <1>10
  <2> QED
    BY <2>1, <2>2, <2>3, <2>4
<1>12. \A i \in DOMAIN r.queue : r.queue[i] \notin r.woken
  <2> SUFFICES ASSUME NEW i \in DOMAIN tail, NEW j \in 1..k, tail[i] = q[j]
               PROVE  FALSE
    BY <1>7
  <2>1. j \in DOMAIN q
    BY <1>2
  <2> QED
    BY <1>3, <1>10, <2>1
<1>13. \A i, j \in DOMAIN r.queue : r.queue[i] = r.queue[j] => i = j
  <2> SUFFICES ASSUME NEW i \in DOMAIN tail, NEW j \in DOMAIN tail, tail[i] = tail[j]
               PROVE  i = j
    BY <1>7
  <2>1. k + i = k + j
    BY <1>3, <1>10
  <2> QED
    BY <1>10, <2>1
<1>14. Cardinality(r.woken) = k
  BY <1>1, <1>3, <1>7, PrefixCardinality
<1>15. t.free + H = Limit
  <2>1. Cardinality(t.woken) = 0
    BY FS_EmptySet
  <2> QED
    BY <1>1, <2>1 DEF GoodSlots
<1>16. r.free + Cardinality(r.woken) + H = Limit
  BY <1>1, <1>7, <1>14, <1>15
<1> QED
  BY <1>8, <1>9, <1>11, <1>12, <1>13, <1>16 DEF GoodSlots, r

(* WakeOne and WakeAll wake as many waiters as there are, and as there are *)
(* free slots for; WakeAll leaves no waiter beside a free slot.            *)
LEMMA WakeOneGood ==
  ASSUME NEW t, NEW W, NEW H \in Nat, GoodSlots(t, W, H), t.woken = {}, t.free > 0
  PROVE  GoodSlots(WakeOne(t), W, H)
<1>1. t.queue \in Seq(Callers) /\ t.free \in Nat
  BY DEF GoodSlots
<1>2. t.queue # <<>> => Len(t.queue) >= 1
  BY <1>1, EmptySeq, LenProperties
<1> DEFINE k == IF t.queue = <<>> THEN 0 ELSE 1
<1>3. k \in 0..Len(t.queue) /\ k <= t.free
  BY <1>1, <1>2, LenProperties
<1>4. GoodSlots(Wake(t, k), W, H)
  BY <1>3, WakeGood
<1> QED
  BY <1>4 DEF WakeOne

LEMMA WakeAllGood ==
  ASSUME NEW t, NEW W, NEW H \in Nat, GoodSlots(t, W, H), t.woken = {}
  PROVE  /\ GoodSlots(WakeAll(t), W, H)
         /\ WakeAll(t).free > 0 => WakeAll(t).queue = <<>>
<1>1. t.queue \in Seq(Callers) /\ t.free \in Nat
  BY DEF GoodSlots
<1> DEFINE k == IF t.free < Len(t.queue) THEN t.free ELSE Len(t.queue)
<1>2. k \in 0..Len(t.queue) /\ k <= t.free
  BY <1>1, LenProperties
<1>3. GoodSlots(Wake(t, k), W, H)
  BY <1>2, WakeGood
<1>4. Wake(t, k).free > 0 => Wake(t, k).queue = <<>>
  <2> SUFFICES ASSUME t.free - k > 0 PROVE SubSeq(t.queue, k + 1, Len(t.queue)) = <<>>
    BY DEF Wake
  <2>1. k = Len(t.queue)
    BY <1>1, LenProperties
  <2>2. Len(t.queue) \in Nat
    BY <1>1, LenProperties
  <2>3. k + 1 \in Int /\ Len(t.queue) \in Int /\ Len(t.queue) < k + 1
    BY <2>1, <2>2
  <2> QED
    BY <2>3, SubSeqEmpty
<1> QED
  BY <1>3, <1>4 DEF WakeAll

(* Taking a caller out of the queue leaves the others in their places. *)
LEMMA AbandonGood ==
  ASSUME NEW t, NEW W, NEW H \in Nat, GoodSlots(t, W, H), t.woken = {},
         t = [free |-> t.free, queue |-> t.queue, woken |-> {}],
         NEW c \in W, c \in Callers
  PROVE  /\ GoodSlots(Abandoned(t, c), W \ {c}, H)
         /\ Abandoned(t, c).woken = {} /\ Abandoned(t, c).free = t.free
<1> DEFINE q == t.queue
           at == CHOOSE i \in DOMAIN q : q[i] = c
           r == Abandoned(t, c)
           rest == [i \in 1..(Len(q) - 1) |-> IF i < at THEN q[i] ELSE q[i + 1]]
<1>1. q \in Seq(Callers) /\ Len(q) \in Nat /\ DOMAIN q = 1..Len(q) /\ q \in [1..Len(q) -> Callers]
  BY LenProperties DEF GoodSlots
<1>2. \E i \in DOMAIN q : q[i] = c
  BY DEF GoodSlots
<1>3. at \in DOMAIN q /\ q[at] = c
  BY <1>2
<1> HIDE DEF at
<1>4. r = [free |-> t.free, queue |-> rest, woken |-> {}]
  <2>1. r = [t EXCEPT !.queue = rest]
    BY Zenon DEF Abandoned, at
  <2> HIDE DEF rest, q, r
  <2>2. [t EXCEPT !.queue = rest] = [free |-> t.free, queue |-> rest, woken |-> {}]
    BY SMT
  <2> QED
    BY <2>1, <2>2
<1>5. Len(q) - 1 \in Nat
  BY <1>1, <1>3
<1>6. \A i \in 1..(Len(q) - 1) : i \in DOMAIN q /\ i + 1 \in DOMAIN q
  BY <1>1, <1>5
<1>7. rest \in [1..(Len(q) - 1) -> Callers]
  BY <1>1, <1>6
<1>8. rest \in Seq(Callers)
  BY <1>5, <1>7, SeqDef
<1>9. DOMAIN rest = 1..(Len(q) - 1)
  OBVIOUS
<1>10. \A i, j \in DOMAIN q : q[i] = q[j] => i = j
  BY DEF GoodSlots
<1> DEFINE from(i) == IF i < at THEN i ELSE i + 1
<1>11. \A i \in DOMAIN rest : from(i) \in DOMAIN q /\ rest[i] = q[from(i)] /\ from(i) # at
  BY <1>1, <1>3, <1>6
<1>12. \A j \in DOMAIN q : j # at => \E i \in DOMAIN rest : from(i) = j
  <2> SUFFICES ASSUME NEW j \in DOMAIN q, j # at PROVE \E i \in DOMAIN rest : from(i) = j
    OBVIOUS
  <2>1. CASE j < at
    <3>1. j \in DOMAIN rest /\ from(j) = j
      BY <1>1, <1>3, <2>1
    <3> QED
      BY <3>1
  <2>2. CASE j > at
    <3>1. j - 1 \in DOMAIN rest /\ from(j - 1) = j
      BY <1>1, <1>3, <2>2
    <3> QED
      BY <3>1
  <2> QED
    BY <1>1, <1>3, <2>1, <2>2
<1>13. \A i, j \in DOMAIN rest : from(i) = from(j) => i = j
  BY <1>1, <1>3
<1> HIDE DEF rest, from
<1>14. \A d \in Callers : d \in W \ {c} <=> \E i \in DOMAIN rest : rest[i] = d
  <2> SUFFICES ASSUME NEW d \in Callers
               PROVE  d \in W \ {c} <=> \E i \in DOMAIN rest : rest[i] = d
    OBVIOUS
  <2>1. d \in W <=> \E i \in DOMAIN q : q[i] = d
    BY DEF GoodSlots
  <2>2. ASSUME d \in W \ {c} PROVE \E i \in DOMAIN rest : rest[i] = d
    <3>1. PICK j \in DOMAIN q : q[j] = d
      BY <2>1, <2>2
    <3>2. j # at
      BY <1>3, <2>2, <3>1
    <3> QED
      BY <1>11, <1>12, <3>1, <3>2
  <2>3. ASSUME NEW i \in DOMAIN rest, rest[i] = d PROVE d \in W \ {c}
    <3>1. d \in W
      BY <1>11, <2>1, <2>3
    <3>2. d # c
      BY <1>3, <1>10, <1>11, <2>3
    <3> QED
      BY <3>1, <3>2
  <2> QED
    BY <2>2, <2>3
<1>15. \A i, j \in DOMAIN rest : rest[i] = rest[j] => i = j
  BY <1>10, <1>11, <1>13
<1>16. t.free \in Nat /\ t.free + Cardinality({}) + H = Limit
  BY DEF GoodSlots
<1>17. r.free = t.free /\ r.queue = rest /\ r.woken = {}
  BY <1>4
<1> HIDE DEF r
<1>18. GoodSlots(r, W \ {c}, H)
  BY <1>8, <1>14, <1>15, <1>16, <1>17 DEF GoodSlots
<1> QED
  BY <1>17, <1>18 DEF r

-----------------------------------------------------------------------------
(* What holds of the slots, the queue and the places of the callers. *)
Waiting == {d \in Callers : pc[d] = "waiting"}

SlotsInv ==
    /\ free \in 0..Limit
    /\ queue \in Seq(Callers)
    /\ pc \in [Callers -> InCall \cup Ready]
    /\ QueueExact
    /\ SlotsConserved
    /\ NoLostWakeup

LEMMA SlotsGood ==
  ASSUME SlotsInv
  PROVE  /\ GoodSlots(Slots, Waiting, Cardinality(Holders))
         /\ IsFiniteSet(Holders) /\ Cardinality(Holders) \in Nat
         /\ Slots.woken = {} /\ Slots.free = free /\ Slots.queue = queue
         /\ Slots = [free |-> Slots.free, queue |-> Slots.queue, woken |-> {}]
<1>1. Slots.woken = {} /\ Slots.free = free /\ Slots.queue = queue
  BY DEF Slots
<1>2. IsFiniteSet(Holders) /\ Cardinality(Holders) \in Nat
  BY CallersAssumption, FS_Subset, FS_CardinalityType DEF Holders
<1>3. Cardinality({}) = 0
  BY FS_EmptySet
<1>4. free \in Nat /\ free + Cardinality({}) + Cardinality(Holders) = Limit
  BY <1>2, <1>3, LimitAssumption DEF SlotsInv, SlotsConserved
<1>5. \A d \in Callers : d \in Waiting <=> \E i \in DOMAIN queue : queue[i] = d
  BY DEF SlotsInv, QueueExact, Waiting
<1>6. \A i, j \in DOMAIN queue : queue[i] = queue[j] => i = j
  BY DEF SlotsInv, QueueExact
<1>7. queue \in Seq(Callers)
  BY DEF SlotsInv
<1>8. GoodSlots(Slots, Waiting, Cardinality(Holders))
  BY <1>1, <1>4, <1>5, <1>6, <1>7 DEF GoodSlots
<1> QED
  BY <1>1, <1>2, <1>8 DEF Slots

(* A move of caller c keeps SlotsInv if the slots it moves to are those of *)
(* the callers that wait and hold after it.                                *)
LEMMA MoveKeeps ==
  ASSUME SlotsInv, NEW c \in Callers, NEW where \in {"waiting", "running", "sleeping"} \cup Ready,
         NEW s, Move(c, where, s), c \notin s.woken,
         GoodSlots(s,
                   (Waiting \ {c}) \cup (IF where = "waiting" THEN {c} ELSE {}),
                   Cardinality(Holders \ {c}) + (IF where = "running" THEN 1 ELSE 0)),
         s.queue # <<>> /\ s.free > 0 =>
            s.woken # {} \/ \E d \in Callers \ {c} : pc[d] = "granted"
  PROVE  SlotsInv'
<1> DEFINE W == (Waiting \ {c}) \cup (IF where = "waiting" THEN {c} ELSE {})
           H == Cardinality(Holders \ {c}) + (IF where = "running" THEN 1 ELSE 0)
           Rest == Holders \ {c}
<1>1. /\ free' = s.free
      /\ queue' = s.queue
      /\ pc' = [d \in Callers |-> IF d = c THEN where
                                  ELSE IF d \in s.woken THEN "granted" ELSE pc[d]]
  BY DEF Move
<1>2. /\ s.free \in Nat
      /\ s.queue \in Seq(Callers)
      /\ s.woken \subseteq Callers
      /\ \A d \in Callers :
            d \in W <=> d \in s.woken \/ \E i \in DOMAIN s.queue : s.queue[i] = d
      /\ \A i \in DOMAIN s.queue : s.queue[i] \notin s.woken
      /\ \A i, j \in DOMAIN s.queue : s.queue[i] = s.queue[j] => i = j
      /\ s.free + Cardinality(s.woken) + H = Limit
  BY DEF GoodSlots
<1>3. pc \in [Callers -> InCall \cup Ready]
  BY DEF SlotsInv
<1>4. pc' \in [Callers -> InCall \cup Ready]
  BY <1>1, <1>3 DEF InCall, Ready
<1>5. \A d \in s.woken : d # c /\ d \in Waiting
  BY <1>2
<1>6. IsFiniteSet(Rest) /\ Cardinality(Rest) \in Nat /\ IsFiniteSet(s.woken) /\ Cardinality(s.woken) \in Nat
  BY <1>2, CallersAssumption, FS_Subset, FS_CardinalityType DEF Holders
<1>7. Holders' = (Rest \cup s.woken) \cup (IF where = "running" THEN {c} ELSE {})
  <2>1. ASSUME NEW d \in Callers
        PROVE  d \in Holders' <=> d \in (Rest \cup s.woken) \cup (IF where = "running" THEN {c} ELSE {})
    <3>1. CASE d = c
      BY <1>1, <1>5, <3>1 DEF Holders, Ready
    <3>2. CASE d # c /\ d \in s.woken
      BY <1>1, <3>2 DEF Holders
    <3>3. CASE d # c /\ d \notin s.woken
      <4>1. pc'[d] = pc[d]
        BY <1>1, <3>3
      <4> QED
        BY <3>3, <4>1 DEF Holders
    <3> QED
      BY <3>1, <3>2, <3>3
  <2> QED
    BY <1>2, <2>1 DEF Holders
<1>8. Rest \cap s.woken = {}
  BY <1>5 DEF Holders, Waiting
<1>9. /\ IsFiniteSet(Rest \cup s.woken)
      /\ Cardinality(Rest \cup s.woken) = Cardinality(Rest) + Cardinality(s.woken)
  <2>1. Cardinality(Rest \cap s.woken) = 0
    BY <1>8, FS_EmptySet
  <2>2. /\ IsFiniteSet(Rest \cup s.woken)
        /\ Cardinality(Rest \cup s.woken)
             = Cardinality(Rest) + Cardinality(s.woken) - Cardinality(Rest \cap s.woken)
    BY <1>6, FS_Union
  <2> QED
    BY <1>6, <2>1, <2>2
<1>10. c \notin Rest \cup s.woken
  BY <1>5
<1>11. Cardinality(Holders') = Cardinality(Rest) + Cardinality(s.woken) + (IF where = "running" THEN 1 ELSE 0)
  <2>1. CASE where = "running"
    BY <1>6, <1>7, <1>9, <1>10, <2>1, FS_AddElement
  <2>2. CASE where # "running"
    <3>1. Holders' = Rest \cup s.woken
      BY <1>7, <2>2
    <3> QED
      BY <1>6, <1>9, <2>2, <3>1
  <2> QED
    BY <2>1, <2>2
<1>12. SlotsConserved'
  <2>1. free' + Cardinality(Holders') = Limit
    BY <1>1, <1>2, <1>6, <1>11
  <2> QED
    BY <2>1 DEF SlotsConserved
<1>13. free' \in 0..Limit
  BY <1>1, <1>2, <1>6, LimitAssumption
<1>14. \A d \in Callers : pc'[d] = "waiting" <=> \E i \in DOMAIN queue' : queue'[i] = d
  <2> SUFFICES ASSUME NEW d \in Callers
               PROVE  pc'[d] = "waiting" <=> \E i \in DOMAIN s.queue : s.queue[i] = d
    BY <1>1
  <2>1. CASE d \in s.woken
    BY <1>1, <1>2, <1>5, <2>1
  <2>2. CASE d \notin s.woken
    <3>1. pc'[d] = "waiting" <=> d \in W
      BY <1>1, <2>2 DEF Waiting
    <3> QED
      BY <1>2, <2>2, <3>1
  <2> QED
    BY <2>1, <2>2
<1>15. QueueExact'
  BY <1>1, <1>2, <1>14 DEF QueueExact
<1>16. NoLostWakeup'
  <2> SUFFICES ASSUME s.queue # <<>>, s.free > 0
               PROVE  \E d \in Callers : pc'[d] = "granted"
    BY <1>1 DEF NoLostWakeup
  <2>1. CASE s.woken # {}
    <3>1. PICK d \in s.woken : TRUE
      BY <2>1
    <3> QED
      BY <1>1, <1>2, <1>5, <3>1
  <2>2. CASE \E d \in Callers \ {c} : pc[d] = "granted"
    BY <1>1, <2>2
  <2> QED
    BY <2>1, <2>2
<1> QED
  BY <1>1, <1>2, <1>4, <1>12, <1>13, <1>15, <1>16 DEF SlotsInv

(* Giving a slot back. *)
LEMMA ReturnedGood ==
  ASSUME SlotsInv, NEW c \in Holders
  PROVE  /\ GoodSlots(Returned(Slots), Waiting \ {c}, Cardinality(Holders \ {c}))
         /\ Cardinality(Holders \ {c}) \in Nat
         /\ Returned(Slots).woken = {} /\ Returned(Slots).free > 0
         /\ Returned(Slots).queue = queue
<1> DEFINE H == Cardinality(Holders)
<1>1. /\ GoodSlots(Slots, Waiting, H) /\ IsFiniteSet(Holders) /\ H \in Nat
      /\ Slots.woken = {} /\ Slots.free = free /\ Slots.queue = queue
  BY SlotsGood
<1>2. Waiting \ {c} = Waiting
  BY DEF Waiting, Holders
<1>3. Cardinality(Holders \ {c}) = H - 1 /\ H # 0
  BY <1>1, FS_RemoveElement, FS_EmptySet
<1>4. Returned(Slots) = [free |-> free + 1, queue |-> queue, woken |-> {}]
  BY DEF Returned, Slots
<1>5. /\ Returned(Slots).free = free + 1
      /\ Returned(Slots).queue = queue
      /\ Returned(Slots).woken = {}
  BY <1>4
<1>6. free \in Nat
  BY <1>1 DEF GoodSlots
<1>7. Returned(Slots).free \in Nat /\ Returned(Slots).free > 0
  BY <1>5, <1>6
<1>8. Returned(Slots).free + Cardinality(Returned(Slots).woken) + (H - 1) = Limit
  <2>1. Cardinality({}) = 0
    BY FS_EmptySet
  <2>2. free + Cardinality({}) + H = Limit
    BY <1>1 DEF GoodSlots
  <2> QED
    BY <1>1, <1>5, <1>6, <2>1, <2>2
<1> DEFINE r == Returned(Slots)
<1> HIDE DEF r
<1>9. GoodSlots(r, Waiting, H - 1)
  <2>1. /\ queue \in Seq(Callers)
        /\ \A d \in Callers : d \in Waiting <=> d \in {} \/ \E i \in DOMAIN queue : queue[i] = d
        /\ \A i, j \in DOMAIN queue : queue[i] = queue[j] => i = j
    BY <1>1 DEF GoodSlots
  <2>2. r.queue = queue /\ r.woken = {} /\ r.free \in Nat /\ r.free + Cardinality(r.woken) + (H - 1) = Limit
    BY <1>5, <1>7, <1>8 DEF r
  <2> QED
    BY <2>1, <2>2 DEF GoodSlots
<1> QED
  BY <1>1, <1>2, <1>3, <1>5, <1>7, <1>9 DEF r

(* The slots after a caller has left are good, and no wake-up is lost. *)
LEMMA LeaveGood ==
  ASSUME SlotsInv, NEW c \in Callers, pc[c] \in InCall
  PROVE  /\ GoodSlots(Leave(c), Waiting \ {c}, Cardinality(Holders \ {c}))
         /\ c \notin Leave(c).woken
         /\ Leave(c).queue # <<>> /\ Leave(c).free > 0 =>
               Leave(c).woken # {} \/ \E d \in Callers \ {c} : pc[d] = "granted"
<1> DEFINE W == Waiting \ {c}
           H == Cardinality(Holders \ {c})
           s == Leave(c)
<1>1. /\ GoodSlots(Slots, Waiting, Cardinality(Holders)) /\ Cardinality(Holders) \in Nat
      /\ Slots.woken = {} /\ Slots.free = free /\ Slots.queue = queue
      /\ Slots = [free |-> Slots.free, queue |-> Slots.queue, woken |-> {}]
  BY SlotsGood
<1>2. queue \in Seq(Callers)
  BY DEF SlotsInv
<1>3. SUFFICES /\ GoodSlots(s, W, H)
               /\ s.queue # <<>> /\ s.free > 0 =>
                     s.woken # {} \/ \E d \in Callers \ {c} : pc[d] = "granted"
  <2>1. ASSUME GoodSlots(s, W, H) PROVE c \notin s.woken
    BY <2>1 DEF GoodSlots
  <2> QED
    BY <2>1
<1>4. CASE pc[c] = "running"
  <2> DEFINE t == Returned(Slots)
  <2>1. c \in Holders
    BY <1>4 DEF Holders
  <2>2. GoodSlots(t, W, H) /\ H \in Nat /\ t.woken = {} /\ t.free > 0 /\ t.queue = queue
    BY <2>1, ReturnedGood
  <2>3. s = WakeOne(t)
    BY <1>4 DEF Leave
  <2> HIDE DEF t, s
  <2>4. GoodSlots(s, W, H)
    BY <2>2, <2>3, WakeOneGood
  <2>5. CASE queue = <<>>
    <3>1. s.queue = SubSeq(queue, 0 + 1, Len(queue))
      BY <2>2, <2>3, <2>5 DEF WakeOne, Wake
    <3>2. SubSeq(queue, 1, Len(queue)) = queue
      BY <1>2, SubSeqFull
    <3> QED
      BY <2>4, <2>5, <3>1, <3>2
  <2>6. CASE queue # <<>>
    <3>1. s.woken = {queue[i] : i \in 1..1}
      BY <2>2, <2>3, <2>6 DEF WakeOne, Wake
    <3>2. queue[1] \in s.woken
      BY <3>1
    <3> QED
      BY <2>4, <3>2
  <2> QED
    BY <2>5, <2>6
<1>5. CASE pc[c] = "granted"
  <2> DEFINE t == Returned(Slots)
  <2>1. c \in Holders
    BY <1>5 DEF Holders
  <2>2. GoodSlots(t, W, H) /\ H \in Nat /\ t.woken = {}
    BY <2>1, ReturnedGood
  <2>3. s = WakeAll(t)
    BY <1>5 DEF Leave
  <2> QED
    BY <2>2, <2>3, WakeAllGood
<1>6. CASE pc[c] = "waiting"
  <2> DEFINE t == Abandoned(Slots, c)
  <2>1. c \in Waiting /\ Holders \ {c} = Holders
    BY <1>6 DEF Waiting, Holders
  <2>2. GoodSlots(t, W, H) /\ t.woken = {}
    BY <1>1, <2>1, AbandonGood
  <2>3. s = WakeAll(t)
    BY <1>6 DEF Leave
  <2> QED
    BY <1>1, <2>1, <2>2, <2>3, WakeAllGood
<1>7. CASE pc[c] = "sleeping"
  <2>1. W = Waiting /\ H = Cardinality(Holders)
    <3>1. Waiting \ {c} = Waiting /\ Holders \ {c} = Holders
      BY <1>7 DEF Waiting, Holders
    <3> QED
      BY <3>1
  <2>2. s = Slots
    BY <1>7 DEF Leave
  <2>3. queue # <<>> /\ free > 0 => \E d \in Callers : pc[d] = "granted"
    BY DEF SlotsInv, NoLostWakeup
  <2> QED
    BY <1>1, <1>7, <2>1, <2>2, <2>3
<1> QED
  BY <1>4, <1>5, <1>6, <1>7 DEF InCall

(* A caller outside the bulkhead leaves the slots as they are. *)
LEMMA OutsideGood ==
  ASSUME SlotsInv, NEW c \in Callers, pc[c] \in Ready \cup {"sleeping"}
  PROVE  /\ Waiting \ {c} = Waiting /\ Holders \ {c} = Holders
         /\ GoodSlots(Slots, Waiting \ {c}, Cardinality(Holders \ {c}))
         /\ Cardinality(Holders \ {c}) \in Nat
         /\ c \notin Slots.woken
         /\ Slots.queue # <<>> /\ Slots.free > 0 =>
               Slots.woken # {} \/ \E d \in Callers \ {c} : pc[d] = "granted"
<1>1. /\ GoodSlots(Slots, Waiting, Cardinality(Holders)) /\ Cardinality(Holders) \in Nat
      /\ Slots.woken = {} /\ Slots.free = free /\ Slots.queue = queue
  BY SlotsGood
<1>2. Waiting \ {c} = Waiting /\ Holders \ {c} = Holders
  BY DEF Waiting, Holders, Ready
<1>3. queue # <<>> /\ free > 0 => \E d \in Callers \ {c} : pc[d] = "granted"
  BY DEF SlotsInv, NoLostWakeup, Ready
<1> QED
  BY <1>1, <1>2, <1>3

(* A caller takes a free slot. *)
LEMMA TakeKeeps ==
  ASSUME SlotsInv, NEW c \in Callers, pc[c] \in Ready \cup {"sleeping"}, ~Locked,
         Move(c, "running", [Slots EXCEPT !.free = @ - 1])
  PROVE  SlotsInv'
<1> DEFINE s == [Slots EXCEPT !.free = @ - 1]
           H == Cardinality(Holders \ {c})
<1>1. /\ Waiting \ {c} = Waiting
      /\ GoodSlots(Slots, Waiting \ {c}, H)
      /\ H \in Nat
  BY OutsideGood
<1>2. s = [free |-> free - 1, queue |-> queue, woken |-> {}]
  BY DEF Slots
<1>3. s.free = free - 1 /\ s.queue = queue /\ s.woken = {}
  BY <1>2
<1>4. free \in Nat /\ free > 0
  BY LimitAssumption DEF SlotsInv, Locked
<1>5. /\ Slots.free = free /\ Slots.queue = queue /\ Slots.woken = {}
  BY DEF Slots
<1> HIDE DEF s, H
<1>6. GoodSlots(s, Waiting \ {c}, H + 1)
  <2>1. /\ queue \in Seq(Callers)
        /\ \A d \in Callers :
              d \in Waiting \ {c} <=> d \in {} \/ \E i \in DOMAIN queue : queue[i] = d
        /\ \A i, j \in DOMAIN queue : queue[i] = queue[j] => i = j
    BY <1>1, <1>5 DEF GoodSlots
  <2>2. Cardinality({}) = 0
    BY FS_EmptySet
  <2>3. free + Cardinality({}) + H = Limit
    BY <1>1, <1>5 DEF GoodSlots
  <2>4. s.free \in Nat /\ s.free + Cardinality(s.woken) + (H + 1) = Limit
    BY <1>1, <1>3, <1>4, <2>2, <2>3
  <2> QED
    BY <1>3, <2>1, <2>4 DEF GoodSlots
<1>7. s.queue = <<>>
  <2>1. ASSUME queue # <<>> PROVE FALSE
    <3>1. queue \in Seq(Callers)
      BY DEF SlotsInv
    <3>2. 1 \in DOMAIN queue /\ queue[1] \in Callers
      BY <2>1, <3>1, LenProperties, EmptySeq
    <3>3. pc[queue[1]] = "waiting"
      BY <3>2 DEF SlotsInv, QueueExact
    <3> QED
      BY <3>2, <3>3 DEF Locked
  <2> QED
    BY <1>3, <2>1
<1>8. (Waiting \ {c}) \cup (IF "running" = "waiting" THEN {c} ELSE {}) = Waiting \ {c}
  OBVIOUS
<1>9. H + (IF "running" = "running" THEN 1 ELSE 0) = H + 1
  OBVIOUS
<1>10. /\ GoodSlots(s, (Waiting \ {c}) \cup (IF "running" = "waiting" THEN {c} ELSE {}),
                       H + (IF "running" = "running" THEN 1 ELSE 0))
       /\ Move(c, "running", s) /\ c \notin s.woken
       /\ s.queue # <<>> /\ s.free > 0 =>
             s.woken # {} \/ \E d \in Callers \ {c} : pc[d] = "granted"
  BY <1>3, <1>6, <1>7, <1>8, <1>9 DEF s
<1> QED
  BY <1>10, MoveKeeps DEF H

(* A caller joins the queue. *)
LEMMA EnqueueKeeps ==
  ASSUME SlotsInv, NEW c \in Callers, pc[c] \in Ready \cup {"sleeping"}, Locked,
         Move(c, "waiting", [Slots EXCEPT !.queue = Append(@, c)])
  PROVE  SlotsInv'
<1> DEFINE s == [Slots EXCEPT !.queue = Append(@, c)]
           H == Cardinality(Holders \ {c})
           W == Waiting \cup {c}
           q == Append(queue, c)
<1>1. /\ Waiting \ {c} = Waiting
      /\ GoodSlots(Slots, Waiting \ {c}, H)
      /\ H \in Nat
  BY OutsideGood
<1>2. s = [free |-> free, queue |-> q, woken |-> {}]
  <2>1. Slots.queue = queue
    BY DEF Slots
  <2>2. s = [Slots EXCEPT !.queue = q]
    BY <2>1
  <2> HIDE DEF q, s
  <2> QED
    BY <2>2 DEF Slots
<1>3. s.free = free /\ s.queue = q /\ s.woken = {}
  BY <1>2
<1>4. /\ Slots.free = free /\ Slots.queue = queue /\ Slots.woken = {}
  BY DEF Slots
<1>5. /\ queue \in Seq(Callers) /\ free \in Nat
      /\ \A d \in Callers : d \in Waiting <=> \E i \in DOMAIN queue : queue[i] = d
      /\ \A i, j \in DOMAIN queue : queue[i] = queue[j] => i = j
      /\ free + Cardinality({}) + H = Limit
  BY <1>1, <1>4 DEF GoodSlots
<1>6. /\ q \in Seq(Callers) /\ Len(q) = Len(queue) + 1 /\ q[Len(queue) + 1] = c
      /\ \A i \in 1..Len(queue) : q[i] = queue[i]
      /\ Len(queue) \in Nat /\ DOMAIN queue = 1..Len(queue)
  BY <1>5, AppendProperties, LenProperties
<1>7. DOMAIN q = DOMAIN queue \cup {Len(queue) + 1} /\ Len(queue) + 1 \notin DOMAIN queue
  BY <1>6, LenProperties
<1>8. \A i \in DOMAIN queue : q[i] = queue[i] /\ queue[i] \in Waiting /\ queue[i] # c
  <2> SUFFICES ASSUME NEW i \in DOMAIN queue PROVE q[i] = queue[i] /\ queue[i] \in Waiting /\ queue[i] # c
    OBVIOUS
  <2>1. queue[i] \in Callers
    BY <1>5, LenProperties
  <2> QED
    BY <1>1, <1>5, <1>6, <2>1
<1> HIDE DEF s, H, q
<1>9. \A d \in Callers : d \in W <=> \E i \in DOMAIN q : q[i] = d
  <2> SUFFICES ASSUME NEW d \in Callers PROVE d \in W <=> \E i \in DOMAIN q : q[i] = d
    OBVIOUS
  <2>1. CASE d = c
    BY <1>6, <1>7, <2>1
  <2>2. CASE d # c
    BY <1>5, <1>6, <1>7, <1>8, <2>2
  <2> QED
    BY <2>1, <2>2
<1>10. \A i, j \in DOMAIN q : q[i] = q[j] => i = j
  BY <1>5, <1>6, <1>7, <1>8
<1>11. GoodSlots(s, W, H)
  BY <1>3, <1>5, <1>6, <1>9, <1>10 DEF GoodSlots
<1>12. free > 0 => \E d \in Callers \ {c} : pc[d] = "granted"
  <2> SUFFICES ASSUME free > 0 PROVE \E d \in Callers \ {c} : pc[d] = "granted"
    OBVIOUS
  <2>1. PICK d \in Callers : pc[d] \in {"waiting", "granted"}
    BY <1>5 DEF Locked
  <2>2. CASE pc[d] = "granted"
    BY <2>2 DEF Ready
  <2>3. CASE pc[d] = "waiting"
    <3>1. PICK i \in DOMAIN queue : queue[i] = d
      BY <2>3 DEF SlotsInv, QueueExact
    <3>2. queue # <<>>
      BY <1>6, <3>1
    <3>3. \E e \in Callers : pc[e] = "granted"
      BY <3>2 DEF SlotsInv, NoLostWakeup
    <3> QED
      BY <3>3 DEF Ready
  <2> QED
    BY <2>1, <2>2, <2>3
<1>13. (Waiting \ {c}) \cup (IF "waiting" = "waiting" THEN {c} ELSE {}) = W
  OBVIOUS
<1>14. H + (IF "waiting" = "running" THEN 1 ELSE 0) = H
  BY <1>1
<1>15. /\ GoodSlots(s, (Waiting \ {c}) \cup (IF "waiting" = "waiting" THEN {c} ELSE {}),
                       H + (IF "waiting" = "running" THEN 1 ELSE 0))
       /\ Move(c, "waiting", s) /\ c \notin s.woken
       /\ s.queue # <<>> /\ s.free > 0 =>
             s.woken # {} \/ \E d \in Callers \ {c} : pc[d] = "granted"
  <2>1. Move(c, "waiting", s) /\ c \notin s.woken
    BY <1>3 DEF s
  <2>2. s.queue # <<>> /\ s.free > 0 => \E d \in Callers \ {c} : pc[d] = "granted"
    BY <1>3, <1>12
  <2> QED
    BY <1>11, <1>13, <1>14, <2>1, <2>2
<1> QED
  BY <1>15, MoveKeeps DEF H

(* A caller goes to sleep, gives up or returns, wherever it was. *)
LEMMA DepartKeeps ==
  ASSUME SlotsInv, NEW c \in Callers, NEW where \in Ready \cup {"sleeping"}, NEW s,
         \/ pc[c] \in InCall /\ s = Leave(c)
         \/ pc[c] \in Ready \cup {"sleeping"} /\ s = Slots,
         Move(c, where, s)
  PROVE  SlotsInv'
<1> DEFINE H == Cardinality(Holders \ {c})
<1>1. /\ GoodSlots(s, Waiting \ {c}, H)
      /\ c \notin s.woken
      /\ s.queue # <<>> /\ s.free > 0 =>
            s.woken # {} \/ \E d \in Callers \ {c} : pc[d] = "granted"
  BY LeaveGood, OutsideGood
<1>2. H \in Nat
  <2>1. IsFiniteSet(Holders \ {c})
    BY CallersAssumption, FS_Subset DEF Holders
  <2> QED
    BY <2>1, FS_CardinalityType
<1>3. (Waiting \ {c}) \cup (IF where = "waiting" THEN {c} ELSE {}) = Waiting \ {c}
  BY DEF Ready
<1>4. H + (IF where = "running" THEN 1 ELSE 0) = H
  BY <1>2 DEF Ready
<1> HIDE DEF H
<1>5. /\ GoodSlots(s, (Waiting \ {c}) \cup (IF where = "waiting" THEN {c} ELSE {}),
                      H + (IF where = "running" THEN 1 ELSE 0))
      /\ where \in {"waiting", "running", "sleeping"} \cup Ready
  BY <1>1, <1>3, <1>4
<1> QED
  BY <1>1, <1>5, MoveKeeps DEF H

-----------------------------------------------------------------------------
(* The record of a breaker that counts a failure. *)
LEMMA CountUpdate ==
  ASSUME NEW st, NEW n, NEW a, NEW e, NEW m, NEW k, NEW l, NEW b, NEW r,
         b = [state |-> st, counter |-> n, age |-> a, ended |-> e, failed |-> m],
         r = [b EXCEPT !.counter = k, !.ended = k, !.failed = l]
  PROVE  r = [state |-> st, counter |-> k, age |-> a, ended |-> k, failed |-> l]
<1>1. DOMAIN b = {"state", "counter", "age", "ended", "failed"} /\ DOMAIN r = DOMAIN b
  OBVIOUS
<1>2. r.state = st
  BY <1>1
<1>3. r.counter = k
  BY <1>1
<1>4. r.age = a
  BY <1>1
<1>5. r.ended = k
  BY <1>1
<1>6. r.failed = l
  BY <1>1
<1> QED
  BY <1>1, <1>2, <1>3, <1>4, <1>5, <1>6

(* The record of a breaker that opens. *)
LEMMA TripUpdate ==
  ASSUME NEW st, NEW n, NEW a, NEW e, NEW m, NEW k, NEW l, NEW b, NEW r,
         b = [state |-> st, counter |-> n, age |-> a, ended |-> e, failed |-> m],
         r = [b EXCEPT !.state = k, !.age = l]
  PROVE  r = [state |-> k, counter |-> n, age |-> l, ended |-> e, failed |-> m]
<1>1. DOMAIN b = {"state", "counter", "age", "ended", "failed"} /\ DOMAIN r = DOMAIN b
  OBVIOUS
<1>2. r.state = k
  BY <1>1
<1>3. r.counter = n
  BY <1>1
<1>4. r.age = l
  BY <1>1
<1>5. r.ended = e
  BY <1>1
<1>6. r.failed = m
  BY <1>1
<1> QED
  BY <1>1, <1>2, <1>3, <1>4, <1>5, <1>6

(* The breaker: its counter is the number of calls recorded since it was   *)
(* closed, successes included, and it is open only after fail_max of them. *)
GoodBreaker(b) ==
    /\ b \in Breakers
    /\ b.counter = b.ended
    /\ b.state = "open" => b.ended = FailMax /\ b.failed > 0

(* A call's attempts stay within its configuration. *)
RetryInv ==
    /\ attempt \in [Callers -> 0..OverloadAttempts]
    /\ overloaded \in [Callers -> BOOLEAN]
    /\ AttemptsExact

(* The inductive invariant. *)
IInv == SlotsInv /\ RetryInv /\ GoodBreaker(breaker)

LEMMA BreakerKeeps ==
  ASSUME NEW b, GoodBreaker(b)
  PROVE  /\ GoodBreaker(OnSuccess(b)) /\ GoodBreaker(OnFailure(b))
         /\ GoodBreaker(Close(b)) /\ GoodBreaker(BeforeCall(b))
         /\ Refusing(b) => GoodBreaker([b EXCEPT !.age = @ + 1])
<1>1. FailMax \in Nat /\ FailMax > 0 /\ ResetTimeout \in Nat
  BY BreakerAssumption
<1>2. PICK st \in {"closed", "open"}, n \in 0..FailMax, a \in 0..ResetTimeout, m \in 0..FailMax :
         b = [state |-> st, counter |-> n, age |-> a, ended |-> n, failed |-> m]
  <2>1. b = [state |-> b.state, counter |-> b.counter, age |-> b.age, ended |-> b.ended, failed |-> b.failed]
    BY DEF GoodBreaker, Breakers
  <2> QED
    BY <2>1 DEF GoodBreaker, Breakers
<1>3. st = "open" => n = FailMax /\ m > 0
  BY <1>2 DEF GoodBreaker
<1>4. GoodBreaker(Close(b)) /\ GoodBreaker(BeforeCall(b))
  BY <1>1, <1>2 DEF Close, BeforeCall, NewBreaker, GoodBreaker, Breakers
<1>5. Bump(n) \in 0..FailMax /\ Bump(m) \in 0..FailMax /\ Bump(m) > 0 /\ (n = FailMax => Bump(n) = FailMax)
  BY <1>1 DEF Bump
<1> DEFINE k == Bump(n)
           l == Bump(m)
<1> HIDE DEF k, l
<1>6. OnSuccess(b) = [state |-> st, counter |-> k, age |-> a, ended |-> k, failed |-> m]
  <2>1. b.counter = n /\ b.ended = n
    BY <1>2
  <2>2. OnSuccess(b) = [b EXCEPT !.counter = k, !.ended = k]
    BY <2>1, Zenon DEF OnSuccess, k
  <2> QED
    BY <1>2, <2>2
<1>7. GoodBreaker(OnSuccess(b))
  BY <1>3, <1>5, <1>6 DEF GoodBreaker, Breakers, k
<1>8. OnFailure(b) = IF st = "closed" /\ k >= FailMax
                     THEN [state |-> "open", counter |-> k, age |-> 0, ended |-> k, failed |-> l]
                     ELSE [state |-> st, counter |-> k, age |-> a, ended |-> k, failed |-> l]
  <2>1. b.counter = n /\ b.ended = n /\ b.failed = m /\ b.state = st
    BY <1>2
  <2> DEFINE counted == [b EXCEPT !.counter = k, !.ended = k, !.failed = l]
             opened == [counted EXCEPT !.state = "open", !.age = 0]
  <2>2. OnFailure(b) = IF b.state = "closed" /\ counted.counter >= FailMax
                       THEN opened ELSE counted
    BY <2>1, Zenon DEF OnFailure, k, l
  <2>3. counted = [b EXCEPT !.counter = k, !.ended = k, !.failed = l]
    OBVIOUS
  <2>4. opened = [counted EXCEPT !.state = "open", !.age = 0]
    OBVIOUS
  <2> HIDE DEF counted, opened
  <2>5. counted = [state |-> st, counter |-> k, age |-> a, ended |-> k, failed |-> l]
    BY <1>2, <2>3, CountUpdate, Zenon
  <2>6. opened = [state |-> "open", counter |-> k, age |-> 0, ended |-> k, failed |-> l]
    BY <2>4, <2>5, TripUpdate, Zenon
  <2> QED
    BY <2>1, <2>2, <2>5, <2>6
<1>9. GoodBreaker(OnFailure(b))
  <2>1. k \in 0..FailMax /\ l \in 0..FailMax /\ l > 0 /\ (n = FailMax => k = FailMax)
    BY <1>5 DEF k, l
  <2>2. CASE st = "closed" /\ k >= FailMax
    BY <1>1, <1>8, <2>1, <2>2 DEF GoodBreaker, Breakers
  <2>3. CASE ~(st = "closed" /\ k >= FailMax)
    BY <1>1, <1>3, <1>8, <2>1, <2>3 DEF GoodBreaker, Breakers
  <2> QED
    BY <2>2, <2>3
<1>10. ASSUME Refusing(b) PROVE GoodBreaker([b EXCEPT !.age = @ + 1])
  <2>1. [b EXCEPT !.age = @ + 1] = [state |-> st, counter |-> n, age |-> a + 1, ended |-> n, failed |-> m]
    BY <1>2
  <2>2. a + 1 \in 0..ResetTimeout
    BY <1>1, <1>2, <1>10 DEF Refusing
  <2> QED
    BY <1>3, <2>1, <2>2 DEF GoodBreaker, Breakers
<1> QED
  BY <1>4, <1>7, <1>9, <1>10

(* An attempt that fails, for whatever reason, leaves the invariant true.  *)
LEMMA FailedKeeps ==
  ASSUME IInv, NEW c \in Callers, NEW over \in BOOLEAN, NEW n \in 1..LastAttempt(over),
         NEW s, NEW b, GoodBreaker(b),
         \/ pc[c] \in InCall /\ s = Leave(c)
         \/ pc[c] \in Ready \cup {"sleeping"} /\ s = Slots,
         AttemptFailed(c, n, over, s, b)
  PROVE  IInv'
<1>1. /\ attempt' = [attempt EXCEPT ![c] = n]
      /\ overloaded' = [overloaded EXCEPT ![c] = over]
  BY DEF AttemptFailed
<1>2. PICK where \in {"failed", "sleeping"} :
         /\ Move(c, where, s)
         /\ breaker' = OnFailure(b) \/ breaker' = b
         /\ where = "failed" <=> n >= LastAttempt(over)
  BY DEF AttemptFailed
<1>3. SlotsInv'
  BY <1>2, DepartKeeps DEF IInv, Ready
<1>4. GoodBreaker(breaker')
  BY <1>2, BreakerKeeps
<1>5. LastAttempt(over) \in 1..OverloadAttempts /\ OverloadAttempts \in Nat
  BY AttemptsAssumption DEF LastAttempt
<1>6. /\ attempt' \in [Callers -> 0..OverloadAttempts]
      /\ overloaded' \in [Callers -> BOOLEAN]
  BY <1>1, <1>5 DEF IInv, RetryInv
<1>7. AttemptsExact'
  <2> SUFFICES ASSUME NEW d \in Callers
               PROVE  /\ pc'[d] \in InCall => attempt'[d] \in 1..LastAttempt(overloaded'[d])
                      /\ pc'[d] = "sleeping" => attempt'[d] < LastAttempt(overloaded'[d])
                      /\ pc'[d] = "failed" => attempt'[d] = LastAttempt(overloaded'[d])
    BY DEF AttemptsExact, LastAttempt
  <2>1. pc' = [e \in Callers |-> IF e = c THEN where ELSE IF e \in s.woken THEN "granted" ELSE pc[e]]
    BY <1>2 DEF Move
  <2>2. CASE d = c
    <3>1. pc'[d] = where /\ attempt'[d] = n /\ overloaded'[d] = over
      BY <1>1, <2>1, <2>2 DEF IInv, RetryInv
    <3> QED
      BY <1>2, <1>5, <3>1
  <2>3. CASE d # c
    <3>1. attempt'[d] = attempt[d] /\ overloaded'[d] = overloaded[d]
      BY <1>1, <2>3 DEF IInv, RetryInv
    <3>2. CASE d \in s.woken
      <4>1. pc[d] = "waiting"
        <5>1. GoodSlots(s, Waiting \ {c}, Cardinality(Holders \ {c}))
          BY LeaveGood, OutsideGood DEF IInv
        <5> QED
          BY <3>2, <5>1 DEF GoodSlots, Waiting
      <4> QED
        BY <2>1, <2>3, <3>1, <3>2, <4>1 DEF IInv, RetryInv, AttemptsExact, InCall
    <3>3. CASE d \notin s.woken
      <4>1. pc'[d] = pc[d]
        BY <2>1, <2>3, <3>3
      <4> QED
        BY <3>1, <4>1 DEF IInv, RetryInv, AttemptsExact
    <3> QED
      BY <3>2, <3>3
  <2> QED
    BY <2>2, <2>3
<1> QED
  BY <1>3, <1>4, <1>6, <1>7 DEF IInv, RetryInv

(* An attempt that starts, or is rejected by the bulkhead at once. *)
LEMMA StartKeeps ==
  ASSUME IInv, NEW c \in Callers, NEW over \in BOOLEAN, NEW n \in 1..LastAttempt(over),
         NEW b, GoodBreaker(b), pc[c] \in Ready \cup {"sleeping"},
         StartAttempt(c, n, over, b)
  PROVE  IInv'
<1>1. CASE Rejects(c)
  <2>1. AttemptFailed(c, n, over, Slots, b)
    BY <1>1 DEF StartAttempt
  <2> QED
    BY <2>1, FailedKeeps
<1>2. CASE ~Rejects(c)
  <2>1. /\ attempt' = [attempt EXCEPT ![c] = n]
        /\ overloaded' = [overloaded EXCEPT ![c] = over]
        /\ breaker' = b
        /\ IF Locked
           THEN Move(c, "waiting", [Slots EXCEPT !.queue = Append(@, c)])
           ELSE Move(c, "running", [Slots EXCEPT !.free = @ - 1])
    BY <1>2 DEF StartAttempt
  <2>2. SlotsInv'
    <3>1. CASE Locked
      BY <2>1, <3>1, EnqueueKeeps, Zenon DEF IInv
    <3>2. CASE ~Locked
      BY <2>1, <3>2, TakeKeeps, Zenon DEF IInv
    <3> QED
      BY <3>1, <3>2
  <2>3. GoodBreaker(breaker')
    BY <2>1
  <2>4. LastAttempt(over) \in 1..OverloadAttempts /\ OverloadAttempts \in Nat
    BY AttemptsAssumption DEF LastAttempt
  <2>5. /\ attempt' \in [Callers -> 0..OverloadAttempts]
        /\ overloaded' \in [Callers -> BOOLEAN]
    BY <2>1, <2>4 DEF IInv, RetryInv
  <2>6. \A d \in Callers : IF d = c THEN pc'[d] \in {"waiting", "running"} ELSE pc'[d] = pc[d]
    <3>1. /\ Slots.woken = {}
          /\ [Slots EXCEPT !.queue = Append(@, c)].woken = {}
          /\ [Slots EXCEPT !.free = @ - 1].woken = {}
      BY DEF Slots
    <3>2. CASE Locked
      BY <2>1, <3>1, <3>2 DEF Move
    <3>3. CASE ~Locked
      BY <2>1, <3>1, <3>3 DEF Move
    <3> QED
      BY <3>2, <3>3
  <2>7. AttemptsExact'
    <3> SUFFICES ASSUME NEW d \in Callers
                 PROVE  /\ pc'[d] \in InCall => attempt'[d] \in 1..LastAttempt(overloaded'[d])
                        /\ pc'[d] = "sleeping" => attempt'[d] < LastAttempt(overloaded'[d])
                        /\ pc'[d] = "failed" => attempt'[d] = LastAttempt(overloaded'[d])
      BY DEF AttemptsExact, LastAttempt
    <3>1. CASE d = c
      <4>1. attempt'[d] = n /\ overloaded'[d] = over
        BY <2>1, <3>1 DEF IInv, RetryInv
      <4> QED
        BY <2>6, <3>1, <4>1
    <3>2. CASE d # c
      <4>1. attempt'[d] = attempt[d] /\ overloaded'[d] = overloaded[d] /\ pc'[d] = pc[d]
        BY <2>1, <2>6, <3>2 DEF IInv, RetryInv
      <4> QED
        BY <4>1 DEF IInv, RetryInv, AttemptsExact
    <3> QED
      BY <3>1, <3>2
  <2> QED
    BY <2>2, <2>3, <2>5, <2>7 DEF IInv, RetryInv
<1> QED
  BY <1>1, <1>2

(* A call that ends without a failure. *)
LEMMA EndKeeps ==
  ASSUME IInv, NEW c \in Callers, NEW s,
         \/ pc[c] \in InCall /\ s = Leave(c)
         \/ pc[c] \in Ready \cup {"sleeping"} /\ s = Slots,
         Move(c, "idle", s), Forget(c), GoodBreaker(breaker')
  PROVE  IInv'
<1>1. SlotsInv'
  BY DepartKeeps DEF IInv, Ready
<1>2. /\ attempt' = [attempt EXCEPT ![c] = 0]
      /\ overloaded' = [overloaded EXCEPT ![c] = FALSE]
  BY DEF Forget
<1>3. /\ attempt' \in [Callers -> 0..OverloadAttempts]
      /\ overloaded' \in [Callers -> BOOLEAN]
  BY <1>2, AttemptsAssumption DEF IInv, RetryInv
<1>4. GoodSlots(s, Waiting \ {c}, Cardinality(Holders \ {c}))
  BY LeaveGood, OutsideGood DEF IInv
<1>5. AttemptsExact'
  <2> SUFFICES ASSUME NEW d \in Callers
               PROVE  /\ pc'[d] \in InCall => attempt'[d] \in 1..LastAttempt(overloaded'[d])
                      /\ pc'[d] = "sleeping" => attempt'[d] < LastAttempt(overloaded'[d])
                      /\ pc'[d] = "failed" => attempt'[d] = LastAttempt(overloaded'[d])
    BY DEF AttemptsExact, LastAttempt
  <2>1. pc' = [e \in Callers |-> IF e = c THEN "idle" ELSE IF e \in s.woken THEN "granted" ELSE pc[e]]
    BY DEF Move
  <2>2. CASE d = c
    BY <2>1, <2>2 DEF InCall
  <2>3. CASE d # c
    <3>1. attempt'[d] = attempt[d] /\ overloaded'[d] = overloaded[d]
      BY <1>2, <2>3 DEF IInv, RetryInv
    <3>2. CASE d \in s.woken
      <4>1. pc[d] = "waiting"
        BY <1>4, <3>2 DEF GoodSlots, Waiting
      <4> QED
        BY <2>1, <2>3, <3>1, <3>2, <4>1 DEF IInv, RetryInv, AttemptsExact, InCall
    <3>3. CASE d \notin s.woken
      <4>1. pc'[d] = pc[d]
        BY <2>1, <2>3, <3>3
      <4> QED
        BY <3>1, <4>1 DEF IInv, RetryInv, AttemptsExact
    <3> QED
      BY <3>2, <3>3
  <2> QED
    BY <2>2, <2>3
<1> QED
  BY <1>1, <1>3, <1>5 DEF IInv, RetryInv

(* A woken waiter runs. *)
LEMMA RunKeeps ==
  ASSUME IInv, NEW c \in Callers, Run(c)
  PROVE  IInv'
<1> DEFINE s == WakeAll(Slots)
           H == Cardinality(Holders \ {c})
<1>1. /\ GoodSlots(Slots, Waiting, Cardinality(Holders)) /\ Cardinality(Holders) \in Nat
      /\ Slots.woken = {} /\ IsFiniteSet(Holders)
  BY SlotsGood DEF IInv
<1>2. pc[c] = "granted" /\ c \in Holders /\ Waiting \ {c} = Waiting
  BY DEF Run, Holders, Waiting
<1>3. GoodSlots(s, Waiting \ {c}, Cardinality(Holders)) /\ (s.free > 0 => s.queue = <<>>)
  BY <1>1, <1>2, WakeAllGood
<1>4. Cardinality(Holders) = H + 1
  <2>1. H = Cardinality(Holders) - 1
    BY <1>1, <1>2, FS_RemoveElement
  <2> HIDE DEF H
  <2> QED
    BY <1>1, <2>1
<1>5. Move(c, "running", s) /\ UNCHANGED <<breaker, attempt, overloaded>>
  BY DEF Run
<1> HIDE DEF s, H
<1>6. c \notin s.woken
  BY <1>3 DEF GoodSlots
<1>7. GoodSlots(s, (Waiting \ {c}) \cup (IF "running" = "waiting" THEN {c} ELSE {}),
                   H + (IF "running" = "running" THEN 1 ELSE 0))
  <2>1. (Waiting \ {c}) \cup (IF "running" = "waiting" THEN {c} ELSE {}) = Waiting \ {c}
    OBVIOUS
  <2>2. H + (IF "running" = "running" THEN 1 ELSE 0) = Cardinality(Holders)
    BY <1>4
  <2> QED
    BY <1>3, <2>1, <2>2
<1>8. SlotsInv'
  BY <1>3, <1>5, <1>6, <1>7, MoveKeeps DEF IInv, H
<1>9. AttemptsExact'
  <2> SUFFICES ASSUME NEW d \in Callers
               PROVE  /\ pc'[d] \in InCall => attempt[d] \in 1..LastAttempt(overloaded[d])
                      /\ pc'[d] = "sleeping" => attempt[d] < LastAttempt(overloaded[d])
                      /\ pc'[d] = "failed" => attempt[d] = LastAttempt(overloaded[d])
    BY <1>5 DEF AttemptsExact, LastAttempt
  <2>1. pc'[d] = IF d = c THEN "running" ELSE IF d \in s.woken THEN "granted" ELSE pc[d]
    BY <1>5 DEF Move
  <2>2. d \in s.woken => pc[d] = "waiting"
    BY <1>3 DEF GoodSlots, Waiting
  <2> QED
    BY <1>2, <2>1, <2>2 DEF IInv, RetryInv, AttemptsExact, InCall
<1> QED
  BY <1>5, <1>8, <1>9 DEF IInv, RetryInv

-----------------------------------------------------------------------------
(* The invariant holds at the start and every step keeps it. *)
THEOREM InitInv == Init => IInv
<1> SUFFICES ASSUME Init PROVE IInv
  OBVIOUS
<1> USE DEF Init
<1>1. GoodBreaker(breaker)
  BY BreakerAssumption DEF GoodBreaker, Breakers, NewBreaker
<1>2. RetryInv
  BY AttemptsAssumption DEF RetryInv, AttemptsExact, InCall
<1>3. Cardinality(Holders) = 0
  <2>1. Holders = {}
    BY DEF Holders
  <2> QED
    BY <2>1, FS_EmptySet
<1>4. QueueExact
  BY DEF QueueExact
<1>5. SlotsInv
  BY <1>3, <1>4, LimitAssumption DEF SlotsInv, SlotsConserved, NoLostWakeup, Ready
<1> QED
  BY <1>1, <1>2, <1>5 DEF IInv

LEMMA NextInv == IInv /\ [Next]_vars => IInv'
<1> SUFFICES ASSUME IInv, [Next]_vars PROVE IInv'
  OBVIOUS
<1>1. GoodBreaker(breaker)
  BY DEF IInv
<1>2. \A over \in BOOLEAN : 1 \in 1..LastAttempt(over)
  BY AttemptsAssumption DEF LastAttempt
<1>3. ASSUME NEW c \in Callers, BeginRefused(c) PROVE IInv'
  <2>1. breaker' = breaker /\ pc[c] \in Ready /\ Forget(c) /\ Move(c, "idle", Slots)
    BY <1>3 DEF BeginRefused
  <2>2. GoodBreaker(breaker')
    BY <1>1, <2>1
  <2> QED
    BY <2>1, <2>2, EndKeeps
<1>4. ASSUME NEW c \in Callers, Begin(c) PROVE IInv'
  <2>1. pc[c] \in Ready /\ StartAttempt(c, 1, FALSE, BeforeCall(breaker))
    BY <1>4 DEF Begin
  <2>2. GoodBreaker(BeforeCall(breaker))
    BY <1>1, BreakerKeeps
  <2> QED
    BY <1>2, <2>1, <2>2, StartKeeps
<1>5. ASSUME NEW c \in Callers, Run(c) PROVE IInv'
  BY <1>5, RunKeeps
<1>6. ASSUME NEW c \in Callers, Return(c) PROVE IInv'
  <2>1. /\ pc[c] \in InCall /\ Move(c, "idle", Leave(c)) /\ Forget(c)
        /\ breaker' = OnSuccess(breaker)
    BY <1>6 DEF Return, InCall
  <2>2. GoodBreaker(breaker')
    BY <1>1, <2>1, BreakerKeeps
  <2> QED
    BY <2>1, <2>2, EndKeeps
<1>7. ASSUME NEW c \in Callers, NEW n, NEW over \in BOOLEAN, pc[c] \in InCall,
             n = attempt[c], overloaded[c] => over,
             AttemptFailed(c, n, over, Leave(c), breaker)
      PROVE  IInv'
  <2>1. attempt[c] \in 1..LastAttempt(overloaded[c]) /\ overloaded[c] \in BOOLEAN
    BY <1>7 DEF IInv, RetryInv, AttemptsExact
  <2>2. LastAttempt(overloaded[c]) <= LastAttempt(over)
    BY <1>7, <2>1, AttemptsAssumption DEF LastAttempt
  <2>3. LastAttempt(overloaded[c]) \in Nat /\ LastAttempt(over) \in Nat
    BY <1>7, <2>1, AttemptsAssumption DEF LastAttempt
  <2>4. n \in 1..LastAttempt(over)
    BY <1>7, <2>1, <2>2, <2>3
  <2> QED
    BY <1>1, <1>7, <2>4, FailedKeeps
<1>8. ASSUME NEW c \in Callers, NEW overload \in BOOLEAN, Raise(c, overload) PROVE IInv'
  <2>1. /\ pc[c] \in InCall
        /\ AttemptFailed(c, attempt[c], overloaded[c] \/ overload, Leave(c), breaker)
    BY <1>8 DEF Raise, InCall
  <2> QED
    BY <1>7, <2>1
<1>9. ASSUME NEW c \in Callers, Timeout(c) PROVE IInv'
  <2>1. /\ pc[c] \in InCall
        /\ AttemptFailed(c, attempt[c], overloaded[c], Leave(c), breaker)
    BY <1>9 DEF Timeout, InCall
  <2>2. overloaded[c] \in BOOLEAN
    BY DEF IInv, RetryInv
  <2> QED
    BY <1>7, <2>1, <2>2
<1>10. ASSUME NEW c \in Callers, Retry(c) PROVE IInv'
  <2>1. pc[c] = "sleeping" /\ StartAttempt(c, attempt[c] + 1, overloaded[c], breaker)
    BY <1>10 DEF Retry
  <2>2. /\ attempt[c] \in 1..LastAttempt(overloaded[c])
        /\ attempt[c] < LastAttempt(overloaded[c])
        /\ overloaded[c] \in BOOLEAN
    BY <2>1 DEF IInv, RetryInv, AttemptsExact, InCall
  <2>3. LastAttempt(overloaded[c]) \in Nat
    BY AttemptsAssumption DEF LastAttempt
  <2>4. attempt[c] + 1 \in 1..LastAttempt(overloaded[c])
    BY <2>2, <2>3
  <2> QED
    BY <1>1, <2>1, <2>2, <2>4, StartKeeps
<1>11. ASSUME NEW c \in Callers, Cancel(c) PROVE IInv'
  <2>1. pc[c] \in InCall /\ Move(c, "idle", Leave(c)) /\ Forget(c) /\ breaker' = breaker
    BY <1>11 DEF Cancel
  <2>2. GoodBreaker(breaker')
    BY <1>1, <2>1
  <2> QED
    BY <2>1, <2>2, EndKeeps
<1>12. ASSUME GoodBreaker(breaker'), UNCHANGED <<free, queue, pc, attempt, overloaded>> PROVE IInv'
  <2>1. SlotsInv' /\ RetryInv'
    BY <1>12 DEF IInv, SlotsInv, QueueExact, SlotsConserved, Holders, NoLostWakeup,
                 RetryInv, AttemptsExact, LastAttempt
  <2> QED
    BY <1>12, <2>1 DEF IInv
<1>13. CASE Reset
  <2>1. breaker' = Close(breaker) /\ UNCHANGED <<free, queue, pc, attempt, overloaded>>
    BY <1>13 DEF Reset
  <2>2. GoodBreaker(breaker')
    BY <1>1, <2>1, BreakerKeeps
  <2> QED
    BY <1>12, <2>1, <2>2
<1>14. CASE Tick
  <2>1. /\ Refusing(breaker) /\ breaker' = [breaker EXCEPT !.age = @ + 1]
        /\ UNCHANGED <<free, queue, pc, attempt, overloaded>>
    BY <1>14 DEF Tick
  <2>2. GoodBreaker(breaker')
    BY <1>1, <2>1, BreakerKeeps
  <2> QED
    BY <1>12, <2>1, <2>2
<1>15. CASE UNCHANGED vars
  <2>1. breaker' = breaker /\ UNCHANGED <<free, queue, pc, attempt, overloaded>>
    BY <1>15 DEF vars
  <2> QED
    BY <1>1, <1>12, <2>1
<1> QED
  BY <1>3, <1>4, <1>5, <1>6, <1>8, <1>9, <1>10, <1>11, <1>13, <1>14, <1>15 DEF Next

(* The inductive invariant of ResilientCall: the slots and the queue agree *)
(* with the places of the callers, attempts stay in their configuration,   *)
(* and the breaker's counter is the number of recorded calls.              *)
THEOREM Invariance == Spec => []IInv
<1>1. Init => IInv
  BY InitInv
<1>2. IInv /\ [Next]_vars => IInv'
  BY NextInv
<1> QED
  BY <1>1, <1>2, PTL DEF Spec

(* Type correctness. *)
THEOREM TypeCorrect == Spec => []TypeOK
<1>1. IInv => TypeOK
  BY DEF IInv, SlotsInv, RetryInv, GoodBreaker, TypeOK
<1> QED
  BY <1>1, Invariance, PTL

(* No slot of the bulkhead is lost or used twice, and its queue is the     *)
(* callers that wait.                                                      *)
THEOREM SlotsCorrect == Spec => [](SlotsConserved /\ QueueExact)
<1>1. IInv => SlotsConserved /\ QueueExact
  BY DEF IInv, SlotsInv
<1> QED
  BY <1>1, Invariance, PTL

(* No wake-up is lost. *)
THEOREM WakeupsCorrect == Spec => []NoLostWakeup
<1>1. IInv => NoLostWakeup
  BY DEF IInv, SlotsInv
<1> QED
  BY <1>1, Invariance, PTL

(* Attempts are those of the configuration the call ends with. *)
THEOREM AttemptsCorrect == Spec => []AttemptsExact
<1>1. IInv => AttemptsExact
  BY DEF IInv, RetryInv
<1> QED
  BY <1>1, Invariance, PTL

(* The breaker opens on a failure, after fail_max recorded calls. *)
THEOREM TripCorrect == Spec => []NoEarlyTrip
<1>1. IInv => NoEarlyTrip
  BY DEF IInv, GoodBreaker, NoEarlyTrip
<1> QED
  BY <1>1, Invariance, PTL

(* What is recorded of a call leaves an open breaker open and its clock    *)
(* alone.                                                                  *)
LEMMA RecordingHolds ==
  ASSUME GoodBreaker(breaker), breaker.state = "open"
  PROVE  /\ OnSuccess(breaker).state = "open" /\ OnSuccess(breaker).age = breaker.age
         /\ OnFailure(breaker).state = "open" /\ OnFailure(breaker).age = breaker.age
<1>1. DOMAIN breaker = {"state", "counter", "age", "ended", "failed"}
  BY DEF GoodBreaker, Breakers
<1>2. OnSuccess(breaker).state = "open" /\ OnSuccess(breaker).age = breaker.age
  BY <1>1 DEF OnSuccess
<1>3. OnFailure(breaker) = [breaker EXCEPT !.counter = Bump(@), !.ended = Bump(@), !.failed = Bump(@)]
  BY DEF OnFailure
<1>4. OnFailure(breaker).state = "open" /\ OnFailure(breaker).age = breaker.age
  BY <1>1, <1>3
<1> QED
  BY <1>2, <1>4

(* While the breaker refuses calls no caller without a call gets one, and  *)
(* only a reset closes it.                                                 *)
THEOREM OpenHoldsCorrect == Spec => OpenHolds
<1> DEFINE P == Refusing(breaker) /\ ~Reset =>
                  /\ breaker'.state = "open"
                  /\ breaker'.age >= breaker.age
                  /\ \A c \in Callers : pc[c] \in Ready => pc'[c] \in Ready
<1>1. IInv /\ [Next]_vars => [P]_vars
  <2> SUFFICES ASSUME IInv, Next, Refusing(breaker), ~Reset
               PROVE  /\ breaker'.state = "open"
                      /\ breaker'.age >= breaker.age
                      /\ \A d \in Callers : pc[d] \in Ready => pc'[d] \in Ready
    BY Zenon
  <2>1. /\ breaker.state = "open" /\ breaker.age \in Nat /\ GoodBreaker(breaker)
        /\ breaker \in Breakers /\ ResetTimeout \in Nat
    BY BreakerAssumption DEF IInv, GoodBreaker, Breakers, Refusing
  <2>2. ASSUME \/ breaker' = breaker
               \/ breaker' = OnSuccess(breaker)
               \/ breaker' = OnFailure(breaker)
        PROVE  breaker'.state = "open" /\ breaker'.age >= breaker.age
    BY <2>1, <2>2, RecordingHolds
  <2>3. ASSUME NEW c \in Callers, NEW where, NEW s, Move(c, where, s),
               \/ pc[c] \in InCall /\ s = Leave(c)
               \/ pc[c] \in Ready \cup {"sleeping"} /\ s = Slots,
               pc[c] \in Ready => where \in Ready
        PROVE  \A d \in Callers : pc[d] \in Ready => pc'[d] \in Ready
    <3> SUFFICES ASSUME NEW d \in Callers, pc[d] \in Ready PROVE pc'[d] \in Ready
      OBVIOUS
    <3>1. GoodSlots(s, Waiting \ {c}, Cardinality(Holders \ {c}))
      BY <2>3, LeaveGood, OutsideGood DEF IInv
    <3>2. d \notin s.woken
      BY <3>1 DEF GoodSlots, Waiting, Ready
    <3> QED
      BY <2>3, <3>2 DEF Move
  <2>4. ASSUME NEW c \in Callers, NEW where \in {"waiting", "running"}, NEW s, s.woken = {},
               Move(c, where, s), pc[c] \notin Ready
        PROVE  \A d \in Callers : pc[d] \in Ready => pc'[d] \in Ready
    BY <2>4 DEF Move
  <2>5. ASSUME NEW c \in Callers, NEW n, NEW over, NEW s, AttemptFailed(c, n, over, s, breaker),
               \/ pc[c] \in InCall /\ s = Leave(c)
               \/ pc[c] = "sleeping" /\ s = Slots
        PROVE  /\ breaker' = breaker \/ breaker' = OnFailure(breaker)
               /\ \A d \in Callers : pc[d] \in Ready => pc'[d] \in Ready
    <3>1. PICK where \in {"failed", "sleeping"} :
             Move(c, where, s) /\ (breaker' = breaker \/ breaker' = OnFailure(breaker))
      BY <2>5 DEF AttemptFailed
    <3>2. pc[c] \notin Ready
      BY <2>5 DEF InCall, Ready
    <3> QED
      BY <2>3, <2>5, <3>1, <3>2
  <2>6. ASSUME NEW c \in Callers, BeginRefused(c)
        PROVE  breaker' = breaker /\ \A d \in Callers : pc[d] \in Ready => pc'[d] \in Ready
    <3>1. Move(c, "idle", Slots) /\ pc[c] \in Ready /\ breaker' = breaker
      BY <2>6 DEF BeginRefused
    <3> QED
      BY <2>3, <3>1 DEF Ready
  <2>7. ASSUME NEW c \in Callers PROVE ~Begin(c)
    BY DEF Begin
  <2>8. ASSUME NEW c \in Callers, Run(c)
        PROVE  breaker' = breaker /\ \A d \in Callers : pc[d] \in Ready => pc'[d] \in Ready
    <3>1. /\ GoodSlots(Slots, Waiting, Cardinality(Holders)) /\ Cardinality(Holders) \in Nat
          /\ Slots.woken = {}
      BY SlotsGood DEF IInv
    <3>2. GoodSlots(WakeAll(Slots), Waiting, Cardinality(Holders))
      BY <3>1, WakeAllGood
    <3>3. \A d \in Callers : pc[d] \in Ready => d \notin WakeAll(Slots).woken /\ d # c
      BY <2>8, <3>2 DEF GoodSlots, Waiting, Ready, Run
    <3> QED
      BY <2>8, <3>3 DEF Run, Move
  <2>9. ASSUME NEW c \in Callers, Return(c)
        PROVE  breaker' = OnSuccess(breaker) /\ \A d \in Callers : pc[d] \in Ready => pc'[d] \in Ready
    <3>1. Move(c, "idle", Leave(c)) /\ pc[c] \in InCall /\ breaker' = OnSuccess(breaker)
      BY <2>9 DEF Return, InCall
    <3> QED
      BY <2>3, <3>1 DEF Ready
  <2>10. ASSUME NEW c \in Callers, NEW overload \in BOOLEAN, Raise(c, overload)
         PROVE  /\ breaker' = breaker \/ breaker' = OnFailure(breaker)
                /\ \A d \in Callers : pc[d] \in Ready => pc'[d] \in Ready
    <3>1. /\ pc[c] \in InCall
          /\ AttemptFailed(c, attempt[c], overloaded[c] \/ overload, Leave(c), breaker)
      BY <2>10 DEF Raise, InCall
    <3> QED
      BY <2>5, <3>1
  <2>11. ASSUME NEW c \in Callers, Timeout(c)
         PROVE  /\ breaker' = breaker \/ breaker' = OnFailure(breaker)
                /\ \A d \in Callers : pc[d] \in Ready => pc'[d] \in Ready
    <3>1. /\ pc[c] \in InCall
          /\ AttemptFailed(c, attempt[c], overloaded[c], Leave(c), breaker)
      BY <2>11 DEF Timeout, InCall
    <3> QED
      BY <2>5, <3>1
  <2>12. ASSUME NEW c \in Callers, Retry(c)
         PROVE  /\ breaker' = breaker \/ breaker' = OnFailure(breaker)
                /\ \A d \in Callers : pc[d] \in Ready => pc'[d] \in Ready
    <3> DEFINE joined == [Slots EXCEPT !.queue = Append(@, c)]
               taken == [Slots EXCEPT !.free = @ - 1]
    <3>1. pc[c] = "sleeping" /\ StartAttempt(c, attempt[c] + 1, overloaded[c], breaker)
      BY <2>12 DEF Retry
    <3>2. joined.woken = {} /\ taken.woken = {}
      BY DEF Slots
    <3>3. CASE Rejects(c)
      BY <2>5, <3>1, <3>3 DEF StartAttempt
    <3>4. CASE ~Rejects(c)
      <4>1. breaker' = breaker /\ (Move(c, "waiting", joined) \/ Move(c, "running", taken))
        BY <3>1, <3>4 DEF StartAttempt
      <4>2. pc[c] \notin Ready
        BY <3>1 DEF Ready
      <4> HIDE DEF joined, taken
      <4> QED
        BY <2>4, <3>2, <4>1, <4>2
    <3> QED
      BY <3>3, <3>4
  <2>13. ASSUME NEW c \in Callers, Cancel(c)
         PROVE  breaker' = breaker /\ \A d \in Callers : pc[d] \in Ready => pc'[d] \in Ready
    <3>1. Move(c, "idle", Leave(c)) /\ pc[c] \in InCall /\ breaker' = breaker
      BY <2>13 DEF Cancel
    <3> QED
      BY <2>3, <3>1 DEF Ready
  <2>14. CASE Tick
    <3>1. breaker' = [breaker EXCEPT !.age = @ + 1] /\ pc' = pc
      BY <2>14 DEF Tick
    <3>2. breaker'.state = "open" /\ breaker'.age = breaker.age + 1
      BY <2>1, <3>1 DEF Breakers
    <3> QED
      BY <2>1, <3>1, <3>2
  <2> QED
    BY <2>2, <2>6, <2>7, <2>8, <2>9, <2>10, <2>11, <2>12, <2>13, <2>14 DEF Next
<1> QED
  BY <1>1, Invariance, PTL DEF Spec, OpenHolds

=============================================================================
