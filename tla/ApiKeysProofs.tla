--------------------------- MODULE ApiKeysProofs ---------------------------
(***************************************************************************)
(* Theorems about ApiKeys, for every number of requests at a time, every   *)
(* quota and every three durations.                                        *)
(***************************************************************************)
EXTENDS ApiKeys, FiniteSetTheorems, TLAPS

-----------------------------------------------------------------------------
(* Tables of keys *)

(* A secret belongs to one key. *)
OneKeyEach(a) == \A k, l \in KeyIds(a) : a[k].secret = a[l].secret => k = l

(* A table that may be put: typed, with secrets that have been generated.  *)
Sound(a) ==
    /\ a \in Attributes
    /\ \A k \in KeyIds(a) : k \in issued /\ a[k].secret \in issued
    /\ OneKeyEach(a)

Fits(a) == IsFiniteSet(KeyIds(a)) /\ Cardinality(KeyIds(a)) <= MaxKeys

(* A key with a new secret leaves the other keys and their secrets alone.  *)
LEMMA WithSecret ==
    ASSUME Sound(attrs), NEW k \in Secrets, NEW s \in Secrets, s \notin issued,
           NEW v \in Keys, v.secret = s, k = s \/ k \in issued, issued' = issued \cup {s},
           NEW c, c = [attrs EXCEPT ![k] = v]
    PROVE  /\ KeyIds(c) = KeyIds(attrs) \cup {k}
           /\ Sound(c)'
           /\ \A i \in Secrets : c[i] # attrs[i] => i = k
  <1>1. v \in Keys /\ v # None
    BY NoneAssumption
  <1>2. c \in Attributes
    BY <1>1 DEF Attributes, Sound
  <1>3. /\ c[k] = v
        /\ \A i \in Secrets : i # k => c[i] = attrs[i]
    BY DEF Attributes, Sound
  <1>4. KeyIds(c) = KeyIds(attrs) \cup {k}
    BY <1>1, <1>3 DEF KeyIds
  <1>5. \A i \in KeyIds(c) : i \in issued' /\ c[i].secret \in issued'
    BY <1>3, <1>4 DEF Sound
  <1>6. OneKeyEach(c)
    <2>1. ASSUME NEW i \in KeyIds(c), i # k
          PROVE  c[i].secret # s /\ c[i] = attrs[i] /\ i \in KeyIds(attrs)
      BY <2>1, <1>3, <1>4 DEF Sound, KeyIds
    <2>2. c[k].secret = s
      BY <1>3
    <2>3. QED
      BY <2>1, <2>2 DEF OneKeyEach, Sound
  <1>7. Sound(c)'
    BY <1>2, <1>5, <1>6 DEF Sound, OneKeyEach, KeyIds
  <1>8. QED
    BY <1>3, <1>4, <1>7

(* So does taking a key out. *)
LEMMA WithoutKey ==
    ASSUME Sound(attrs), NEW k \in Secrets, NEW c, c = [attrs EXCEPT ![k] = None]
    PROVE  /\ KeyIds(c) = KeyIds(attrs) \ {k}
           /\ Sound(c)
           /\ \A i \in Secrets : c[i] # attrs[i] => i = k
  <1>1. c \in Attributes /\ c[k] = None /\ \A i \in Secrets : i # k => c[i] = attrs[i]
    BY DEF Attributes, Sound
  <1>2. KeyIds(c) = KeyIds(attrs) \ {k}
    BY <1>1 DEF KeyIds
  <1>3. \A i \in KeyIds(c) : i \in KeyIds(attrs) /\ c[i] = attrs[i]
    BY <1>1, <1>2 DEF KeyIds
  <1>4. QED
    BY <1>1, <1>2, <1>3 DEF Sound, OneKeyEach

-----------------------------------------------------------------------------
(* The inductive invariant *)

(* Its type, and what its copy may hold. *)
RequestOK(q) ==
    /\ q \in Running
    /\ Sound(q.copy) /\ Fits(q.copy)
    /\ q.key \in issued /\ q.secret \in issued
    /\ q.op = "validate" /\ q.at # "drop" => Holds(q.copy, q.key, q.secret, q.since)
    /\ q.at = "fill" => q.op = "validate"

(* A copy that no put has overtaken is the attributes, but for its key.    *)
Fresh(q) ==
    (q.at = "put" \/ (q.at = "drop" /\ q.op = "revoke")) /\ ~q.stale =>
        \A k \in Secrets : q.copy[k] # attrs[k] => q.op # "validate" /\ k = q.key

(* What a validation has found was valid when it began. *)
Timely(q) ==
    /\ q.since <= now /\ now <= q.since + Latency
    /\ q.op = "validate" /\ q.at # "drop" => valid[q.secret] >= q.since

StateOK ==
    /\ Sound(attrs) /\ Fits(attrs)
    /\ cache \in [Secrets -> Entries \cup {None}]
    /\ \A s \in Secrets : cache[s] # None => s \in issued
    /\ req \in [Requests -> Running \cup {None}]
    /\ issued \subseteq Secrets
    /\ now \in Nat
    /\ valid \in [Secrets -> Nat \cup {-1}]

ClockOK ==
    /\ \A s \in Secrets : valid[s] <= now
    /\ \A k, s \in Secrets : Holds(attrs, k, s, now) => valid[s] = now

Each(q) == RequestOK(q) /\ Fresh(q) /\ Timely(q)

IInv ==
    /\ StateOK
    /\ ClockOK
    /\ \A r \in Requests : \A q \in {req[r]} \ {None} : Each(q)
    /\ StaleBounded

-----------------------------------------------------------------------------
(* What keeps it *)

LEMMA Initially == Init => IInv
  <1> SUFFICES ASSUME Init PROVE IInv
    OBVIOUS
  <1>1. attrs \in Attributes /\ KeyIds(attrs) = {}
    BY DEF Init, Nothing, Attributes, KeyIds
  <1>2. Sound(attrs) /\ Fits(attrs)
    <2>1. IsFiniteSet({}) /\ Cardinality({}) = 0
      BY FS_EmptySet
    <2>2. QED
      BY <1>1, <2>1, QuotaAssumption DEF Sound, OneKeyEach, Fits
  <1>3. StateOK
    BY <1>2 DEF Init, Nothing, StateOK
  <1>4. ClockOK
    BY DEF Init, Nothing, ClockOK, Holds
  <1>5. QED
    BY <1>3, <1>4 DEF Init, Nothing, IInv, StaleBounded

(* Generating more secrets takes nothing from a request. *)
LEMMA Grows ==
    ASSUME NEW q, RequestOK(q), issued \subseteq issued'
    PROVE  RequestOK(q)'
  BY DEF RequestOK, Sound, OneKeyEach, KeyIds, Fits, Holds, Attributes

(* A request that begins with a table it may put. *)
LEMMA StartOK ==
    ASSUME IInv, NEW r \in Requests, NEW at \in {"drop", "put"},
           NEW op \in {"create", "rotate", "revoke", "validate"},
           NEW k, NEW s, NEW copy, Start(r, at, op, k, s, copy),
           issued \subseteq issued', issued' \subseteq Secrets,
           k \in issued', s \in issued', Sound(copy)', Fits(copy),
           (op = "validate" /\ at = "put") => copy = attrs /\ Holds(attrs, k, s, now),
           (at = "put" \/ op = "revoke") =>
               \A i \in Secrets : copy[i] # attrs[i] => op # "validate" /\ i = k
    PROVE  IInv'
  <1> DEFINE new == [at |-> at, op |-> op, key |-> k, secret |-> s,
                     copy |-> copy, since |-> now, stale |-> FALSE]
  <1>1. /\ req' = [req EXCEPT ![r] = new]
        /\ UNCHANGED <<attrs, cache, now, valid>>
    BY DEF Start
  <1>2. StateOK /\ ClockOK /\ StaleBounded
    BY DEF IInv
  <1>3. new \in Running /\ new # None
    <2>1. copy \in Attributes
      BY DEF Sound, Attributes
    <2>2. QED
      <3>1. new \in Running
        <4>1. k \in Secrets /\ s \in Secrets /\ now \in Nat
          BY <1>2 DEF StateOK
        <4>2. QED
          BY <2>1, <4>1 DEF Running
      <3> HIDE DEF new
      <3>2. QED
        BY <3>1, NoneAssumption
  <1>4. Sound(attrs)'
    BY <1>1, <1>2 DEF StateOK, Sound, OneKeyEach, KeyIds, Attributes
  <1>5. StateOK'
    <2>1. req' \in [Requests -> Running \cup {None}]
      BY <1>1, <1>2, <1>3 DEF StateOK
    <2>2. Fits(attrs)'
      BY <1>1, <1>2 DEF StateOK, Fits, KeyIds
    <2>3. QED
      BY <1>1, <1>2, <1>4, <2>1, <2>2 DEF StateOK
  <1>6. ClockOK' /\ StaleBounded'
    BY <1>1, <1>2 DEF ClockOK, Holds, StaleBounded
  <1>7. ASSUME NEW q, q = new PROVE Each(q)'
    <2>1. /\ q.at = at /\ q.op = op /\ q.key = k /\ q.secret = s
          /\ q.copy = copy /\ q.since = now /\ q.stale = FALSE /\ q \in Running
      BY <1>3, <1>7
    <2> HIDE DEF new
    <2>2. Fits(copy)'
      BY DEF Fits, KeyIds
    <2>3. q.op = "validate" /\ q.at # "drop" =>
              Holds(copy, k, s, now) /\ copy = attrs /\ valid[s] = now
      <3>1. op = "validate" /\ at = "put" => k \in Secrets /\ s \in Secrets
        BY <1>2 DEF StateOK
      <3>2. QED
        BY <2>1, <1>2, <3>1 DEF ClockOK
    <2>4. RequestOK(q)'
      BY <2>1, <2>2, <2>3 DEF RequestOK, Holds
    <2>5. Fresh(q)'
      BY <1>1, <2>1 DEF Fresh
    <2>6. Timely(q)'
      BY <1>1, <1>2, <2>1, <2>3, TimeAssumption DEF Timely, StateOK
    <2>7. QED
      BY <2>4, <2>5, <2>6 DEF Each
  <1> HIDE DEF new
  <1>8. ASSUME NEW i \in Requests, NEW q \in {req'[i]} \ {None} PROVE Each(q)'
    <2>1. CASE i = r
      BY <1>1, <1>2, <2>1, <1>7 DEF StateOK
    <2>2. CASE i # r
      <3>1. q = req[i] /\ q # None
        BY <1>1, <1>2, <2>2, <1>8 DEF StateOK
      <3>2. Each(q)
        BY <3>1 DEF IInv
      <3>3. RequestOK(q)'
        BY <3>2, Grows DEF Each
      <3>4. QED
        BY <1>1, <3>2, <3>3 DEF Each, Fresh, Timely
    <2>3. QED
      BY <2>1, <2>2
  <1>9. QED
    BY <1>5, <1>6, <1>8 DEF IInv

LEMMA CreateStep == ASSUME IInv, NEW r \in Requests, Create(r) PROVE IInv'
  <1>1. PICK s \in Secrets, d \in Lifetimes :
           /\ BelowQuota /\ Generate(s)
           /\ Start(r, "put", "create", s, s, [attrs EXCEPT ![s] = [secret |-> s, exp |-> now + d]])
    BY DEF Create
  <1>c. PICK c : c = [attrs EXCEPT ![s] = [secret |-> s, exp |-> now + d]]
    OBVIOUS
  <1>2. StateOK
    BY DEF IInv
  <1>3. [secret |-> s, exp |-> now + d] \in Keys
    BY <1>2, TimeAssumption DEF StateOK, Keys
  <1>v. PICK v \in Keys : v = [secret |-> s, exp |-> now + d]
    BY <1>3
  <1>4. s \notin issued /\ issued' = issued \cup {s}
    BY <1>1 DEF Generate
  <1>5. KeyIds(c) = KeyIds(attrs) \cup {s} /\ Sound(c)' /\ \A i \in Secrets : c[i] # attrs[i] => i = s
    <2>1. c = [attrs EXCEPT ![s] = v] /\ v.secret = s /\ Sound(attrs)
      BY <1>2, <1>c, <1>v DEF StateOK
    <2>2. QED
      BY <1>4, <2>1, WithSecret
  <1>6. Fits(c)
    <2>1. IsFiniteSet(KeyIds(attrs)) /\ Cardinality(KeyIds(attrs)) < MaxKeys
      BY <1>1, <1>2 DEF StateOK, Fits, BelowQuota
    <2>2. /\ IsFiniteSet(KeyIds(attrs) \cup {s})
          /\ Cardinality(KeyIds(attrs) \cup {s}) =
                IF s \in KeyIds(attrs) THEN Cardinality(KeyIds(attrs)) ELSE Cardinality(KeyIds(attrs)) + 1
      BY <2>1, FS_AddElement
    <2>3. Cardinality(KeyIds(attrs)) \in Nat
      BY <2>1, FS_CardinalityType
    <2>4. QED
      BY <2>1, <2>2, <2>3, <1>5, QuotaAssumption DEF Fits
  <1>7. issued \subseteq issued' /\ issued' \subseteq Secrets /\ s \in issued'
    BY <1>2, <1>4 DEF StateOK
  <1>8. Start(r, "put", "create", s, s, c)
    BY <1>1, <1>c
  <1>9. QED
    BY <1>5, <1>6, <1>7, <1>8, StartOK

LEMMA RotateStep == ASSUME IInv, NEW r \in Requests, Rotate(r) PROVE IInv'
  <1>1. PICK k \in KeyIds(attrs), s \in Secrets, g \in Graces :
           /\ Generate(s)
           /\ Start(r, "put", "rotate", k, s,
                    Rotated(attrs, k, s, IF g > 0 THEN now + g ELSE attrs[k].exp))
    BY DEF Rotate
  <1> DEFINE exp == IF g > 0 THEN now + g ELSE attrs[k].exp
  <1>c. PICK c : c = [attrs EXCEPT ![k] = [secret |-> s, exp |-> exp]]
    OBVIOUS
  <1>2. StateOK
    BY DEF IInv
  <1>3. k \in Secrets /\ k \in issued /\ attrs[k] \in Keys
    BY <1>2 DEF StateOK, Sound, Attributes, KeyIds
  <1>4. exp \in Nat
    BY <1>2, <1>3, TimeAssumption DEF StateOK, Keys
  <1>5. s \notin issued /\ issued' = issued \cup {s}
    BY <1>1 DEF Generate
  <1>6. Start(r, "put", "rotate", k, s, c)
    BY <1>1, <1>c DEF Rotated
  <1> HIDE DEF exp
  <1>v. PICK v \in Keys : v = [secret |-> s, exp |-> exp]
    BY <1>4 DEF Keys
  <1>7. KeyIds(c) = KeyIds(attrs) \cup {k} /\ Sound(c)' /\ \A i \in Secrets : c[i] # attrs[i] => i = k
    <2>1. c = [attrs EXCEPT ![k] = v] /\ v.secret = s /\ Sound(attrs)
      BY <1>2, <1>c, <1>v DEF StateOK
    <2>2. QED
      BY <1>3, <1>5, <2>1, WithSecret
  <1>8. Fits(c)
    <2>1. KeyIds(c) = KeyIds(attrs)
      BY <1>1, <1>7
    <2>2. QED
      BY <1>2, <2>1 DEF StateOK, Fits
  <1>9. issued \subseteq issued' /\ issued' \subseteq Secrets /\ s \in issued' /\ k \in issued'
    BY <1>2, <1>3, <1>5 DEF StateOK
  <1>10. QED
    BY <1>6, <1>7, <1>8, <1>9, StartOK

LEMMA RevokeStep == ASSUME IInv, NEW r \in Requests, Revoke(r) PROVE IInv'
  <1>1. PICK k \in issued :
           /\ Start(r, IF attrs[k] # None THEN "drop" ELSE "put", "revoke", k, k,
                    [attrs EXCEPT ![k] = None])
           /\ UNCHANGED issued
    BY DEF Revoke
  <1> DEFINE at == IF attrs[k] # None THEN "drop" ELSE "put"
  <1>c. PICK c : c = [attrs EXCEPT ![k] = None]
    OBVIOUS
  <1>2. StateOK /\ k \in Secrets
    BY DEF IInv, StateOK
  <1>3. at \in {"drop", "put"} /\ Start(r, at, "revoke", k, k, c)
    BY <1>1, <1>c
  <1> HIDE DEF at
  <1>4. KeyIds(c) = KeyIds(attrs) \ {k} /\ Sound(c) /\ \A i \in Secrets : c[i] # attrs[i] => i = k
    BY <1>2, <1>c, WithoutKey DEF StateOK
  <1>5. Sound(c)'
    BY <1>1, <1>4 DEF Sound, OneKeyEach, KeyIds, Attributes
  <1>6. Fits(c)
    <2>1. IsFiniteSet(KeyIds(attrs)) /\ Cardinality(KeyIds(attrs)) <= MaxKeys
      BY <1>2 DEF StateOK, Fits
    <2>2. /\ IsFiniteSet(KeyIds(attrs) \ {k})
          /\ Cardinality(KeyIds(attrs) \ {k}) =
                IF k \in KeyIds(attrs) THEN Cardinality(KeyIds(attrs)) - 1 ELSE Cardinality(KeyIds(attrs))
      BY <2>1, FS_RemoveElement
    <2>3. Cardinality(KeyIds(attrs)) \in Nat
      BY <2>1, FS_CardinalityType
    <2>4. QED
      BY <2>1, <2>2, <2>3, <1>4, QuotaAssumption DEF Fits
  <1>7. issued \subseteq issued' /\ issued' \subseteq Secrets /\ k \in issued'
    BY <1>1, <1>2 DEF StateOK
  <1>8. QED
    BY <1>3, <1>4, <1>5, <1>6, <1>7, StartOK

LEMMA SearchStep == ASSUME IInv, NEW r \in Requests, Search(r) PROVE IInv'
  <1>1. PICK k \in Secrets, s \in issued :
           /\ Holds(attrs, k, s, now)
           /\ Start(r, "put", "validate", k, s, attrs)
           /\ UNCHANGED issued
    BY DEF Search
  <1>2. StateOK
    BY DEF IInv
  <1>3. k \in issued /\ s \in Secrets
    BY <1>1, <1>2 DEF Holds, StateOK, Sound, KeyIds
  <1>4. Start(r, "put", "validate", k, s, attrs) => UNCHANGED attrs
    BY DEF Start
  <1>5. ASSUME NEW c, c = attrs PROVE Sound(c)' /\ Fits(c)
    BY <1>1, <1>2, <1>5 DEF StateOK, Sound, OneKeyEach, KeyIds, Attributes, Fits
  <1>6. ASSUME NEW c, c = attrs PROVE IInv'
    <2>1. Start(r, "put", "validate", k, s, c)
      BY <1>1, <1>6
    <2>2. issued \subseteq issued' /\ issued' \subseteq Secrets /\ k \in issued' /\ s \in issued'
      BY <1>1, <1>2, <1>3 DEF StateOK
    <2>3. \A i \in Secrets : c[i] = attrs[i]
      BY <1>6
    <2>4. QED
      BY <1>1, <1>5, <1>6, <2>1, <2>2, <2>3, StartOK
  <1>7. QED
    BY <1>6

LEMMA ExpiredHitStep == ASSUME IInv, NEW r \in Requests, ExpiredHit(r) PROVE IInv'
  <1>1. PICK s \in issued : Start(r, "drop", "validate", s, s, Nothing) /\ UNCHANGED issued
    BY DEF ExpiredHit
  <1>2. StateOK
    BY DEF IInv
  <1>3. Nothing \in Attributes /\ KeyIds(Nothing) = {}
    BY DEF Nothing, Attributes, KeyIds
  <1>4. Sound(Nothing)' /\ Fits(Nothing)
    <2>1. IsFiniteSet({}) /\ Cardinality({}) = 0
      BY FS_EmptySet
    <2>2. QED
      BY <1>3, <2>1, QuotaAssumption DEF Sound, OneKeyEach, Fits
  <1>5. issued \subseteq issued' /\ issued' \subseteq Secrets /\ s \in issued'
    BY <1>1, <1>2 DEF StateOK
  <1>6. QED
    BY <1>1, <1>4, <1>5, StartOK

(* A step that writes to the cache and to its own request only. *)
LEMMA LocalOK ==
    ASSUME IInv, UNCHANGED <<attrs, issued, now, valid>>,
           cache' \in [Secrets -> Entries \cup {None}],
           \A s \in Secrets : cache'[s] # None =>
               /\ s \in issued /\ valid[s] >= 0
               /\ cache'[s].until <= valid[s] + Latency + CacheTTL,
           req' \in [Requests -> Running \cup {None}],
           \A q \in Requests : \A x \in {req'[q]} \ {None} : Each(x)
    PROVE  IInv'
  <1>1. StateOK /\ ClockOK
    BY DEF IInv
  <1>2. StateOK'
    BY <1>1 DEF StateOK, Sound, OneKeyEach, KeyIds, Fits, Attributes
  <1>3. ClockOK' /\ StaleBounded'
    BY <1>1 DEF ClockOK, Holds, StaleBounded
  <1>4. ASSUME NEW q \in Requests, NEW x \in {req'[q]} \ {None} PROVE Each(x)'
    <2>1. Each(x)
      BY <1>4
    <2>2. RequestOK(x)'
      BY <2>1, Grows DEF Each
    <2>3. QED
      BY <2>1, <2>2 DEF Each, Fresh, Timely
  <1>5. QED
    BY <1>2, <1>3, <1>4 DEF IInv

LEMMA EndEach ==
    ASSUME IInv, NEW r \in Requests, End(r)
    PROVE  /\ req' \in [Requests -> Running \cup {None}]
           /\ \A q \in Requests : \A x \in {req'[q]} \ {None} : Each(x)
  BY DEF IInv, StateOK, End

LEMMA DropStep == ASSUME IInv, NEW r \in Requests, Drop(r) PROVE IInv'
  <1>1. StateOK /\ StaleBounded /\ req[r] # None /\ req[r].at = "drop"
        /\ UNCHANGED <<attrs, issued, now, valid>>
    BY DEF Drop, IInv
  <1>2. /\ cache' \in [Secrets -> Entries \cup {None}]
        /\ \A s \in Secrets : cache'[s] # None => cache'[s] = cache[s]
    BY <1>1 DEF Drop, StateOK
  <1>3. \A s \in Secrets : cache'[s] # None =>
            /\ s \in issued /\ valid[s] >= 0
            /\ cache'[s].until <= valid[s] + Latency + CacheTTL
    BY <1>1, <1>2 DEF StateOK, StaleBounded
  <1>4. CASE req[r].op = "revoke"
    <2>1. req' = [req EXCEPT ![r].at = "put"]
      BY <1>4 DEF Drop
    <2> DEFINE x == [req[r] EXCEPT !.at = "put"]
    <2>2. req[r] \in Running /\ Each(req[r])
      BY <1>1 DEF IInv, StateOK
    <2>3. x \in Running /\ x.at = "put" /\ x.op = "revoke" /\ x.copy = req[r].copy
          /\ x.key = req[r].key /\ x.secret = req[r].secret /\ x.since = req[r].since
          /\ x.stale = req[r].stale
      BY <1>4, <2>2 DEF Running
    <2>4. req' = [req EXCEPT ![r] = x]
      BY <2>1
    <2> HIDE DEF x
    <2>5. Each(x)
      <3>1. RequestOK(x)
        BY <2>2, <2>3 DEF Each, RequestOK
      <3>2. Fresh(x)
        BY <1>1, <1>4, <2>2, <2>3 DEF Each, Fresh
      <3>3. Timely(x)
        BY <2>2, <2>3 DEF Each, Timely
      <3>4. QED
        BY <3>1, <3>2, <3>3 DEF Each
    <2>6. /\ req' \in [Requests -> Running \cup {None}]
          /\ \A q \in Requests : \A y \in {req'[q]} \ {None} : Each(y)
      BY <1>1, <2>3, <2>4, <2>5 DEF StateOK, IInv
    <2>7. QED
      BY <1>1, <1>2, <1>3, <2>6, LocalOK
  <1>5. CASE req[r].op # "revoke"
    <2>1. End(r)
      BY <1>5 DEF Drop
    <2>2. QED
      BY <1>1, <1>2, <1>3, <2>1, EndEach, LocalOK
  <1>6. QED
    BY <1>4, <1>5

LEMMA FillStep == ASSUME IInv, NEW r \in Requests, Fill(r) PROVE IInv'
  <1> DEFINE exp == req[r].copy[req[r].key].exp
             s == req[r].secret
             e == [exp |-> exp, until |-> CachedUntil(exp)]
  <1>1. StateOK /\ StaleBounded /\ req[r] # None /\ req[r].at = "fill" /\ End(r)
        /\ UNCHANGED <<attrs, issued, now, valid>>
    BY DEF Fill, IInv
  <1>2. req[r] \in Running /\ Each(req[r])
    BY <1>1 DEF IInv, StateOK
  <1>3. /\ Holds(req[r].copy, req[r].key, s, req[r].since) /\ s \in issued
        /\ req[r].key \in Secrets /\ req[r].copy \in Attributes
    BY <1>1, <1>2 DEF Each, RequestOK, StateOK, Running
  <1>4. exp \in Nat
    BY <1>3 DEF Holds, Attributes, Keys
  <1>5. valid[s] >= req[r].since /\ now <= req[r].since + Latency /\ req[r].since \in Nat
    BY <1>1, <1>2 DEF Each, RequestOK, Timely, Running
  <1>6. e \in Entries /\ e.until = now + CacheTTL
    BY <1>1, <1>4, TimeAssumption DEF Entries, CachedUntil, StateOK
  <1>7. s \in Secrets /\ valid[s] \in Nat \cup {-1}
    BY <1>1, <1>3 DEF StateOK
  <1>8. valid[s] >= 0 /\ e.until <= valid[s] + Latency + CacheTTL
    BY <1>1, <1>5, <1>6, <1>7, TimeAssumption DEF StateOK
  <1>9. cache' = cache \/ cache' = [cache EXCEPT ![s] = e]
    BY DEF Fill
  <1> HIDE DEF e, s, exp
  <1>10. cache' \in [Secrets -> Entries \cup {None}]
    BY <1>1, <1>6, <1>9 DEF StateOK
  <1>11. ASSUME NEW i \in Secrets, cache'[i] # None
         PROVE  i \in issued /\ valid[i] >= 0 /\ cache'[i].until <= valid[i] + Latency + CacheTTL
    <2>1. CASE cache'[i] = cache[i]
      BY <1>1, <1>11, <2>1 DEF StateOK, StaleBounded
    <2>2. CASE i = s /\ cache'[i] = e
      BY <1>3, <1>8, <2>2
    <2>3. QED
      BY <1>1, <1>9, <2>1, <2>2 DEF StateOK
  <1>12. QED
    BY <1>1, <1>10, <1>11, EndEach, LocalOK

LEMMA FailStep == ASSUME IInv, NEW r \in Requests, Fail(r) PROVE IInv'
  <1>1. StateOK /\ StaleBounded /\ End(r) /\ UNCHANGED <<attrs, cache, issued, now, valid>>
    BY DEF Fail, IInv
  <1>2. QED
    BY <1>1, EndEach, LocalOK DEF StateOK, StaleBounded

LEMMA ForgetStep == ASSUME IInv, NEW s \in Secrets, RedisForgets(s) PROVE IInv'
  <1>1. /\ StateOK /\ StaleBounded /\ cache' = [cache EXCEPT ![s] = None]
        /\ UNCHANGED <<attrs, req, issued, now, valid>>
    BY DEF RedisForgets, IInv
  <1>2. /\ req' \in [Requests -> Running \cup {None}]
        /\ \A q \in Requests : \A x \in {req'[q]} \ {None} : Each(x)
    BY <1>1 DEF IInv, StateOK
  <1>3. /\ cache' \in [Secrets -> Entries \cup {None}]
        /\ \A i \in Secrets : cache'[i] # None => cache'[i] = cache[i]
    BY <1>1 DEF StateOK
  <1>4. QED
    BY <1>1, <1>2, <1>3, LocalOK DEF StateOK, StaleBounded

(* The history only grows, up to the clock. *)
LEMMA NoteOK ==
    ASSUME StateOK, ClockOK, NEW a, NEW t \in Nat, now <= t, Note(a, t)
    PROVE  /\ valid' \in [Secrets -> Nat \cup {-1}]
           /\ \A s \in Secrets : valid[s] <= valid'[s] /\ valid'[s] <= t
           /\ \A k, s \in Secrets : Holds(a, k, s, t) => valid'[s] = t
  <1>1. \A s \in Secrets : valid'[s] = t \/ valid'[s] = valid[s]
    BY DEF Note
  <1>2. \A s \in Secrets : valid[s] \in Nat \cup {-1} /\ valid[s] <= now /\ now \in Nat
    BY DEF StateOK, ClockOK
  <1>3. \A s \in Secrets : valid'[s] \in Nat \cup {-1} /\ valid[s] <= valid'[s] /\ valid'[s] <= t
    BY <1>1, <1>2
  <1>4. \A k, s \in Secrets : Holds(a, k, s, t) => valid'[s] = t
    BY DEF Note
  <1>5. valid' \in [Secrets -> Nat \cup {-1}]
    BY <1>3 DEF Note
  <1>6. QED
    BY <1>3, <1>4, <1>5

LEMMA PutStep == ASSUME IInv, NEW r \in Requests, Put(r) PROVE IInv'
  <1>c. PICK c : c = req[r].copy
    OBVIOUS
  <1>1. /\ StateOK /\ ClockOK /\ StaleBounded
        /\ req[r] # None /\ req[r].at = "put" /\ attrs' = c /\ Note(c, now)
        /\ UNCHANGED <<cache, issued, now>>
    BY <1>c DEF Put, IInv
  <1>2. req[r] \in Running /\ Each(req[r])
    BY <1>1 DEF IInv, StateOK
  <1>3. Sound(c) /\ Fits(c)
    BY <1>2, <1>c DEF Each, RequestOK
  <1>4. /\ valid' \in [Secrets -> Nat \cup {-1}]
        /\ \A s \in Secrets : valid[s] <= valid'[s] /\ valid'[s] <= now
        /\ \A k, s \in Secrets : Holds(c, k, s, now) => valid'[s] = now
    BY <1>1, NoteOK DEF StateOK
  <1>5. \A s \in Secrets : valid[s] \in Int /\ valid'[s] \in Int
    BY <1>1, <1>4 DEF StateOK
  <1>6. ClockOK'
    BY <1>1, <1>4 DEF ClockOK, Holds
  <1>7. StaleBounded'
    <2>1. ASSUME NEW s \in Secrets, cache[s] # None
          PROVE  valid'[s] >= 0 /\ cache[s].until <= valid'[s] + Latency + CacheTTL
      <3>1. valid[s] >= 0 /\ cache[s].until <= valid[s] + Latency + CacheTTL /\ cache[s].until \in Nat
        BY <1>1, <2>1 DEF StaleBounded, StateOK, Entries
      <3>2. QED
        BY <3>1, <1>4, <1>5, TimeAssumption
    <2>2. QED
      BY <1>1, <2>1 DEF StaleBounded
  <1>8. ASSUME NEW q \in Requests
        PROVE  req'[q] \in Running \cup {None} /\ \A x \in {req'[q]} \ {None} : Each(x)'
    <2>1. CASE q # r
      <3>1. req'[q] = Overtaken(req[q], c)
        BY <2>1, <1>c DEF Put
      <3>2. CASE req[q] = None
        BY <3>1, <3>2 DEF Overtaken
      <3>3. CASE req[q] # None
        <4>1. req[q] \in Running /\ Each(req[q])
          BY <1>1, <3>3 DEF IInv, StateOK
        <4>2. PICK x : x = req'[q]
          OBVIOUS
        <4>3. /\ x \in Running /\ x.at = req[q].at /\ x.op = req[q].op /\ x.key = req[q].key
              /\ x.secret = req[q].secret /\ x.copy = req[q].copy /\ x.since = req[q].since
              /\ ~x.stale => ~req[q].stale /\ c = attrs
          BY <3>1, <3>3, <4>1, <4>2 DEF Overtaken, Running
        <4>4. RequestOK(x)
          BY <4>1, <4>3 DEF Each, RequestOK
        <4>5. RequestOK(x)'
          BY <1>1, <4>4, Grows
        <4>6. Fresh(x)'
          BY <1>1, <4>1, <4>3 DEF Each, Fresh
        <4>7. Timely(x)'
          <5>1. x.secret \in Secrets /\ x.since \in Nat
            BY <4>3 DEF Running
          <5>2. x.op = "validate" /\ x.at # "drop" => valid[x.secret] >= x.since
            BY <4>1, <4>3 DEF Each, Timely
          <5>3. x.op = "validate" /\ x.at # "drop" => valid'[x.secret] >= x.since
            BY <5>1, <5>2, <1>4, <1>5
          <5>4. QED
            BY <1>1, <4>1, <4>3, <5>3 DEF Each, Timely
        <4>8. QED
          BY <4>2, <4>3, <4>5, <4>6, <4>7 DEF Each
      <3>4. QED
        BY <3>2, <3>3
    <2>2. CASE q = r /\ req[r].op = "validate"
      <3>1. PICK x : x = req'[q]
        OBVIOUS
      <3>2. x = [req[r] EXCEPT !.at = "fill"]
        BY <2>2, <3>1 DEF Put
      <3>3. /\ x \in Running /\ x.at = "fill" /\ x.op = "validate" /\ x.key = req[r].key
            /\ x.secret = req[r].secret /\ x.copy = req[r].copy /\ x.since = req[r].since
        BY <1>2, <2>2, <3>2 DEF Running
      <3>4. RequestOK(x)
        BY <1>1, <1>2, <2>2, <3>3 DEF Each, RequestOK
      <3>5. RequestOK(x)'
        BY <1>1, <3>4, Grows
      <3>6. Fresh(x)'
        BY <3>3 DEF Fresh
      <3>7. Timely(x)'
        <4>1. x.secret \in Secrets /\ x.since \in Nat
          BY <3>3 DEF Running
        <4>2. valid[x.secret] >= x.since
          BY <1>1, <1>2, <2>2, <3>3 DEF Each, Timely
        <4>3. valid'[x.secret] >= x.since
          BY <4>1, <4>2, <1>4, <1>5
        <4>4. QED
          BY <1>1, <1>2, <3>3, <4>3 DEF Each, Timely
      <3>8. QED
        BY <3>1, <3>3, <3>5, <3>6, <3>7 DEF Each
    <2>3. CASE q = r /\ req[r].op # "validate"
      BY <2>3 DEF Put
    <2>4. QED
      BY <2>1, <2>2, <2>3
  <1>9. StateOK'
    <2>1. req' \in [Requests -> Running \cup {None}]
      BY <1>8 DEF Put
    <2>2. Sound(attrs)' /\ Fits(attrs)'
      BY <1>1, <1>3 DEF Sound, Fits, OneKeyEach, KeyIds, Attributes
    <2>3. QED
      BY <1>1, <1>4, <2>1, <2>2 DEF StateOK
  <1>10. QED
    BY <1>6, <1>7, <1>8, <1>9 DEF IInv

LEMMA TickStep == ASSUME IInv, Tick PROVE IInv'
  <1>1. /\ StateOK /\ ClockOK /\ StaleBounded
        /\ now' = now + 1 /\ Note(attrs, now + 1) /\ UNCHANGED <<attrs, req, issued>>
    BY DEF Tick, IInv
  <1>2. now \in Nat /\ now + 1 \in Nat /\ now <= now + 1
    BY <1>1 DEF StateOK
  <1>3. /\ valid' \in [Secrets -> Nat \cup {-1}]
        /\ \A s \in Secrets : valid[s] <= valid'[s] /\ valid'[s] <= now + 1
        /\ \A k, s \in Secrets : Holds(attrs, k, s, now + 1) => valid'[s] = now + 1
    BY <1>1, <1>2, NoteOK
  <1>4. \A s \in Secrets : valid[s] \in Int /\ valid'[s] \in Int
    BY <1>1, <1>3 DEF StateOK
  <1>5. /\ cache' \in [Secrets -> Entries \cup {None}]
        /\ \A s \in Secrets : cache'[s] # None => cache'[s] = cache[s]
    BY <1>1 DEF Tick, StateOK
  <1>6. StateOK'
    BY <1>1, <1>2, <1>3, <1>5 DEF StateOK, Sound, OneKeyEach, Fits, KeyIds, Attributes
  <1>7. ClockOK'
    BY <1>1, <1>3 DEF ClockOK, Holds
  <1>8. StaleBounded'
    <2>1. ASSUME NEW s \in Secrets, cache'[s] # None
          PROVE  valid'[s] >= 0 /\ cache'[s].until <= valid'[s] + Latency + CacheTTL
      <3>1. /\ valid[s] >= 0 /\ cache[s].until <= valid[s] + Latency + CacheTTL
            /\ cache[s].until \in Nat /\ cache'[s] = cache[s]
        BY <1>1, <1>5, <2>1 DEF StaleBounded, StateOK, Entries
      <3>2. QED
        BY <3>1, <1>3, <1>4, TimeAssumption
    <2>2. QED
      BY <2>1 DEF StaleBounded
  <1>9. ASSUME NEW r \in Requests, NEW q \in {req'[r]} \ {None} PROVE Each(q)'
    <2>1. q = req[r] /\ q # None /\ q \in Running /\ Each(q)
      BY <1>1, <1>9 DEF IInv, StateOK
    <2>2. RequestOK(q)'
      BY <1>1, <2>1, Grows DEF Each
    <2>3. now < q.since + Latency /\ q.since \in Nat /\ q.secret \in Secrets
      BY <2>1 DEF Tick, Running
    <2>4. q.op = "validate" /\ q.at # "drop" => valid[q.secret] >= q.since
      BY <2>1 DEF Each, Timely
    <2>5. q.op = "validate" /\ q.at # "drop" => valid'[q.secret] >= q.since
      BY <2>3, <2>4, <1>3, <1>4
    <2>6. q.since <= now
      BY <2>1 DEF Each, Timely
    <2>7. Timely(q)'
      BY <1>1, <1>2, <2>3, <2>5, <2>6, TimeAssumption DEF Timely
    <2>8. QED
      BY <1>1, <2>1, <2>2, <2>7 DEF Each, Fresh
  <1>10. QED
    BY <1>6, <1>7, <1>8, <1>9 DEF IInv

-----------------------------------------------------------------------------
(* The theorems *)

(* No step, and no step that changes nothing, breaks the invariant. *)
THEOREM Inductive == IInv /\ [Next]_vars => IInv'
  <1> SUFFICES ASSUME IInv, [Next]_vars PROVE IInv'
    OBVIOUS
  <1>1. CASE UNCHANGED vars
    <2>1. StateOK /\ StaleBounded
      BY DEF IInv
    <2>2. QED
      BY <1>1, <2>1, LocalOK DEF vars, IInv, StateOK, StaleBounded
  <1>2. CASE \E r \in Requests : Create(r) \/ Rotate(r) \/ Revoke(r) \/ Search(r) \/ ExpiredHit(r)
    BY <1>2, CreateStep, RotateStep, RevokeStep, SearchStep, ExpiredHitStep
  <1>3. CASE \E r \in Requests : Drop(r) \/ Put(r) \/ Fill(r) \/ Fail(r)
    BY <1>3, DropStep, PutStep, FillStep, FailStep
  <1>4. CASE (\E s \in Secrets : RedisForgets(s)) \/ Tick
    BY <1>4, ForgetStep, TickStep
  <1>5. QED
    BY <1>1, <1>2, <1>3, <1>4 DEF Next

(* The invariant holds in every state.                                     *)
THEOREM Invariant == Spec => []IInv
  BY Initially, Inductive, PTL DEF Spec

(* Every table of keys, in Keycloak or in a copy, has its type and gives a *)
(* secret to one key at most.                                              *)
THEOREM TypeCorrect == Spec => []TypeOK
  <1>1. IInv => TypeOK
    BY DEF IInv, StateOK, Sound, OneKeyEach, TypeOK, KeyIds
  <1>2. QED
    BY <1>1, Invariant, PTL

(* No user ever has more keys than MAX_KEYS_PER_USER, however many         *)
(* creations pass the check together (lines 131-166).                      *)
THEOREM QuotaCorrect == Spec => []WithinQuota
  <1>1. IInv => WithinQuota
    BY DEF IInv, StateOK, Fits, WithinQuota
  <1>2. QED
    BY <1>1, Invariant, PTL

(* The cache outlives a key by cache_ttl and what a request takes, at most. *)
THEOREM StaleCorrect == Spec => []StaleBounded
  <1>1. IInv => StaleBounded
    BY DEF IInv
  <1>2. QED
    BY <1>1, Invariant, PTL

(* A key is lost, restored or rewritten by a request about another one     *)
(* only where the two overlap.                                             *)
THEOREM LostCorrect == Spec => LostOnlyByOverlap
  <1> DEFINE Lost ==
        \A k \in Secrets : attrs'[k] # attrs[k] =>
            \E r \in Requests :
                /\ req[r] # None /\ req[r].at = "put" /\ attrs' = req[r].copy
                /\ req[r].stale \/ (req[r].op # "validate" /\ req[r].key = k)
  <1>1. IInv /\ [Next]_vars => [Lost]_vars
    <2> SUFFICES ASSUME IInv, Next, NEW k \in Secrets, attrs'[k] # attrs[k]
                 PROVE  \E r \in Requests :
                            /\ req[r] # None /\ req[r].at = "put" /\ attrs' = req[r].copy
                            /\ req[r].stale \/ (req[r].op # "validate" /\ req[r].key = k)
      OBVIOUS
    <2>1. PICK r \in Requests : Put(r)
      BY DEF Next, Create, Rotate, Revoke, Search, ExpiredHit, Start, Drop, Fill, Fail, RedisForgets, Tick
    <2>2. req[r] # None /\ req[r].at = "put" /\ attrs' = req[r].copy
      BY <2>1 DEF Put
    <2>3. Fresh(req[r])
      BY <2>2 DEF IInv, Each
    <2>4. QED
      BY <2>2, <2>3 DEF Fresh
  <1>2. QED
    BY <1>1, Invariant, PTL DEF Spec, LostOnlyByOverlap

=============================================================================
