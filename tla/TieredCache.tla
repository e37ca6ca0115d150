---------------------------- MODULE TieredCache ----------------------------
(***************************************************************************)
(* One key of the cache (core/cache.py, CacheService): an in-process L1    *)
(* per instance of the server, one Redis (L2) they share, and the callers  *)
(* that fill it, under the key's lock (get_with_lock) or without (the      *)
(* decorator cached).  Other keys appear as evictions from L1 and as       *)
(* clear() with a pattern that does not match this one.                    *)
(*                                                                         *)
(* The Redis client is synchronous: an operation of CacheService is one    *)
(* step of its instance.  An instance gives way only in the wait for the   *)
(* lock and in the fetcher, so these are where steps end.  Each Redis      *)
(* command may fail, or may never be tried (redis_available is FALSE, or   *)
(* the level is l1): reached tells whether it had its effect.              *)
(***************************************************************************)
EXTENDS Integers, Sequences, SequencesExt

CONSTANTS
    Instances,   \* processes, each with a CacheService
    Callers,     \* coroutines that ask for the key
    On,          \* the instance each of them runs on
    Decorated,   \* those that go through the decorator cached
    Values,      \* what the fetcher may find at its source
    Falsy,       \* those of them that are false in Python: 0, "", [], False
    L1TTL,       \* l1_ttl
    TTL,         \* ttl, or CACHE_TTLS for the key's prefix
    None

ASSUME CallersAssumption == On \in [Callers -> Instances] /\ Decorated \subseteq Callers
ASSUME ValuesAssumption == Falsy \subseteq Values /\ None \notin Values \cup Callers
ASSUME TTLAssumption == L1TTL \in Nat \ {0} /\ TTL \in Nat \ {0}

(* left: until the layer drops it.  age: history, since it was set. *)
Entries == [value: Values, left: Nat \ {0}, age: Nat]

ASSUME EntriesAssumption == None \notin Entries

VARIABLES
    source,    \* what the fetcher would find now
    L1,        \* l1_cache[key] of each instance
    L2,        \* the key in Redis
    pc,        \* what each caller is at
    got,       \* what its fetcher has found
    lock,      \* _refresh_locks[key]: its owner
    waiters    \* and its queue

vars == <<source, L1, L2, pc, got, lock, waiters>>

Locked == Callers \ Decorated
Usable(e) == e # None /\ e.value \notin Falsy     \* if cached := self.get(key)

-----------------------------------------------------------------------------
(* Mutant of Looked: a promoted value keeps the ttl of its type in L1.     *)
LookedLonger(e, reached) ==
    IF e = None /\ reached /\ L2 # None THEN [L2 EXCEPT !.left = TTL] ELSE e

(* get: what L1, which held e, has after the lookup, which is also what is *)
(* found.  A value found in Redis is promoted to L1.                       *)
Looked(e, reached) ==
    IF e = None /\ reached /\ L2 # None THEN [L2 EXCEPT !.left = L1TTL] ELSE e

(* set: L1, then Redis, where a failure leaves what was there. *)
Store(i, v, reached) ==
    /\ L1' = [L1 EXCEPT ![i] = [value |-> v, left |-> L1TTL, age |-> 0]]
    /\ L2' = IF reached THEN [value |-> v, left |-> TTL, age |-> 0] ELSE L2

(* What delete and clear do to the key. *)
Invalidate(i, reached) ==
    /\ L1' = [L1 EXCEPT ![i] = None]
    /\ L2' = IF reached THEN None ELSE L2

Init ==
    /\ source \in Values
    /\ L1 = [i \in Instances |-> None]
    /\ L2 = None
    /\ pc = [c \in Callers |-> "idle"]
    /\ got = [c \in Callers |-> None]
    /\ lock = [i \in Instances |-> None]
    /\ waiters = [i \in Instances |-> <<>>]

-----------------------------------------------------------------------------
(* Callers *)

(* The lookup of an idle caller, and whether it found a usable value. *)
Lookup(c, hit) ==
    /\ pc[c] = "idle"
    /\ \E reached \in BOOLEAN :
          LET e == Looked(L1[On[c]], reached) IN
          /\ Usable(e) = hit
          /\ L1' = [L1 EXCEPT ![On[c]] = e]

(* The first lookup finds it; or the second one does, under a lock that    *)
(* was free and is free again, with no await in between.                   *)
Hit(c) == Lookup(c, TRUE) /\ UNCHANGED <<source, L2, pc, got, lock, waiters>>

(* The decorator calls the function, under no lock. *)
MissDecorated(c) ==
    /\ c \in Decorated
    /\ Lookup(c, FALSE)
    /\ pc' = [pc EXCEPT ![c] = "fetching"]
    /\ UNCHANGED <<source, L2, got, lock, waiters>>

(* asyncio.Lock: a newcomer does not overtake those who wait. *)
LockFree(i) == lock[i] = None /\ waiters[i] = <<>>

Wait(c) ==
    /\ c \in Locked
    /\ ~LockFree(On[c])
    /\ Lookup(c, FALSE)
    /\ pc' = [pc EXCEPT ![c] = "waiting"]
    /\ waiters' = [waiters EXCEPT ![On[c]] = Append(@, c)]
    /\ UNCHANGED <<source, L2, got, lock>>

(* The lock is free: both lookups have failed when the fetcher is called.  *)
Enter(c) ==
    /\ c \in Locked
    /\ LockFree(On[c])
    /\ Lookup(c, FALSE)
    /\ pc' = [pc EXCEPT ![c] = "fetching"]
    /\ lock' = [lock EXCEPT ![On[c]] = c]
    /\ UNCHANGED <<source, L2, got, waiters>>

(* Mutant of Filled: no lookup under the lock. *)
FilledNever(e) == FALSE

(* The double check: another caller may have filled the cache. *)
Filled(e) == Usable(e)

(* The first in the queue has the lock it was woken for. *)
Turn(c) ==
    /\ pc[c] = "waiting"
    /\ Head(waiters[On[c]]) = c
    /\ lock[On[c]] = None

Woken(c) ==
    /\ Turn(c)
    /\ waiters' = [waiters EXCEPT ![On[c]] = Tail(@)]
    /\ \E reached \in BOOLEAN :
          LET e == Looked(L1[On[c]], reached) IN
          /\ L1' = [L1 EXCEPT ![On[c]] = e]
          /\ IF Filled(e)
             THEN pc' = [pc EXCEPT ![c] = "idle"] /\ UNCHANGED lock
             ELSE pc' = [pc EXCEPT ![c] = "fetching"] /\ lock' = [lock EXCEPT ![On[c]] = c]
    /\ UNCHANGED <<source, L2, got>>

(* TTLCache: "key in l1_cache" is true and l1_cache[key] no more, for the  *)
(* entry expired between them.  get raises KeyError, the lock is given     *)
(* back.  (An idle caller that meets this stays as it is.)                 *)
WokenKeyError(c) ==
    /\ Turn(c)
    /\ L1[On[c]] # None /\ L1[On[c]].left = 1
    /\ waiters' = [waiters EXCEPT ![On[c]] = Tail(@)]
    /\ pc' = [pc EXCEPT ![c] = "idle"]
    /\ UNCHANGED <<source, L1, L2, got, lock>>

(* The fetcher reads its source, and is not back yet. *)
Read(c) ==
    /\ pc[c] = "fetching" /\ got[c] = None
    /\ got' = [got EXCEPT ![c] = source]
    /\ UNCHANGED <<source, L1, L2, pc, lock, waiters>>

(* The end of "async with", if the caller is in it. *)
Release(c) == lock' = [lock EXCEPT ![On[c]] = IF @ = c THEN None ELSE @]

Leave(c) ==
    /\ pc' = [pc EXCEPT ![c] = "idle"]
    /\ got' = [got EXCEPT ![c] = None]

(* The fetcher is back, and its value is cached and returned. *)
Finish(c) ==
    /\ pc[c] = "fetching" /\ got[c] # None
    /\ \E reached \in BOOLEAN : Store(On[c], got[c], reached)
    /\ Leave(c)
    /\ Release(c)
    /\ UNCHANGED <<source, waiters>>

(* Mutant of FetchEnds: a fetcher that raises leaves the lock as it is,    *)
(* acquire() and release() having replaced "async with".                   *)
FetchEndsWithLock(c) == Leave(c) /\ UNCHANGED lock

(* The lock is given back however the fetcher ends. *)
FetchEnds(c) == Leave(c) /\ Release(c)

(* The fetcher raises, or the caller is cancelled in it. *)
FetchFails(c) ==
    /\ pc[c] = "fetching"
    /\ FetchEnds(c)
    /\ UNCHANGED <<source, L1, L2, waiters>>

(* A caller is cancelled in the queue. *)
CancelWaiting(c) ==
    /\ pc[c] = "waiting"
    /\ \E n \in DOMAIN waiters[On[c]] :
          /\ waiters[On[c]][n] = c
          /\ waiters' = [waiters EXCEPT ![On[c]] = RemoveAt(@, n)]
    /\ Leave(c)
    /\ UNCHANGED <<source, L1, L2, lock>>

-----------------------------------------------------------------------------
(* The other operations, and what happens to the two layers *)

Quiet == UNCHANGED <<source, pc, got, lock, waiters>>

(* cache.set(key, value) outside of a fetch. *)
Set(i) == \E v \in Values, reached \in BOOLEAN : Store(i, v, reached) /\ Quiet

(* Other instances' L1 keep the key. *)
Delete(i) == \E reached \in BOOLEAN : Invalidate(i, reached) /\ Quiet

(* clear, cache_invalidate: all of this L1, and from Redis the keys that   *)
(* match the pattern.                                                      *)
Clear(i) ==
    \E matches, reached \in BOOLEAN : Invalidate(i, matches /\ reached) /\ Quiet

(* The least recently used entry makes room in L1. *)
Evict(i) ==
    /\ L1[i] # None
    /\ L1' = [L1 EXCEPT ![i] = None]
    /\ Quiet /\ UNCHANGED L2

(* Redis restarts without its data, or evicts the key. *)
RedisForgets == L2 # None /\ L2' = None /\ Quiet /\ UNCHANGED L1

(* An instance is restarted: its L1, its locks and its callers are gone.   *)
Restart(i) ==
    /\ L1' = [L1 EXCEPT ![i] = None]
    /\ lock' = [lock EXCEPT ![i] = None]
    /\ waiters' = [waiters EXCEPT ![i] = <<>>]
    /\ pc' = [c \in Callers |-> IF On[c] = i THEN "idle" ELSE pc[c]]
    /\ got' = [c \in Callers |-> IF On[c] = i THEN None ELSE got[c]]
    /\ UNCHANGED <<source, L2>>

(* What is cached changes at its source. *)
Update == \E v \in Values : source' = v /\ UNCHANGED <<L1, L2, pc, got, lock, waiters>>

Older(e) ==
    IF e = None \/ e.left = 1 THEN None
    ELSE [e EXCEPT !.left = @ - 1, !.age = @ + 1]

Tick ==
    /\ L1' = [i \in Instances |-> Older(L1[i])]
    /\ L2' = Older(L2)
    /\ Quiet

Call(c) == Hit(c) \/ MissDecorated(c) \/ Wait(c) \/ Enter(c)

Next ==
    \/ \E c \in Callers :
          \/ Call(c) \/ Woken(c) \/ WokenKeyError(c)
          \/ Read(c) \/ Finish(c) \/ FetchFails(c) \/ CancelWaiting(c)
    \/ \E i \in Instances : Set(i) \/ Delete(i) \/ Clear(i) \/ Evict(i) \/ Restart(i)
    \/ RedisForgets \/ Update \/ Tick

Spec == Init /\ [][Next]_vars

(* The event loop runs what is ready, and a fetcher returns or raises.     *)
Fairness ==
    \A c \in Callers :
        /\ WF_vars(Woken(c) \/ WokenKeyError(c))
        /\ WF_vars(Read(c))
        /\ WF_vars(Finish(c) \/ FetchFails(c))

FairSpec == Spec /\ Fairness

-----------------------------------------------------------------------------
(* Properties *)

(* Every variable has its type; a lock's owner is the caller that fetches  *)
(* under it, and its queue holds the callers that wait, each of them once  *)
(* (get_with_lock, lines 366-379).                                         *)
TypeOK ==
    /\ source \in Values
    /\ L1 \in [Instances -> Entries \cup {None}]
    /\ L2 \in Entries \cup {None}
    /\ pc \in [Callers -> {"idle", "waiting", "fetching"}]
    /\ got \in [Callers -> Values \cup {None}]
    /\ lock \in [Instances -> Locked \cup {None}]
    /\ waiters \in [Instances -> Seq(Locked)]
    /\ \A c \in Locked :
          /\ pc[c] = "fetching" <=> lock[On[c]] = c
          /\ pc[c] = "waiting" <=> \E n \in DOMAIN waiters[On[c]] : waiters[On[c]][n] = c
    /\ \A c \in Decorated : pc[c] # "waiting"
    /\ \A i \in Instances : IsInjective(waiters[i])

(* A caller of get_with_lock fetches only if no other does so on its       *)
(* instance, and only if the instance's L1 has no value it could use: those*)
(* who waited for a fetch take what it cached, as long as it is there.     *)
(* (Lines 352 and 371; tests/core/test_cache.py:335: "Fetcher should only  *)
(* be called once".)                                                       *)
NoStampede ==
    [][\A c \in Locked : pc[c] # "fetching" /\ pc'[c] = "fetching" =>
          /\ ~Usable(L1[On[c]])
          /\ \A d \in Locked : On[d] = On[c] => pc[d] # "fetching"]_vars

(* A value is out of every L1 less than ttl + l1_ttl after it was set, and *)
(* out of Redis after ttl, through any number of promotions, instances and *)
(* failed commands (lines 243, 284 and 289).                               *)
StaleBounded ==
    /\ \A i \in Instances : L1[i] # None => L1[i].age + L1[i].left < TTL + L1TTL
    /\ L2 # None => L2.age + L2.left = TTL

(* Every caller gets a value or an error: no one waits forever for a lock, *)
(* however the callers before it ended (lines 370-379).                    *)
GetsEnd == \A c \in Callers : pc[c] # "idle" ~> pc[c] = "idle"


=============================================================================
