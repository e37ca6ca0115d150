------------------------------ MODULE ApiKeys ------------------------------
(***************************************************************************)
(* The API keys of one user (auth/api_keys.py, APIKeyManager).  Keycloak   *)
(* keeps them among the user's attributes, which are read and written      *)
(* whole; Redis caches whom a key belongs to.  A request reads the         *)
(* attributes, works on its copy without giving way, and puts the copy     *)
(* back one or two round trips later, whatever has been put meanwhile.     *)
(*                                                                         *)
(* A key_id and the first secret it is created with are generated together *)
(* and stand for each other here.  create alone writes apiKey_*_cacheHash, *)
(* so key_id stands for that too.  The time of last use, which validate    *)
(* writes into its copy, is left out; the put is not.  Other users' pages  *)
(* of the search hold no match.                                            *)
(***************************************************************************)
EXTENDS Integers, FiniteSets

CONSTANTS
    Secrets,    \* what secrets.token_urlsafe may return: never the same twice
    Requests,   \* coroutines that serve requests, in any number of processes
    MaxKeys,    \* MAX_KEYS_PER_USER
    CacheTTL,   \* cache_ttl
    Lifetimes,  \* values of expires_days
    Graces,     \* values of grace_period_days
    Latency,    \* what a request takes at most (keycloak.py:63, the timeout)
    Horizon,    \* bound: the clock stops here
    None

ASSUME QuotaAssumption == MaxKeys \in Nat
ASSUME TimeAssumption ==
    /\ CacheTTL \in Nat \ {0} /\ Latency \in Nat /\ Horizon \in Nat
    /\ Lifetimes \subseteq Nat /\ Graces \subseteq Nat

Keys == [secret: Secrets, exp: Nat]             \* exp: apiKey_*_expiresAt
Attributes == [Secrets -> Keys \cup {None}]     \* by key_id
Entries == [exp: Nat, until: Nat]               \* until: Redis keeps it

(* A request under way: what it does next, and its copy of the attributes. *)
(* stale is history: another one has put different attributes since.       *)
Running == [at: {"drop", "put", "fill"},
            op: {"create", "rotate", "revoke", "validate"},
            key: Secrets, secret: Secrets, copy: Attributes,
            since: Nat, stale: BOOLEAN]

ASSUME NoneAssumption == None \notin Keys \cup Entries \cup Running

VARIABLES
    attrs,     \* the user's attributes in Keycloak
    cache,     \* Redis: apikey:<hash of the secret>
    req,       \* the requests under way
    issued,    \* the secrets generated so far
    now,       \* the clock
    valid      \* history: when each secret was last one of an unexpired key

vars == <<attrs, cache, req, issued, now, valid>>

Nothing == [k \in Secrets |-> None]

KeyIds(a) == {k \in Secrets : a[k] # None}      \* attributes["apiKeys"]

Holds(a, k, s, t) == a[k] # None /\ a[k].secret = s /\ t <= a[k].exp

(* The history of valid, after the attributes or the clock have moved. *)
Note(a, t) ==
    valid' = [s \in Secrets |-> IF \E k \in Secrets : Holds(a, k, s, t) THEN t ELSE valid[s]]

Init ==
    /\ attrs = Nothing
    /\ cache = Nothing
    /\ req = [r \in Requests |-> None]
    /\ issued = {}
    /\ now = 0
    /\ valid = [s \in Secrets |-> -1]

-----------------------------------------------------------------------------
(* Reading: each of these follows the answer of Keycloak or Redis up to    *)
(* the next await.                                                         *)

Start(r, at, op, k, s, copy) ==
    /\ req[r] = None
    /\ req' = [req EXCEPT ![r] = [at |-> at, op |-> op, key |-> k, secret |-> s,
                                  copy |-> copy, since |-> now, stale |-> FALSE]]
    /\ UNCHANGED <<attrs, cache, now, valid>>

(* Mutant of Generate: the generator may return a secret again. *)
GenerateAgain(s) == issued' = issued \cup {s}

Generate(s) == s \notin issued /\ issued' = issued \cup {s}

(* Mutant of BelowQuota: one key too many. *)
BelowQuotaByOne == Cardinality(KeyIds(attrs)) <= MaxKeys

BelowQuota == Cardinality(KeyIds(attrs)) < MaxKeys

(* ValueError at the quota: nothing happens. *)
Create(r) ==
    \E s \in Secrets, d \in Lifetimes :
        /\ BelowQuota
        /\ Generate(s)
        /\ Start(r, "put", "create", s, s, [attrs EXCEPT ![s] = [secret |-> s, exp |-> now + d]])

(* Mutant of Rotated: only the attributes of the key are put. *)
RotatedAlone(a, k, s, exp) ==
    [i \in Secrets |-> IF i = k THEN [secret |-> s, exp |-> exp] ELSE None]

(* The key's entry of the copy has another secret. *)
Rotated(a, k, s, exp) == [a EXCEPT ![k] = [secret |-> s, exp |-> exp]]

(* ValueError if there is no such key. *)
Rotate(r) ==
    \E k \in KeyIds(attrs), s \in Secrets, g \in Graces :
        /\ Generate(s)
        /\ Start(r, "put", "rotate", k, s,
                 Rotated(attrs, k, s, IF g > 0 THEN now + g ELSE attrs[k].exp))

(* Of a key that is not there, the attributes are put back as they were. *)
Revoke(r) ==
    \E k \in issued :
        /\ Start(r, IF attrs[k] # None THEN "drop" ELSE "put", "revoke", k, k,
                 [attrs EXCEPT ![k] = None])
        /\ UNCHANGED issued

(* The cache has nothing or does not answer, and the search finds the key. *)
(* If it finds none, or only an expired one, the answer is None.           *)
Search(r) ==
    \E k \in Secrets, s \in issued :
        /\ Holds(attrs, k, s, now)
        /\ Start(r, "put", "validate", k, s, attrs)
        /\ UNCHANGED issued

(* A cached key that has expired is dropped from the cache, and yet is the *)
(* answer (line 314).  One that has not is the answer at once.             *)
ExpiredHit(r) ==
    \E s \in issued :
        /\ cache[s] # None /\ now > cache[s].exp
        /\ Start(r, "drop", "validate", s, s, Nothing)
        /\ UNCHANGED issued

-----------------------------------------------------------------------------
(* Writing *)

End(r) == req' = [req EXCEPT ![r] = None]

(* redis.delete, whose failure is swallowed; before the put, in a revoke.  *)
Drop(r) ==
    /\ req[r] # None /\ req[r].at = "drop"
    /\ \E reached \in BOOLEAN :
          cache' = IF reached THEN [cache EXCEPT ![req[r].secret] = None] ELSE cache
    /\ IF req[r].op = "revoke"
       THEN req' = [req EXCEPT ![r].at = "put"]
       ELSE End(r)
    /\ UNCHANGED <<attrs, issued, now, valid>>

(* What a put does to another request: its copy is no longer the latest. *)
Overtaken(q, copy) ==
    IF q # None /\ copy # attrs THEN [q EXCEPT !.stale = TRUE] ELSE q

(* update_user_attributes: the user is read again for the rest of the      *)
(* representation, and put with this copy of the attributes.               *)
Put(r) ==
    /\ req[r] # None /\ req[r].at = "put"
    /\ attrs' = req[r].copy
    /\ req' = [q \in Requests |->
                 IF q # r THEN Overtaken(req[q], req[r].copy)
                 ELSE IF req[r].op = "validate" THEN [req[r] EXCEPT !.at = "fill"]
                 ELSE None]
    /\ Note(req[r].copy, now)
    /\ UNCHANGED <<cache, issued, now>>

(* Mutant of CachedUntil: the entry is kept as long as the key is valid. *)
CachedUntilExpiry(exp) == IF exp > now + CacheTTL THEN exp ELSE now + CacheTTL

(* setex. *)
CachedUntil(exp) == now + CacheTTL

(* The user found is cached, unless Redis fails, and is the answer. *)
Fill(r) ==
    /\ req[r] # None /\ req[r].at = "fill"
    /\ LET exp == req[r].copy[req[r].key].exp IN
       \E reached \in BOOLEAN :
          cache' = IF reached
                   THEN [cache EXCEPT ![req[r].secret] = [exp |-> exp, until |-> CachedUntil(exp)]]
                   ELSE cache
    /\ End(r)
    /\ UNCHANGED <<attrs, issued, now, valid>>

(* Keycloak answers with an error, or the process ends. *)
Fail(r) ==
    /\ req[r] # None
    /\ End(r)
    /\ UNCHANGED <<attrs, cache, issued, now, valid>>

-----------------------------------------------------------------------------
(* Redis restarts without its data, or evicts the entry. *)
RedisForgets(s) ==
    /\ cache[s] # None
    /\ cache' = [cache EXCEPT ![s] = None]
    /\ UNCHANGED <<attrs, req, issued, now, valid>>

Tick ==
    /\ now < Horizon
    /\ \A r \in Requests : req[r] # None => now < req[r].since + Latency
    /\ now' = now + 1
    /\ cache' = [s \in Secrets |->
                   IF cache[s] # None /\ cache[s].until <= now + 1 THEN None ELSE cache[s]]
    /\ Note(attrs, now + 1)
    /\ UNCHANGED <<attrs, req, issued>>

Next ==
    \/ \E r \in Requests :
          \/ Create(r) \/ Rotate(r) \/ Revoke(r) \/ Search(r) \/ ExpiredHit(r)
          \/ Drop(r) \/ Put(r) \/ Fill(r) \/ Fail(r)
    \/ \E s \in Secrets : RedisForgets(s)
    \/ Tick

Spec == Init /\ [][Next]_vars

-----------------------------------------------------------------------------
(* Properties *)

(* Every variable has its type; a secret is in the attributes, in a copy   *)
(* or in the cache only once it is generated, and belongs to one key.      *)
TypeOK ==
    /\ attrs \in Attributes
    /\ cache \in [Secrets -> Entries \cup {None}]
    /\ req \in [Requests -> Running \cup {None}]
    /\ issued \subseteq Secrets
    /\ now \in Nat
    /\ valid \in [Secrets -> Nat \cup {-1}]
    /\ \A s \in Secrets : (attrs[s] # None \/ cache[s] # None) => s \in issued
    /\ \A k \in KeyIds(attrs) : attrs[k].secret \in issued
    /\ \A k, l \in KeyIds(attrs) : attrs[k].secret = attrs[l].secret => k = l

(* No interleaving of requests leaves a user with more than                *)
(* MAX_KEYS_PER_USER keys: each put writes a whole list that was checked,  *)
(* so that two creations that pass the check together lose a key rather    *)
(* than exceed the quota (lines 131-166).                                  *)
WithinQuota == Cardinality(KeyIds(attrs)) <= MaxKeys

(* A put changes the key its request is about and no other, unless another *)
(* request has put since it read: a key is lost, or a revoked or rotated   *)
(* one restored, only where two requests overlap (lines 129-166, 337-379,  *)
(* 420-438 and 493-522, keycloak.py:982-989).                              *)
LostOnlyByOverlap ==
    [][\A k \in Secrets : attrs'[k] # attrs[k] =>
          \E r \in Requests :
              /\ req[r] # None /\ req[r].at = "put" /\ attrs' = req[r].copy
              /\ req[r].stale \/ (req[r].op # "validate" /\ req[r].key = k)]_vars

(* However a key was revoked, rotated, overwritten or expired, and however *)
(* often it was looked up or Redis failed: the cache has it for at most    *)
(* cache_ttl, and what a request takes, after the last time at which it    *)
(* was valid in Keycloak (lines 212-230, 371-391 and 424-426).             *)
StaleBounded ==
    \A s \in Secrets : cache[s] # None =>
        valid[s] >= 0 /\ cache[s].until <= valid[s] + Latency + CacheTTL

=============================================================================
