# Verification of mcp-server-langgraph

TLA+ models of the parts of `src/mcp_server_langgraph` that have a protocol of their own: state shared by concurrent coroutines, several
steps that may be interleaved or stopped half-way, timeouts, retries, expiry. TLC checks them on small instances; TLAPS proves theorems about
all eight of them for every instance. File and line numbers refer to the repository; paths are relative to `src/mcp_server_langgraph/` unless they
begin with `adr/`, `docs/`, `migrations/` or `tests/`.

Contents: [the system](#the-system) · [the modules](#the-modules) · [runs](#runs-and-bounds) · [fairness](#fairness) · [what is proved](#what-is-proved)
· [where code and documents disagree](#where-code-and-documents-disagree) · [not modelled](#what-is-not-modelled) · [plan](#plan)

## The system

A client talks MCP to one of two servers (`mcp/server_stdio.py`, `mcp/server_streamable.py`). The server authenticates it (`auth/`), keeps a
session for it (`auth/session.py`, refused by `middleware/session_timeout.py` when idle), and runs one turn of the agent's graph on the
conversation (`core/agent.py`), which calls models through `llm/factory.py` and may run tools through `core/parallel_executor.py`. Calls of
models and of OpenFGA go through the decorators of `resilience/`. `core/cache.py` caches results. API keys (`auth/api_keys.py`) are an alternative to sessions; they live in Keycloak, with a cache in
Redis. A user may export or delete what is kept about them (`compliance/gdpr/`). All of this is asyncio: coroutines of one
process interleave only at an `await`; several instances share Redis.

| Component | State | Operations | What is hard | What makes it correct |
|---|---|---|---|---|
| Parallel tool executor, `core/parallel_executor.py` | graph, in-degrees, order, levels, semaphore, results | `execute_parallel` | tools end in any order and in four ways, deadlines, repeated and unknown ids | exactly the orderable batches are run, dependencies first, the permit limit, one result per tool, it ends |
| In-memory session store, `auth/session.py` 239-492 | dict of sessions, dict of users' ids | create, get, update, refresh, delete, list, delete all, inactivity sweep | lazy expiry, deletion while a list is walked, sliding window | the two dicts agree, the limit, the oldest goes first, the sweep finds the idle ones |
| Redis session store, `auth/session.py` 495-824 | a hash per session and a list per user, each with a time to live | the same | each method is several commands; other callers, expiry and a crash come between | a revoked session stays revoked, sessions expire, live sessions are listed and revocable as long as their list is there |
| Session timeout middleware, `middleware/session_timeout.py` | none of its own | `dispatch` | reads a timestamp the read may refresh | idle sessions are refused, and for good |
| Resilience decorators, `resilience/{circuit_breaker,retry,timeout,bulkhead}.py` | breaker state and counter, semaphore with its queue, attempt and configuration of a call | one guarded call, reset | cancellation at the moment a slot is handed over, outcomes after the breaker opened, change of configuration in mid-call | no slot is lost, no wake-up is lost, the number of attempts, when the breaker may open and close, every call ends |
| Agent graph, `core/agent.py` | checkpoint of the conversation, each request's copy | the nodes, conditional edges, the checkpointer | requests of one thread are not serialised; keys left by earlier requests; nodes change copies | history in order, bounded refinement, feedback of the own request, history kept, every request ends |
| Tiered cache, `core/cache.py` | L1 per instance, Redis, a lock per key | get, set, delete, clear, `get_with_lock`, `cached` | stampedes, cancellation in the queue, failing Redis commands, promotion of old values | one fetch at a time, bounded staleness, no caller waits forever |
| API keys, `auth/api_keys.py`, `api/api_keys.py` | a user's attributes in Keycloak, cached owners of keys in Redis | create, rotate, revoke, validate | every method, a look-up too, reads all attributes and puts all of them back later; keys cached as they are revoked; failing calls | the quota, no key lost or restored but by overlap, the cache forgets in bounded time |
| GDPR, `compliance/gdpr/` | PostgreSQL tables that refer to a profile, the audit log, the sessions and the list that leads to them | delete account, export, and what else changes the stores | six steps without a transaction, each of which may fail after it was done; crashes; writers beside it; sessions on no list | success means gone, repeating ends in success, an export without errors is complete, all of this but for sessions on no list |

Other components, all `not_modelled` in `PROJECT.json` with the reason: LLM factory, LLM verification, OpenFGA client and authorization, MCP
servers, elicitation/sampling/tasks, interrupts and approvals, context manager, adaptive bulkhead and token bucket, cost and budgets, SLA and
telemetry, service principals, identity providers, retention, rate limiter, multi-agent patterns, sandboxes, workflow
builder, playground, conversation store, wiring and health, remaining interfaces.

How the modelled ones meet: the middleware calls the session store (`SessionTimeout` composes the two); `llm/factory.py` and `auth/openfga.py`
stack the four decorators (`ResilientCall` is the stack, not four separate modules, because the faults are in how they interact); the graph
calls models (in `AgentLoop` a model answers or fails, which is what `ResilientCall` shows of a guarded call) and would call the parallel
executor from its tools node, but no input of either server gets there with tool calls, see below. The deletion of an account calls
`delete_user_sessions` and the export `list_user_sessions` of whichever store is configured (`auth/session.py:869`); `UserData` has both, command by command,
over a smaller model of the Redis store, in which a list holds live sessions only.

## The modules

One `MC...` module and one or more `.cfg` files belong to each; `...Proofs` modules hold the theorems.

**`DagExecution`, `ParallelExecutor`.** `DagExecution` is the promise: a batch is refused, or its tools are run, each once, after those it
depends on, at most `max_parallelism` at a time, and the call returns when all have ended. `ParallelExecutor` is the code: one action per turn
of each loop of Kahn's sort and of the grouping (`SortNode`, `SortDone`, `GroupLevel`, `GroupDone`), one per event of a task (`Acquire` the
semaphore, `Finish` in one of its ways, `Expire` of its deadline), the barrier of `gather` (`StartLevel`, `LevelDone`) and the collection
of results (`Return`). The order in which the sort takes ready nodes is a dictionary order in the code and free in the model. A tool whose
deadline passed keeps its permit until it has been cancelled. The property `ImplementsDag` is the refinement.

**`SessionStoreMemory`, `SessionTimeout`.** No method of the in-memory store awaits anything, so a method is a step. Time is a bounded clock;
the dicts are a function from ids and sequences of ids per user, since their order decides which session is evicted and what is listed. A get
of an expired session deletes it, and the methods built on get do so for all they meet (`GetEach`). `SessionTimeout` puts `dispatch` in front of it.
Taking ids off a user's list (`list.remove`, `LREM`) is `Without` of **`SessionLists`**, which both stores use. **`SessionStore`** is the promise of the
base class (`auth/session.py:108`): one map of sessions, in which the sessions of a user are looked for among all, the oldest of them makes room
at the limit, and a read forgets what has expired. It has no lists, times of access or sliding window, so which sessions a sweep finds idle is open.
`ImplementsSessionStore` is the refinement: the users' lists never show, neither in an answer nor in which sessions go. The Redis store has no
such property: the run `RedisLimit` breaks it, and what it keeps of the promise is `LiveAreListed` and `RevokesListed`.

**`SessionStoreRedis`.** A method is the list of Redis commands it has still to send; each step sends one, and its reply may put other
commands in front or drop the rest. So every interleaving of callers between any two commands is there, keys expire between them (`Tick`), and
a caller may stop for good (`Abort`). Redis is external: `HSET` on a missing key creates it, keys vanish at the end of their time to live, a
list without elements is no key. `unlisted` is history: the sessions that were on a list when it expired or was deleted. `LiveAreListed` says that this, and an
RPUSH still to come, are the only ways for a live session to be off its user's list; `RevokesListed` that `delete_user_sessions` leaves none alive of the ids it has
read, which it is therefore taken to remember in its last command. Together they say which sessions a revocation misses: those pushed after it
read the list, and those whose list went before them.

**`ResilientCall`.** The stack is `circuit_breaker(retry(timeout(bulkhead(f))))`. Its awaits are the wait for a slot, the service, and the
sleep before the next attempt; what lies between them is one step. pybreaker 1.4 and `asyncio.Semaphore` are external and modelled by what they
do: slots are handed to the first waiter, a waiter that was woken and is then cancelled passes the slot on. The breaker's counter saturates at
`fail_max`, all it is ever compared with. `ended` and `failed` are history variables. Synchronous wrappers are left out, and so is `retry_on`,
which no call in the repository sets.

**`AgentLoop`.** A node is a step: it awaits only its own model or tool and its result is applied when it ends. Each request has its copy
of the state, loaded from the thread's latest checkpoint and checkpointed after every node (langgraph and its `MemorySaver` are external). A
message is its kind, its request and the place it was put in; the feedback of the verifier is the place of the response it judged. Inputs are
of two kinds: `server`, the one both servers build with most keys `None`, and `bare`, the messages and `next_action`, as `tests/integration/test_agent.py:76` has it. The keys
`refinement_attempts` and so on are absent, `None`, or a value, because the nodes treat the three differently (`RespondTypeError`). langgraph's
recursion limit (25 steps) is not modelled; it would end a request from `max_refinement_attempts` 7 on, and the setting's default is 3.

**`TieredCache`.** One key; other keys appear as L1 evictions and as `clear` with patterns that do not match. The Redis client is
synchronous, so an operation of `CacheService` is one step of its instance, and an instance gives way only in the wait for the lock and in the
fetcher, whose reading of its source and return are two steps. Every Redis command may fail. `get`'s "`key in l1_cache`, then
`l1_cache[key]`" raises `KeyError` for an entry that expires in between (`WokenKeyError`); falsy values are cached and never used
(`if cached := ...`). The age of an entry is a history field. `cached` with level `l1` is the case where no Redis command succeeds.

**`ApiKeys`.** The keys of one user. A request reads the attributes from Keycloak, computes without giving way and puts the whole copy back:
reading and computing are one action (`Create`, `Rotate`, `Revoke`, `Search`), and `Put`, dropping the key from the cache (`Drop`) and
filling it (`Fill`) are one each, with everything other requests do in between. A validation puts too, because it notes the
time of use. `Fail` is an error of Keycloak or the end of the process; Redis errors are swallowed by the code, so they only leave the
cache as it was. A key's id stands for the hash under which its creation cached it, and `rotate_api_key` does not change that one. The clock is
bounded by `Horizon`; a request takes at most `Latency`, the timeout of the HTTP client (`auth/keycloak.py:63`) times what it calls. `stale` (in a
request) and `valid` are history: whether another request has put since this one read, and when a secret was last one of an unexpired key.

**`UserData`.** The stores of one user and two procedures over them: `delete_user_account`, whose six steps are made in order
whatever became of those before, and `_gather_user_data`. Beside them run other requests of the user: rows are inserted and removed,
preferences are replaced, or read and written back by `update` in two statements. Deleting the profile deletes the rows that refer to
it, and a row without a profile is refused, as the schema has it. A step may fail without effect (`FailToErase`) or with its effect done
and its answer lost (`Erase` with an error); the process may end (`Crash`); and a client that was not told of success asks again. The
preferences are a set because `update` merges into what it read.

The sessions are those of `RedisSessionStore`. `listed` is the user's list, as far as its ids are of live sessions; `pushing` are the sessions whose `create()` has still to
send RPUSH, or was stopped before it. The list may go at any time (`LoseList`: it expires, or is deleted on another request), and a session that is on no list stays alive. The
first step of a deletion is therefore LRANGE (`ListToErase`), a `delete()` per id (`EraseSession`) and DEL of the list (`DropList`), any of which may fail,
and the first read of an export is LRANGE (`ListToGather`) and a `get()` per id (`GatherSession`). What LRANGE does not return is struck out of what
the request is held to (`found`, `owed`): `Erased`, `ExportComplete` and `GoneAtLast` make no promise about a session that was on no list when the list was read, since the code
keeps none (see [below](#where-code-and-documents-disagree)). A hash that a late HSET has re-created makes `get()` raise, which is a read that fails. With
`InMemorySessionStore` there is no such session, as none of its methods gives way; it is the case in which the list never goes and each of these
sequences is one step.

## Runs and bounds

| Run | Instance | Shows |
|---|---|---|
| `ParallelExecutor` | batches of three tools with all lists of up to two dependencies, self-loops, cycles, repeated and unknown ids included; three shapes of four tools; two permits, with timeouts | `AcceptsExactly`, `PermitsConserved`, `ResultsComplete`, `ImplementsDag`, `Terminates` |
| `SessionTimeout` | two users, three sessions, limit 2, clock 0..3, no sliding window, timeout 1 | `IndexConsistent`, `WithinLimit`, `IdleNotServed`, `TerminationIsFinal`, `ImplementsSessionStore` |
| `SessionTimeoutSliding` (violation) | the same with the default sliding window | the middleware serves idle sessions |
| `SessionRedis` | one user, two sessions, limit 1, lifetimes of one and three ticks, two callers, three calls of any methods, one of which may stop half-way | `RevokedUnreadable`, `SessionsExpire`, `LiveAreListed`, `RevokesListed` |
| `RedisLimit` (violation) | one caller, three creates one after the other, a list that does not expire | two live sessions with limit 1 |
| `ResilientCall` | three callers, one of them with `wait=False`, two slots, `fail_max` 2, two attempts, three after an overload | `SlotsConserved`, `NoLostWakeup`, `NoEarlyTrip`, `OpenHolds`, `CallsEnd` |
| `BreakerTrip` (violation) | the same | a success and a failure open a breaker with `fail_max` 2 |
| `AgentLoop` | two requests, both kinds of input, two refinements | `RefinementsBounded`, `AcceptedWell`, `OwnContext`, `KeepsHistory`, `TurnsEnd` |
| `ServerTurn` (violation) | the servers' input | `generate_response` raises `TypeError` |
| `TieredCache` | two instances, three callers of `get_with_lock` on one and a decorated function on the other, a usable and a falsy value, ttl 3, `l1_ttl` 1 | `StaleBounded`, `NoStampede`, `GetsEnd` |
| `ApiKeys` | two requests at a time, three secrets, quota 2, a lifetime of one tick, rotation with and without grace, `cache_ttl` and `Latency` 1, clock 0..3 | `WithinQuota`, `LostOnlyByOverlap`, `StaleBounded` |
| `UserData` | two items, a client that asks for the deletion, an update and an export beside it, a list of sessions that may go, an audit log of which one entry is exported | `Erased`, `ExportComplete`, `GoneAtLast` |

Each run but `SessionTimeout` also checks the module's `TypeOK`, which for that one is proved. Deadlock is not checked where the system may stop: when all calls of a behaviour have ended, or a
bounded clock has. `TieredCache` and `UserData` never stop, and there it is checked.

Why the bounds are enough to mean something: three tools give every relation between a tool, its dependency and a third one, and a level of
two; four give the diamond. Limit and sessions are such that eviction happens with one session to spare, or, for Redis, at once. Lifetimes of one and three ticks and an extra hour of one let a list expire
before a session on it. Three callers
of two slots (and three of one lock) have a queue in which the first may be cancelled while a second waits. `fail_max` 2 tells "opened by the
first" from "by the second". Two refinements tell `<` from `<=` and the last feedback from the one before. `ttl` 3 and `l1_ttl` 1 let a value be
promoted twice. Three secrets are a key with two rotations, two keys and a rotation, or three keys where two are allowed; the clock goes on for
long enough that an entry cached just after its key was revoked is dropped. Two items are enough for `UserData` because its properties speak of one
item and whether another step happened: an item that was there and one made meanwhile, two audit entries where one is exported, or what a preference
was read with and what it is written back with. Deletions that overlap would take a second client, which is too much for a run with liveness: for
them there is the proof of `Erased`. Counters that only serve as bounds are named in the modules (`MaxCalls`, `MaxAborts`, `MaxSessions`, `MaxTime`, `Horizon`; in `ApiKeys` and `UserData` the supply of secrets and
items); `ResilientCall`, `AgentLoop` and `TieredCache` have none. For each checked property, `PROJECT.json` names a plausible fault of the code (a `Mutant of ...`
definition) under which it fails.

## Fairness

Safety runs that need none use `Spec`. Where liveness is checked:

- `ParallelExecutor`: weak fairness of the call's own steps and, per tool, of getting a permit and of ending. A tool that never returns is ended by its
  timeout, which the instance has; without a timeout `Terminates` rests on tools that return.
- `ResilientCall`: weak fairness of a caller that is ready (`Run`) and of the two timers (`Timeout`, `Retry`), nothing about the service: an attempt
  ends because its timeout does, and since the timeout is outside the bulkhead it also covers the wait for a slot. Weak fairness is enough
  because the semaphore is first come, first served.
- `AgentLoop`: weak fairness of each request's next step. Models end by their timeouts.
- `UserData`: a client that has not been told of success asks again (weak), no store fails every time that it is asked (strong, per store, and for the
  sessions per kind of command: LRANGE, and the deletes with the DEL of the list), and the end of a deletion is reached when its last step stays possible (weak). Nothing is assumed of crashes, except that they do not prevent
  the steps for ever, which the strong fairness says.
- `TieredCache`: weak fairness of a woken caller and of a fetcher, which returns or raises. The lock is first come, first served, so a newcomer
  never overtakes those who wait.

Cancellations, failures, expiry, crashes and the clock are never fair.

## What is proved

All theorems are of the form `Spec => ...` for every value of the constants that the named assumptions allow.

**`ParallelExecutorProofs`**: `TypeCorrect`, `OrderCorrect`, `AcceptanceCorrect` (`AcceptsExactly`), `DependenciesCorrect`, `PermitsCorrect`,
`LevelsCorrect`, `ResultsCorrect`, `Refinement` (`ImplementsDag`), for every batch. The inductive invariant (`Invariance`) says, phase by phase, what
the in-degrees count (the listed dependencies not yet sorted, repetitions included), that the order is closed under dependencies, that levels
partition what has been grouped, and who holds permits. It is needed because each of the properties speaks of one phase and depends on what the
phases before left behind.

**`ResilientCallProofs`**: `TypeCorrect`, `SlotsCorrect`, `WakeupsCorrect`, `AttemptsCorrect`, `TripCorrect`, `OpenHoldsCorrect`, for every number of
callers, slots and attempts. The invariant ties the free slots, the queue without repetitions, and the callers' places together by
cardinalities; the attempt number to the configuration; and the breaker's counter to the calls recorded since it was closed.

**`AgentLoopProofs`**: `TypeCorrect`, `HistoryCorrect`, `RefinementsCorrect`, `AcceptedCorrect`, `ContextCorrect`, `KeepsHistoryCorrect`, for every set of
requests and any `max_refinement_attempts`. The invariant bounds, for each node a request can be at, the responses added since its own message
by the attempts it has used; this has to hold for whatever number an earlier request left in the checkpoint. `KeepsHistory` needs that the log
of a request nobody overlapped is the head of the checkpoint and of every copy loaded after it.

**`TieredCacheProofs`**: `TypeCorrect`, `NoStampedeCorrect`, `StaleCorrect`, for every number of instances and callers and every two ttls. `TypeOK`
says who owns a lock and who is in its queue and is inductive; lemmas about appending to, taking the head from and removing from a queue
without repetitions carry it. `NoStampede` follows: the owner of the lock is the only caller that fetches under it. `StaleBounded` is
stated with the time an entry has left (`age + left`), which makes it inductive: a promotion adds `l1_ttl` to an age below `ttl`.

**`ApiKeysProofs`**: `TypeCorrect`, `QuotaCorrect`, `StaleCorrect`, `LostCorrect`, for every number of requests, secrets, every quota and all durations.
The invariant says of each copy a request holds what is said of the attributes: typed, within the quota, no secret twice. That is why two creations that
pass the check together cannot exceed it. A copy nobody has overtaken is the attributes but for its own key (`Fresh`), which gives
`LostOnlyByOverlap`; and a secret that a validation found was valid when it began, at most `Latency` ago (`Timely`), which bounds what it caches.

**`UserDataProofs`**: `TypeCorrect`, `ErasedCorrect`, `ExportCorrect`, for every number of clients, updates, exports and items. The invariant speaks of a
deletion by the step it has reached: if nothing has failed, what it found when it began is in no store it has passed, but for preferences some
update still holds; and of an export likewise: what it owes is in a store it has still to read. While the sessions are gone through, it speaks of each id: a
session found and still alive is among the ids read and not yet deleted, one that is owed is among those not yet read. Since a list may go at any
time, no part of it relates the list to what is alive. Both need that items are never made
twice and never change their store, and that a row has a profile.

**`SessionTimeoutProofs`**: `StoreTypeCorrect` and, with the middleware in front, `TypeCorrect`, `IndexCorrect`, `LimitCorrect`,
`TerminationCorrect`, `IdleCorrect`, `GoneSessionsStayGone`, `Refinement` (`ImplementsSessionStore`), for any users, lifetimes, limit and timeout. Every operation is one of four kinds of
step: it deletes some sessions and marks others as used (`Shrinks`), it renews one (`Renews`), it lets time pass (`Waits`), or it is `create`,
which evicts before it appends; each invariant is shown once per kind. `IndexConsistent` says that a list is increasing, because `create` appends the
newest id; lemmas about `Without` say that removing ids keeps that and drops nothing else. `WithinLimit` needs a limit above 0: with 0, `create` evicts nothing
that is there and appends one. It follows from lists no longer than the limit (`ShortLists`) and their agreement with the dict. `TerminationIsFinal` rests
on `GoneForGood`, an action property of its own: no step stores an id that was given out and is not stored. `IdleNotServed` is proved without
sliding window, under which it is false (`SessionTimeoutSliding`); the invariant is that what the store calls an access is no later than the
client's last use. `Refinement` holds for every limit, 0 included. It maps each operation to the one of its name and each request to a read, a
revocation or an update whose answer the middleware keeps; the step that takes work is `create`: that the list is increasing makes its length the number of
the user's sessions (`IncreasingCounts`) and its head the oldest of them (`HeadIsOldest`).

**`SessionStoreRedisProofs`**: `TypeCorrect`, `RevokedCorrect`, `ExpiryCorrect`, `ListingCorrect`, `RevocationCorrect`, for any users, callers, methods in
use and limit. What a caller will do is the list of commands it has still to send, so the invariant (`TypeAndOrder`) has to say which lists
occur: the commands are typed, each two of one method come in an order the code has (`Before`: nothing precedes the EXPIRE of a
new session but commands about that session, for example), a LREM comes after the DEL, a RPUSH goes to the list of the owner.
Given that order, a revoked hash can only come back without its fields (`RevokedUnreadable`), and a hash without end is one whose EXPIRE its creator has
still to send, unless a caller stopped (`SessionsExpire`). `LiveAreListed` is inductive with the two: a LREM is only ever of a session that was
revoked (`ListedKept`), and the RPUSH of a session is not given up (`StaysSending`). `RevokesListed` needs `Doomed`: whoever is going to delete the list
has a delete() still to send of each id it has read whose session is alive, and by the order of the commands nothing is left of it when the list's turn comes. No
theorem assumes that callers keep out of each other's way, or anything of the lifetimes.

Only model-checked: all liveness (`Terminates`, `CallsEnd`, `TurnsEnd`, `GetsEnd`, `GoneAtLast`), which is outside what the installed provers do, as are
induction over data and RECURSIVE operators; the modules that are proved about declare none. Every other property of a run that passes is
a theorem. The lemmas about `Without` are stated in both modules of session proofs.

## Where code and documents disagree

Shown by a run (`findings` in `PROJECT.json` quotes the documents):

- `SessionTimeoutSliding`: with the default sliding window the middleware never refuses an idle session (`middleware/session_timeout.py:83`).
- `RedisLimit`: ids of expired sessions stay on a user's list and disable the limit (`auth/session.py:583`).
- `BreakerTrip`: successes move the counter that opens the breaker (`resilience/circuit_breaker.py:280`).
- `ServerTurn`: with the servers' own input the graph raises `TypeError` at the first response (`core/agent.py:658`).

Met while reading; behaviours of the models, without a run of their own:

- Repeated or unknown dependencies are reported as a circular dependency (`core/parallel_executor.py:195, 206-214`).
- A `get()` that is overtaken by a `delete()` re-creates the session's key with one field and no time to live, and later calls raise on it
  (`auth/session.py:655-668`), though a session that is not there is `None` for all of them (145).
- `refresh()` and `update()` of the in-memory store revive a session past its end that no `get()` has met (`auth/session.py:387`).
- `delete_inactive_sessions` deletes what an earlier scan found, used since or not (`auth/session.py:820`).
- `rotate_api_key` leaves the old key in the cache (`auth/api_keys.py:477-528`), and a look-up may cache a key just after its revocation (389); `api/api_keys.py:157` says
  "The old key is invalidated immediately.", and line 189, of revoking, "Any clients using this key will immediately lose access." What holds is `StaleBounded`.
- A cached key that has expired is dropped from the cache and is the answer all the same (`auth/api_keys.py:308-314`).
- Two requests about different keys of a user may lose one of them or restore a revoked one, since each puts all attributes; a look-up puts too
  (`auth/api_keys.py:378`).
- `DELETE /me` hands no OpenFGA client to the deletion (`api/gdpr.py`), so the tuples its description lists are never deleted; the method that
  would do so returns 0 (`compliance/gdpr/data_deletion.py:258`).
- All anonymized audit entries have the user "anonymized", where the documentation speaks of a hash; the hash in the deletion's record is Python's
  `hash()`, which differs between processes.
- No code in `src/` creates a user profile, on which every row depends; `PATCH /me` stores nothing.
- An export reads 1000 audit entries at most (`compliance/gdpr/data_export.py:347`) and exports a failing store as empty, though it is a
  "Complete user data export" (90); the CSV format leaves the audit log out.
- A session made after the first step of a deletion, and an audit entry made after the fifth, survive it. `Erased` is about what there was before.
- A sliding window does not extend `expires_at` (`auth/session.py:364`; `docs/guides/redis-sessions.mdx:265`), and a limit of 0 is not
  "unlimited" (line 280): the memory store keeps one session, the Redis store raises `IndexError` (585).
- The dry-run sweep of the Redis store refreshes what it inspects (`auth/session.py:793, 668`); the in-memory sweep does so before it compares (465).
- `delete_user_sessions` misses sessions that outlive the user's list, after a refresh or with mixed lifetimes (614, 764), and those whose id is pushed
  after it read the list or never (609-613), though it is to "Delete all sessions for a user" (762).
- So over Redis a deletion of the account reports success, and an export is made without an error, while a live session is neither deleted nor exported:
  "an irreversible operation that removes all user data" (`compliance/gdpr/data_deletion.py:117`), "All sessions" (`api/gdpr.py:318`), "Export all user
  data" (116). `Erased`, `ExportComplete` and `GoneAtLast` except these sessions.
- A deletion deletes the user's consents, by a step of its own (`compliance/gdpr/data_deletion.py:157-158`) and once more with the profile (ON DELETE CASCADE). The
  schema that has the cascade says of consents "Retention: 7 years" and "NEVER deleted (compliance requirement)" (`migrations/001_gdpr_schema.sql:70-71`), and the method that deletes them says
  "Normally consents are kept for 7 years even after user deletion" (`compliance/gdpr/postgres_storage.py:447`), and the endpoint's list
  of what is deleted and what is kept (`api/gdpr.py:316-324`) names them in neither. The models follow the code: `Erased` covers consents.
- A call let through before the breaker opened counts when it fails after it was closed again, and its retries go on while it is open
  (`resilience/circuit_breaker.py:297`, `resilience/retry.py:529`).
- The half-open state lets every caller through as soon as the trial's coroutine has been created, before it has been awaited
  (`resilience/circuit_breaker.py:241`; `adr/adr-0030-resilience-patterns.md:64` says one test request).
- `should_retry_exception` is never called, so client errors are retried too (`resilience/retry.py:404, 482`).
- "Remove the failed response" (`core/agent.py:786`), compaction (391) and dynamic context (356) change a node's copy of the state and have no
  effect on what later nodes see.
- The branch of `use_tools` without tool calls says it should not be reached (`core/agent.py:494`); it is the only one the graph's inputs reach.
- Requests that overlap on one thread overwrite each other's messages: the last checkpoint wins. `KeepsHistory` is what holds.
- "Stale data for TTL duration" (`adr/adr-0028-caching-strategy.md:496`) is ttl + `l1_ttl` because of promotion, and a deletion on one instance leaves
  other instances' L1, and fetches under way, as they are.

## What is not modelled

`PROJECT.json` gives the reason for each component listed as `not_modelled`. In short: most of the repository by lines is request handling, clients of
external services, generated API clients, scripts, validators and tests, without state that outlives a call. What has state but is left out: elicitation,
sampling and tasks are dictionaries whose handlers never give way between reading and writing; approvals and the multi-agent patterns are installed by no
other part of `src/`; budgets are sums under locks; service principals are sequences of Keycloak calls like those of `ApiKeys`, without its cache. The
adaptive bulkhead (`resilience/adaptive.py`) is imported by no other module; reading it shows a lock taken twice in `get_stats` and a semaphore that is
replaced while slots are held.

Of the modelled components: logging, metrics and tracing everywhere; the contents of messages, prompts and tool results; public
paths and the fail-open branch of the session middleware (any error of the store lets a request through, `middleware/session_timeout.py:112`), and that
middleware over the Redis store; the synchronous wrappers of the decorators; the branch of `use_tools` with tool calls; statistics, key building and
prompt caching of `core/cache.py`; names, scopes and times of last use of API keys; the in-memory stores of `compliance/gdpr`, which are made
anew for every request; fields of the profile, and changes inside a conversation or consent.

## Plan

Done, in this order: `DagExecution` and `ParallelExecutor` with their proofs; `SessionStoreMemory` and `SessionTimeout`; `SessionStoreRedis`; `ResilientCall` with its
proofs; `AgentLoop` with its proofs; `TieredCache` with its proofs; `ApiKeys` and `UserData` with theirs; the proofs about both session stores, and `SessionStore`.

Next:

1. `RedisSessionTimeout`: the middleware over the Redis store, where a request is refused in several commands and another one of the same session may come
   between them (`middleware/session_timeout.py:83`). It composes `SessionTimeout` with `SessionStoreRedis`.
2. Theorems that follow from the invariants at hand and that no run states yet: for one caller whose list does not expire, that each call of the Redis
   store answers as `SessionStore` does but for evictions.
