------------------------- MODULE SessionStoreRedis --------------------------
(***************************************************************************)
(* auth/session.py: RedisSessionStore.                                     *)
(*                                                                         *)
(* A session is a Redis hash with a time to live, and every user has a     *)
(* Redis list of session ids with a time to live of its own.  Redis runs   *)
(* each command atomically; a method of the store is several commands, and *)
(* those of different callers interleave.  A caller is the list of the     *)
(* commands it has still to send; a command may put others in front (the   *)
(* method it belongs to calls another one) or drop the rest (the method    *)
(* returns or raises).  A caller may also stop between two commands, as    *)
(* when its process dies or the connection breaks.                         *)
(*                                                                         *)
(* Of a hash only three things matter: whether create() wrote all of its   *)
(* fields (HSET on a missing key makes a new hash that has only the fields *)
(* it names), its last_accessed, and when Redis drops it.  One SCAN page   *)
(* holds all keys.                                                         *)
(***************************************************************************)
EXTENDS Naturals, Sequences, FiniteSets, Functions, SequencesExt, SessionLists

CONSTANTS Users,
          Callers,
          Calls,          \* the methods callers use
          MaxCalls,       \* bound: method calls in one behaviour
          MaxAborts,      \* bound: callers that stop half-way
          MaxSessions,    \* bound: sessions created
          MaxTime,        \* bound: the clock stops here
          Ttls,           \* lifetimes in use
          ExtraHour,      \* what the list outlives its last session by
          SlidingWindow,
          MaxConcurrent   \* max_concurrent_sessions

ASSUME BoundAssumption ==
  {MaxCalls, MaxAborts, MaxSessions, MaxTime} \subseteq Nat
ASSUME TtlAssumption == Ttls \subseteq Nat \ {0} /\ ExtraHour \in Nat
ASSUME SlidingAssumption == SlidingWindow \in BOOLEAN
ASSUME LimitAssumption == MaxConcurrent \in Nat \ {0}

VARIABLES
  now,
  hash,      \* session id -> its hash; the ids Redis has a key for
  lists,     \* user -> the user's list; empty when Redis has no key
  todo,      \* caller -> commands it has still to send
  found,     \* caller -> inactive sessions its scan has collected
  nextId,    \* next session id
  owner,     \* session id -> user it was created for
  calls,     \* method calls so far
  aborts,    \* callers stopped so far
  revoked,   \* history: sessions whose key a DEL removed
  unlisted   \* history: sessions on a list when it was dropped or expired

store == <<now, hash, lists, nextId, owner, unlisted>>

vars == <<store, todo, found, calls, aborts, revoked>>

Sids == 1..MaxSessions

Forever == 0            \* the deadline of a key without time to live

Stored == DOMAIN hash

Alive(s) == s \in Stored /\ hash[s].full

NoList == [ids |-> <<>>, deadline |-> Forever]

Over(key, t) == key.deadline # Forever /\ key.deadline <= t

----------------------------------------------------------------------------
Init ==
  /\ now = 0
  /\ hash = <<>>
  /\ lists = [u \in Users |-> NoList]
  /\ todo = [w \in Callers |-> <<>>]
  /\ found = [w \in Callers |-> {}]
  /\ nextId = 1
  /\ owner = <<>>
  /\ calls = 0
  /\ aborts = 0
  /\ revoked = {}
  /\ unlisted = {}

(* Time passes and Redis drops the keys whose time has come.               *)
Tick ==
  /\ now < MaxTime
  /\ now' = now + 1
  /\ hash' = Restrict(hash, {s \in Stored : ~Over(hash[s], now')})
  /\ lists' = [u \in Users |-> IF Over(lists[u], now') THEN NoList ELSE lists[u]]
  /\ unlisted' = unlisted \cup
       UNION {Range(lists[u].ids) : u \in {v \in Users : Over(lists[v], now')}}
  /\ UNCHANGED <<todo, found, nextId, owner, calls, aborts, revoked>>

----------------------------------------------------------------------------
(* The methods, as the commands they begin with.                           *)

ReadCmd(s, cutoff) == [c |-> "read", s |-> s, cutoff |-> cutoff, must |-> FALSE]

GetCmd(s) == ReadCmd(s, 0)

DeleteCmd(s) == [c |-> "owner", s |-> s]

UpdateCmds(s) ==
  <<[c |-> "exists", s |-> s],
    [c |-> "read", s |-> s, cutoff |-> 0, must |-> TRUE],
    [c |-> "meta", s |-> s]>>

RefreshCmds(s, ttl) ==
  <<[c |-> "exists", s |-> s], [c |-> "extend", s |-> s],
    [c |-> "ttl", s |-> s, ttl |-> ttl]>>

CreateCmds(u, ttl) ==
  <<[c |-> "limit", u |-> u], [c |-> "store", u |-> u, ttl |-> ttl]>>

Call(w, op, cmds) ==
  /\ op \in Calls
  /\ calls < MaxCalls
  /\ todo[w] = <<>>
  /\ calls' = calls + 1
  /\ todo' = [todo EXCEPT ![w] = cmds]
  /\ found' = [found EXCEPT ![w] = {}]
  /\ UNCHANGED <<store, aborts>>

CallCreate(w) ==
  /\ \E u \in Users, ttl \in Ttls : Call(w, "create", CreateCmds(u, ttl))
  /\ UNCHANGED revoked

CallOnSession(w) ==
  \E s \in 1..(nextId - 1) :
    /\ \/ Call(w, "get", <<GetCmd(s)>>)
       \/ Call(w, "update", UpdateCmds(s))
       \/ \E ttl \in Ttls : Call(w, "refresh", RefreshCmds(s, ttl))
       \/ Call(w, "delete", <<DeleteCmd(s)>>)
    /\ UNCHANGED revoked

CallOnUser(w) ==
  /\ \E u \in Users :
       \/ Call(w, "list", <<[c |-> "members", u |-> u]>>)
       \/ Call(w, "revokeAll", <<[c |-> "membersToDelete", u |-> u]>>)
  /\ UNCHANGED revoked

CallInactive(w) ==
  /\ \E cutoff \in 1..now :
       \/ Call(w, "inactive", <<[c |-> "scan", cutoff |-> cutoff],
                                [c |-> "report", cutoff |-> cutoff]>>)
       \/ Call(w, "deleteInactive", <<[c |-> "scan", cutoff |-> cutoff],
                                      [c |-> "sweep"]>>)
  /\ UNCHANGED revoked

(* A caller's process dies, or its next command finds no connection.       *)
Abort(w) ==
  /\ todo[w] # <<>>
  /\ aborts < MaxAborts
  /\ aborts' = aborts + 1
  /\ todo' = [todo EXCEPT ![w] = <<>>]
  /\ UNCHANGED <<store, found, calls, revoked>>

----------------------------------------------------------------------------
(* Sending a command.                                                      *)

Cmd(w) == Head(todo[w])

Sends(w, c) == todo[w] # <<>> /\ Cmd(w).c = c

(* The method goes on with cmds, then with what it still had to do.        *)
Then(w, cmds) == todo' = [todo EXCEPT ![w] = cmds \o Tail(todo[w])]

(* The method returns or raises.                                           *)
Ends(w) == todo' = [todo EXCEPT ![w] = <<>>]

(* HSET of some fields, last_accessed among them: a missing key is made,   *)
(* with these fields only and no time to live; an existing one keeps its.  *)
HSet(s) ==
  hash' = [t \in Stored \cup {s} |->
             IF t # s THEN hash[t]
             ELSE IF s \in Stored THEN [hash[s] EXCEPT !.lastAccessed = now]
             ELSE [full |-> FALSE, lastAccessed |-> now, deadline |-> Forever]]

(* Mutant of Touch: the session that was read is written back whole.       *)
TouchWritingBack(w) ==
  /\ Sends(w, "touch")
  /\ LET s == Cmd(w).s
     IN  hash' = [t \in Stored \cup {s} |->
                    IF t # s THEN hash[t]
                    ELSE [full |-> TRUE, lastAccessed |-> now,
                          deadline |-> IF s \in Stored THEN hash[s].deadline
                                                       ELSE Forever]]
  /\ Then(w, <<>>)
  /\ UNCHANGED <<now, lists, nextId, owner, unlisted, found, calls, aborts, revoked>>

(* get(): HSET last_accessed.                                              *)
Touch(w) ==
  /\ Sends(w, "touch")
  /\ HSet(Cmd(w).s)
  /\ Then(w, <<>>)
  /\ UNCHANGED <<now, lists, nextId, owner, unlisted, found, calls, aborts, revoked>>

(* get(): HGETALL.  A missing key: None.  A hash without user_id: the      *)
(* constructor of SessionData raises, and so do all callers of get().      *)
Read(w) ==
  /\ Sends(w, "read")
  /\ LET s == Cmd(w).s
         touch == IF SlidingWindow THEN <<[c |-> "touch", s |-> s]>> ELSE <<>>
     IN  \/ /\ s \notin Stored
            /\ IF Cmd(w).must THEN Ends(w) ELSE Then(w, <<>>)
            /\ UNCHANGED found
         \/ /\ s \in Stored
            /\ ~hash[s].full
            /\ Ends(w)
            /\ UNCHANGED found
         \/ /\ Alive(s)
            /\ found' = IF hash[s].lastAccessed < Cmd(w).cutoff
                          THEN [found EXCEPT ![w] = @ \cup {s}] ELSE found
            /\ Then(w, touch)
  /\ UNCHANGED <<store, calls, aborts, revoked>>

(* update(), refresh(): EXISTS.                                            *)
Exists(w) ==
  /\ Sends(w, "exists")
  /\ IF Cmd(w).s \in Stored THEN Then(w, <<>>) ELSE Ends(w)
  /\ UNCHANGED <<store, found, calls, aborts, revoked>>

(* update(): HSET metadata, last_accessed.  refresh(): HSET last_accessed, *)
(* expires_at.                                                             *)
Write(w) ==
  /\ Sends(w, "meta") \/ Sends(w, "extend")
  /\ HSet(Cmd(w).s)
  /\ Then(w, <<>>)
  /\ UNCHANGED <<now, lists, nextId, owner, unlisted, found, calls, aborts, revoked>>

(* refresh(), create(): EXPIRE of the session's key, if there is one.      *)
Expire(w) ==
  /\ Sends(w, "ttl")
  /\ hash' = [t \in Stored |-> IF t = Cmd(w).s
                THEN [hash[t] EXCEPT !.deadline = now + Cmd(w).ttl]
                ELSE hash[t]]
  /\ Then(w, <<>>)
  /\ UNCHANGED <<now, lists, nextId, owner, unlisted, found, calls, aborts, revoked>>

----------------------------------------------------------------------------
(* create() *)

(* Mutant of Limit: the new id is listed before its session is stored.     *)
LimitListingFirst(w) ==
  /\ Sends(w, "limit")
  /\ lists' = [lists EXCEPT ![Cmd(w).u].ids = Append(@, nextId)]
  /\ Then(w, <<>>)
  /\ UNCHANGED <<now, hash, nextId, owner, unlisted, found, calls, aborts, revoked>>

(* LRANGE, and delete() of the id at the head when the list is full.       *)
Limit(w) ==
  /\ Sends(w, "limit")
  /\ LET ids == lists[Cmd(w).u].ids
     IN  Then(w, IF Len(ids) >= MaxConcurrent THEN <<DeleteCmd(ids[1])>> ELSE <<>>)
  /\ UNCHANGED <<store, found, calls, aborts, revoked>>

(* Mutant of AfterStore: the key is never given a time to live.            *)
AfterStoreNoExpire(s, u, ttl) ==
  <<[c |-> "push", s |-> s, u |-> u], [c |-> "listTtl", u |-> u, ttl |-> ttl]>>

(* Mutant of AfterStore: the session is not added to the user's list.      *)
AfterStoreUnlisted(s, u, ttl) ==
  <<[c |-> "ttl", s |-> s, ttl |-> ttl],
    [c |-> "listTtl", u |-> u, ttl |-> ttl]>>

AfterStore(s, u, ttl) ==
  <<[c |-> "ttl", s |-> s, ttl |-> ttl], [c |-> "push", s |-> s, u |-> u],
    [c |-> "listTtl", u |-> u, ttl |-> ttl]>>

(* HSET of all fields of a new session.                                    *)
StoreSession(w) ==
  /\ Sends(w, "store")
  /\ nextId <= MaxSessions
  /\ LET u == Cmd(w).u
     IN  /\ hash' = [t \in Stored \cup {nextId} |->
                       IF t = nextId
                       THEN [full |-> TRUE, lastAccessed |-> now, deadline |-> Forever]
                       ELSE hash[t]]
         /\ owner' = Append(owner, u)
         /\ Then(w, AfterStore(nextId, u, Cmd(w).ttl))
  /\ nextId' = nextId + 1
  /\ UNCHANGED <<now, lists, unlisted, found, calls, aborts, revoked>>

(* RPUSH *)
Push(w) ==
  /\ Sends(w, "push")
  /\ lists' = [lists EXCEPT ![Cmd(w).u].ids = Append(@, Cmd(w).s)]
  /\ Then(w, <<>>)
  /\ UNCHANGED <<now, hash, nextId, owner, unlisted, found, calls, aborts, revoked>>

(* EXPIRE of the list, an hour after this session's end; nothing happens   *)
(* when the list is gone again.                                            *)
ExpireList(w) ==
  /\ Sends(w, "listTtl")
  /\ LET u == Cmd(w).u
     IN  lists' = IF lists[u].ids = <<>> THEN lists
                  ELSE [lists EXCEPT ![u].deadline = now + Cmd(w).ttl + ExtraHour]
  /\ Ends(w)
  /\ UNCHANGED <<now, hash, nextId, owner, unlisted, found, calls, aborts, revoked>>

----------------------------------------------------------------------------
(* delete() *)

(* HGET user_id *)
Owner(w) ==
  /\ Sends(w, "owner")
  /\ Then(w, <<[c |-> "del", s |-> Cmd(w).s, known |-> Alive(Cmd(w).s)]>>)
  /\ UNCHANGED <<store, found, calls, aborts, revoked>>

(* DEL; LREM follows only if a key was deleted and its user was known.     *)
Del(w) ==
  /\ Sends(w, "del")
  /\ LET s == Cmd(w).s
     IN  /\ hash' = Restrict(hash, Stored \ {s})
         /\ revoked' = IF s \in Stored THEN revoked \cup {s} ELSE revoked
         /\ Then(w, IF s \in Stored /\ Cmd(w).known
                    THEN <<[c |-> "unlist", s |-> s]>> ELSE <<>>)
  /\ UNCHANGED <<now, lists, nextId, owner, unlisted, found, calls, aborts>>

(* LREM; Redis drops a list that becomes empty.                            *)
Unlist(w) ==
  /\ Sends(w, "unlist")
  /\ LET u == owner[Cmd(w).s]
         ids == Without(lists[u].ids, {Cmd(w).s})
     IN  lists' = [lists EXCEPT ![u] = IF ids = <<>> THEN NoList
                                       ELSE [@ EXCEPT !.ids = ids]]
  /\ Then(w, <<>>)
  /\ UNCHANGED <<now, hash, nextId, owner, unlisted, found, calls, aborts, revoked>>

----------------------------------------------------------------------------
(* The methods that go through several sessions.                           *)

(* list_user_sessions(): LRANGE, then get() of every id.                   *)
Members(w) ==
  /\ Sends(w, "members")
  /\ LET ids == lists[Cmd(w).u].ids
     IN  Then(w, [i \in DOMAIN ids |-> GetCmd(ids[i])])
  /\ UNCHANGED <<store, found, calls, aborts, revoked>>

DropListCmd(u, ids) == [c |-> "dropList", u |-> u, ids |-> ids]

(* Mutant of MembersToDelete: the last id is left out.                     *)
MembersToDeleteButLast(w) ==
  /\ Sends(w, "membersToDelete")
  /\ LET u == Cmd(w).u
         ids == lists[u].ids
     IN  Then(w, Append([i \in 1..(Len(ids) - 1) |-> DeleteCmd(ids[i])],
                        DropListCmd(u, Range(ids))))
  /\ UNCHANGED <<store, found, calls, aborts, revoked>>

(* delete_user_sessions(): LRANGE, delete() of every id, DEL of the list.  *)
MembersToDelete(w) ==
  /\ Sends(w, "membersToDelete")
  /\ LET u == Cmd(w).u
         ids == lists[u].ids
     IN  Then(w, Append([i \in DOMAIN ids |-> DeleteCmd(ids[i])],
                        DropListCmd(u, Range(ids))))
  /\ UNCHANGED <<store, found, calls, aborts, revoked>>

(* delete_user_sessions(): DEL of the list, whatever is on it by now.      *)
DropList(w) ==
  /\ Sends(w, "dropList")
  /\ LET u == Cmd(w).u
     IN  /\ lists' = [lists EXCEPT ![u] = NoList]
         /\ unlisted' = unlisted \cup Range(lists[u].ids)
  /\ Ends(w)
  /\ UNCHANGED <<now, hash, nextId, owner, found, calls, aborts, revoked>>

(* get_inactive_sessions(): SCAN, then get() of every key, in any order.   *)
Scan(w) ==
  /\ Sends(w, "scan")
  /\ \E keys \in SetToSeqs(Stored) :
       Then(w, [i \in DOMAIN keys |-> ReadCmd(keys[i], Cmd(w).cutoff)])
  /\ UNCHANGED <<store, found, calls, aborts, revoked>>

Report(w) ==
  /\ Sends(w, "report")
  /\ Ends(w)
  /\ UNCHANGED <<store, found, calls, aborts, revoked>>

(* delete_inactive_sessions(): delete() of every session found.            *)
Sweep(w) ==
  /\ Sends(w, "sweep")
  /\ \E ids \in SetToSeqs(found[w]) :
       Then(w, [i \in DOMAIN ids |-> DeleteCmd(ids[i])])
  /\ UNCHANGED <<store, found, calls, aborts, revoked>>

Next ==
  \/ Tick
  \/ \E w \in Callers :
       \/ CallCreate(w) \/ CallOnSession(w) \/ CallOnUser(w) \/ CallInactive(w)
       \/ Abort(w)
       \/ Read(w) \/ Touch(w) \/ Exists(w) \/ Write(w) \/ Expire(w)
       \/ Limit(w) \/ StoreSession(w) \/ Push(w) \/ ExpireList(w)
       \/ Owner(w) \/ Del(w) \/ Unlist(w)
       \/ Members(w) \/ MembersToDelete(w) \/ DropList(w)
       \/ Scan(w) \/ Report(w) \/ Sweep(w)

Spec == Init /\ [][Next]_vars

----------------------------------------------------------------------------
(* Types: keys, lists and the ids in flight belong to created sessions.    *)
TypeOK ==
  /\ now \in 0..MaxTime
  /\ Stored \subseteq 1..(nextId - 1)
  /\ owner \in [1..(nextId - 1) -> Users]
  /\ \A s \in Stored : hash[s] \in [full : BOOLEAN, lastAccessed : 0..now,
                                    deadline : Nat]
  /\ \A u \in Users : Range(lists[u].ids) \subseteq 1..(nextId - 1)

(* A session that was revoked can never be read again, even if a method    *)
(* that was under way writes to its key after the DEL.                     *)
RevokedUnreadable == \A s \in revoked : ~Alive(s)

Sending(s, cs) ==
  \E w \in Callers : \E i \in DOMAIN todo[w] :
    todo[w][i].c \in cs /\ todo[w][i].s = s

(* A whole session without a time to live is one whose create() has not    *)
(* sent EXPIRE yet, or was stopped before it could.                        *)
SessionsExpire ==
  aborts = 0 =>
    \A s \in Stored :
      hash[s].full /\ hash[s].deadline = Forever => Sending(s, {"ttl"})

(* A live session is on its user's list, as listing and revoking by user   *)
(* require, unless its create() has RPUSH still to send, or the list it    *)
(* was on went before it: by its own time to live (session.py:614), or by  *)
(* the DEL of delete_user_sessions() (774).  Nothing else, no overlap of   *)
(* methods and no eviction, takes it off, as long as no caller stops.      *)
LiveAreListed ==
  aborts = 0 =>
    \A s \in Stored : Alive(s) =>
      s \in Range(lists[owner[s]].ids) \cup unlisted \/ Sending(s, {"push"})

(* delete_user_sessions "Delete all sessions for a user": when it comes to *)
(* drop the list, none of the sessions it has read from it is alive,       *)
(* whatever other callers have done to them, or do at the same time.  Of   *)
(* sessions it has not read LiveAreListed says how they come about.        *)
RevokesListed ==
  \A w \in Callers : Sends(w, "dropList") => \A s \in Cmd(w).ids : ~Alive(s)

(* "max_concurrent_sessions: Max sessions per user", with callers that     *)
(* never overlap when there is only one.                                   *)
WithinLimit ==
  \A u \in Users :
    Cardinality({s \in Stored : Alive(s) /\ owner[s] = u}) <= MaxConcurrent

=============================================================================
