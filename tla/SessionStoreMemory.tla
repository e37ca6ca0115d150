------------------------- MODULE SessionStoreMemory -------------------------
(***************************************************************************)
(* auth/session.py: InMemorySessionStore.                                  *)
(*                                                                         *)
(* The store keeps the sessions and, for every user, the list of the       *)
(* user's session ids, oldest first.  Its methods are coroutines that      *)
(* never suspend, so each is one step; time passes between them.  Nothing  *)
(* sweeps the store: a session past its expires_at stays in it until a     *)
(* get() meets it.                                                         *)
(*                                                                         *)
(* Abstracted: session ids are random tokens, numbered here in the order   *)
(* create() hands them out; username, roles, metadata and created_at are   *)
(* left out, as no decision of the store reads them; a user without an     *)
(* entry in user_sessions has the empty list.                              *)
(***************************************************************************)
EXTENDS Naturals, Sequences, FiniteSets, Functions, SessionLists

CONSTANTS Users,
          MaxSessions,    \* bound: sessions created in one behaviour
          MaxTime,        \* bound: the clock stops here
          Ttls,           \* what callers pass as ttl_seconds
          DefaultTtl,
          SlidingWindow,
          MaxConcurrent   \* max_concurrent_sessions

ASSUME TtlAssumption == /\ Ttls \subseteq Nat \ {0}
                        /\ DefaultTtl \in Nat \ {0}
ASSUME LimitAssumption == MaxConcurrent \in Nat
ASSUME SlidingAssumption == SlidingWindow \in BOOLEAN
ASSUME BoundAssumption == MaxSessions \in Nat /\ MaxTime \in Nat

VARIABLES
  now,
  sessions,      \* session id -> session
  userSessions,  \* user -> ids of the user's sessions
  nextId,        \* the id create() hands out next
  reply          \* the last call: what it was and which sessions it returned

vars == <<now, sessions, userSessions, nextId, reply>>

Sids == 1..MaxSessions

Stored == DOMAIN sessions

Expired(s) == now > sessions[s].expiresAt

(* ttl_seconds or self.default_ttl *)
TtlChoices == Ttls \cup {DefaultTtl}

Reply(op, ids) == [op |-> op, ids |-> ids]

----------------------------------------------------------------------------
(* delete() of every session of ids.                                       *)
Drop(ids) ==
  /\ sessions' = Restrict(sessions, Stored \ ids)
  /\ userSessions' = [u \in Users |-> Without(userSessions[u], ids)]

(* Mutant of Touched: get() moves last_accessed whatever sliding_window.   *)
TouchedAlways(s) == [sessions[s] EXCEPT !.lastAccessed = now]

(* What get() leaves of a session it returns.                              *)
Touched(s) ==
  IF SlidingWindow THEN [sessions[s] EXCEPT !.lastAccessed = now]
                   ELSE sessions[s]

(* Mutant of GetEach: an expired session is popped from sessions only.     *)
GetEachLeavingIndex(ids) ==
  LET dead == {s \in ids : Expired(s)}
  IN  /\ sessions' = [s \in Stored \ dead |->
                        IF s \in ids THEN Touched(s) ELSE sessions[s]]
      /\ UNCHANGED userSessions

(* get() of every session of ids: the expired ones are deleted.            *)
GetEach(ids) ==
  LET dead == {s \in ids : Expired(s)}
  IN  /\ sessions' = [s \in Stored \ dead |->
                        IF s \in ids THEN Touched(s) ELSE sessions[s]]
      /\ userSessions' = [u \in Users |-> Without(userSessions[u], dead)]

----------------------------------------------------------------------------
Init ==
  /\ now = 0
  /\ sessions = <<>>
  /\ userSessions = [u \in Users |-> <<>>]
  /\ nextId = 1
  /\ reply = Reply("none", {})

Tick ==
  /\ now < MaxTime
  /\ now' = now + 1
  /\ reply' = Reply("none", {})
  /\ UNCHANGED <<sessions, userSessions, nextId>>

NewSession(u, ttl) == [user |-> u, lastAccessed |-> now, expiresAt |-> now + ttl]

(* Mutant of Kept: ">" for ">=".                                           *)
KeptOneMore(u) ==
  IF userSessions[u] # <<>> /\ Len(userSessions[u]) > MaxConcurrent
    THEN Tail(userSessions[u])
    ELSE userSessions[u]

(* Mutant of Kept: the newest session makes room, pop() for pop(0).        *)
KeptOldest(u) ==
  IF userSessions[u] # <<>> /\ Len(userSessions[u]) >= MaxConcurrent
    THEN SubSeq(userSessions[u], 1, Len(userSessions[u]) - 1)
    ELSE userSessions[u]

(* The list of a user who is about to get one more session.                *)
Kept(u) ==
  IF userSessions[u] # <<>> /\ Len(userSessions[u]) >= MaxConcurrent
    THEN Tail(userSessions[u])
    ELSE userSessions[u]

Create(u, ttl) ==
  LET evicted == Range(userSessions[u]) \ Range(Kept(u))
  IN  /\ nextId <= MaxSessions
      /\ sessions' = [s \in (Stored \ evicted) \cup {nextId} |->
                        IF s = nextId THEN NewSession(u, ttl) ELSE sessions[s]]
      /\ userSessions' = [userSessions EXCEPT ![u] = Append(Kept(u), nextId)]
      /\ nextId' = nextId + 1
      /\ reply' = Reply("create", {nextId})
      /\ UNCHANGED now

Get(s) ==
  /\ GetEach({s} \cap Stored)
  /\ reply' = Reply("get", {t \in {s} \cap Stored : ~Expired(t)})
  /\ UNCHANGED <<now, nextId>>

Update(s) ==
  /\ s \in Stored
  /\ sessions' = [sessions EXCEPT ![s].lastAccessed = now]
  /\ reply' = Reply("update", {s})
  /\ UNCHANGED <<now, userSessions, nextId>>

(* refresh() does not look at expires_at: it also takes a session that has *)
(* expired and was not met by a get() since.                               *)
Refresh(s, ttl) ==
  /\ s \in Stored
  /\ sessions' = [sessions EXCEPT ![s].lastAccessed = now,
                                  ![s].expiresAt = now + ttl]
  /\ reply' = Reply("refresh", {s})
  /\ UNCHANGED <<now, userSessions, nextId>>

Delete(s) ==
  /\ s \in Stored
  /\ Drop({s})
  /\ reply' = Reply("delete", {s})
  /\ UNCHANGED <<now, nextId>>

ListUserSessions(u) ==
  LET ids == Range(userSessions[u]) \cap Stored
  IN  /\ GetEach(ids)
      /\ reply' = Reply("list", {s \in ids : ~Expired(s)})
      /\ UNCHANGED <<now, nextId>>

DeleteUserSessions(u) ==
  /\ userSessions[u] # <<>>
  /\ Drop(Range(userSessions[u]))
  /\ reply' = Reply("deleteAll", Range(userSessions[u]))
  /\ UNCHANGED <<now, nextId>>

(* Every stored session is read with get(), which returns the stored       *)
(* object itself: its last_accessed is compared after get() has moved it.  *)
Inactive(cutoff) ==
  {s \in Stored : ~Expired(s) /\ Touched(s).lastAccessed < cutoff}

GetInactiveSessions(cutoff) ==
  /\ GetEach(Stored)
  /\ reply' = Reply("inactive", Inactive(cutoff))
  /\ UNCHANGED <<now, nextId>>

DeleteInactiveSessions(cutoff) ==
  LET gone == {s \in Stored : Expired(s)} \cup Inactive(cutoff)
  IN  /\ sessions' = [s \in Stored \ gone |-> Touched(s)]
      /\ userSessions' = [u \in Users |-> Without(userSessions[u], gone)]
      /\ reply' = Reply("deleteInactive", Inactive(cutoff))
      /\ UNCHANGED <<now, nextId>>

Next ==
  \/ Tick
  \/ \E u \in Users : \/ \E ttl \in TtlChoices : Create(u, ttl)
                      \/ ListUserSessions(u)
                      \/ DeleteUserSessions(u)
  \/ \E s \in Sids : \/ Get(s)
                     \/ Update(s)
                     \/ \E ttl \in TtlChoices : Refresh(s, ttl)
                     \/ Delete(s)
  \/ \E cutoff \in 0..now : \/ GetInactiveSessions(cutoff)
                            \/ DeleteInactiveSessions(cutoff)

Spec == Init /\ [][Next]_vars

----------------------------------------------------------------------------
Session == [user : Users, lastAccessed : 0..MaxTime, expiresAt : Nat]

(* Types: ids only below nextId, no session accessed in the future.        *)
TypeOK ==
  /\ now \in 0..MaxTime
  /\ nextId \in 1..(MaxSessions + 1)
  /\ Stored \subseteq 1..(nextId - 1)
  /\ \A s \in Stored : sessions[s] \in Session /\ sessions[s].lastAccessed <= now
  /\ userSessions \in [Users -> Seq(Sids)]

(* The two dicts agree: a user's list holds exactly the user's stored      *)
(* sessions, each once and oldest first, whichever of the ten operations   *)
(* removed sessions from them.                                             *)
IndexConsistent ==
  \A u \in Users :
    LET list == userSessions[u]
    IN  /\ Range(list) = {s \in Stored : sessions[s].user = u}
        /\ \A i, j \in DOMAIN list : i < j => list[i] < list[j]

(* No user ever has more than max_concurrent_sessions sessions.            *)
WithinLimit ==
  \A u \in Users :
    Cardinality({s \in Stored : sessions[s].user = u}) <= MaxConcurrent

(* The store behaves as though there were no lists of ids per user: every  *)
(* answer, and every session that goes or stays, is that of SessionStore,  *)
(* where the sessions of a user are looked for among all of them.          *)
Held == [s \in Stored |-> [user |-> sessions[s].user, expiresAt |-> sessions[s].expiresAt]]

Promise == INSTANCE SessionStore
             WITH held <- Held, told <- reply, Lifetimes <- TtlChoices

ImplementsSessionStore == Promise!Spec

=============================================================================
