---------------------------- MODULE SessionStore ----------------------------
(***************************************************************************)
(* auth/session.py: what SessionStore, the base class of the stores,       *)
(* promises its callers, without the lists of ids per user, the times of   *)
(* access and the sliding window by which a store keeps the promise.       *)
(*                                                                         *)
(* There is one map of sessions.  The sessions of a user are those of the  *)
(* map with that user; a session that has expired stays in the map until   *)
(* it is read, and no read returns it.                                     *)
(***************************************************************************)
EXTENDS Naturals, FiniteSets

CONSTANTS Users,
          Lifetimes,      \* ttl_seconds, given or by default
          MaxConcurrent,
          MaxSessions, MaxTime   \* bounds

VARIABLES now,
          held,      \* session id -> its user and its end
          nextId,
          told       \* what the last call answered its caller

vars == <<now, held, nextId, told>>

Of(u) == {s \in DOMAIN held : held[s].user = u}

Live(ids) == {s \in ids : now <= held[s].expiresAt}

Oldest(ids) == {s \in ids : \A t \in ids : s <= t}

Keep(ids) == held' = [s \in ids |-> held[s]]

(* The middleware keeps the answers of its own calls to itself.            *)
Answer(op, ids) ==
  told' \in {[op |-> op, ids |-> ids], [op |-> "none", ids |-> {}]}

Init ==
  /\ now = 0
  /\ held = <<>>
  /\ nextId = 1
  /\ told = [op |-> "none", ids |-> {}]

Tick ==
  /\ now < MaxTime
  /\ now' = now + 1
  /\ Answer("none", {})
  /\ UNCHANGED <<held, nextId>>

(* At the limit the user's oldest session makes room.                      *)
Create(u, ttl) ==
  LET evicted == IF Cardinality(Of(u)) >= MaxConcurrent THEN Oldest(Of(u)) ELSE {}
  IN  /\ nextId <= MaxSessions
      /\ held' = [s \in (DOMAIN held \ evicted) \cup {nextId} |->
                    IF s = nextId THEN [user |-> u, expiresAt |-> now + ttl]
                                  ELSE held[s]]
      /\ nextId' = nextId + 1
      /\ Answer("create", {nextId})
      /\ UNCHANGED now

(* Reading the sessions of ids returns those that have not expired and     *)
(* forgets the others.                                                     *)
Read(op, ids) ==
  /\ Keep(DOMAIN held \ (ids \ Live(ids)))
  /\ Answer(op, Live(ids))
  /\ UNCHANGED <<now, nextId>>

Revoke(op, ids) ==
  /\ ids # {}
  /\ Keep(DOMAIN held \ ids)
  /\ Answer(op, ids)
  /\ UNCHANGED <<now, nextId>>

Update(s) ==
  /\ s \in DOMAIN held
  /\ Answer("update", {s})
  /\ UNCHANGED <<now, held, nextId>>

Refresh(s, ttl) ==
  /\ s \in DOMAIN held
  /\ held' = [held EXCEPT ![s].expiresAt = now + ttl]
  /\ Answer("refresh", {s})
  /\ UNCHANGED <<now, nextId>>

(* Which of the live sessions are idle is left to the store.               *)
GetInactive(idle) ==
  /\ Keep(Live(DOMAIN held))
  /\ Answer("inactive", idle)
  /\ UNCHANGED <<now, nextId>>

DeleteInactive(idle) ==
  /\ Keep(Live(DOMAIN held) \ idle)
  /\ Answer("deleteInactive", idle)
  /\ UNCHANGED <<now, nextId>>

Next ==
  \/ Tick
  \/ \E u \in Users : \/ \E ttl \in Lifetimes : Create(u, ttl)
                      \/ Read("list", Of(u))
                      \/ Revoke("deleteAll", Of(u))
  \/ \E s \in 1..MaxSessions : \/ Read("get", {s} \cap DOMAIN held)
                               \/ Update(s)
                               \/ \E ttl \in Lifetimes : Refresh(s, ttl)
                               \/ Revoke("delete", {s} \cap DOMAIN held)
  \/ \E idle \in SUBSET Live(DOMAIN held) : GetInactive(idle) \/ DeleteInactive(idle)

Spec == Init /\ [][Next]_vars
=============================================================================
