----------------------------- MODULE UserData -----------------------------
(***************************************************************************)
(* What is kept about one user (compliance/gdpr): PostgreSQL tables whose  *)
(* rows refer to the user's profile and go with it, the audit log, which   *)
(* does not, and the sessions.  Each operation of the tables is one SQL    *)
(* statement; the deletion of an account and the export of its data are    *)
(* sequences of them, without a transaction, beside whatever else is done  *)
(* for the user.                                                           *)
(*                                                                         *)
(* The sessions are those of RedisSessionStore: a key each, and a list of  *)
(* the user's ids, which is all that deletion and export go by.  An id is  *)
(* pushed on it some commands after the session is stored, or never, and   *)
(* the list has a time to live of its own, or is deleted by somebody else. *)
(* SessionStoreRedis has the store command by command; here an id on the   *)
(* list without a live session is left out, and with it LREM, HGET and the *)
(* EXPIREs.  With InMemorySessionStore nothing comes between these steps,  *)
(* and no list ends before its sessions.                                   *)
(*                                                                         *)
(* An item is a session, a conversation, a consent, an audit entry or one  *)
(* preference; none is made twice.  Changes inside an item are left out,   *)
(* and so are the profile's fields and a row of no preferences.  An audit  *)
(* entry that is anonymized is no longer one of the user's items, nor is   *)
(* the audit record of a deletion, whose user is "DELETED"; if it cannot   *)
(* be stored it is logged.                                                 *)
(***************************************************************************)
EXTENDS Integers, FiniteSets, Sequences

CONSTANTS
    Items,
    Clients,   \* repeat DELETE /me until it succeeds
    Updates,   \* coroutines in PreferencesStore.update
    Exports,   \* coroutines in _gather_user_data
    MaxLogs,   \* what the export reads of the audit log (1000)
    None

Tables == {"conversations", "preferences", "consents"}    \* ON DELETE CASCADE
Stores == Tables \cup {"sessions", "audit_logs"}
Contents == [Stores -> SUBSET Items]

(* The order of delete_user_account, and that of _gather_user_data. *)
Deletion == <<"sessions", "conversations", "preferences", "consents", "audit_logs", "profile">>
Gathering == <<"sessions", "conversations", "preferences", "audit_logs", "consents">>

(* ids are what is left of the ids read from the list of sessions, None    *)
(* before they are read.  found and owed are history: what there was when  *)
(* the request began, and what has been there ever since the export began  *)
(* without being read.  Neither has a session that was on no list when the *)
(* list was read, nor anything once a step has failed.                     *)
Listings == {None} \cup SUBSET Items
Requests == [at: 1..7, failed: BOOLEAN, found: SUBSET Items, ids: Listings]
Reports == [at: 1..6, complete: BOOLEAN, owed: SUBSET Items, ids: Listings]

ASSUME LogsAssumption == MaxLogs \in Nat
ASSUME NoneAssumption ==
    None \notin Requests \cup Reports /\ \A ids \in SUBSET Items : ids # None

VARIABLES
    profile,   \* whether there is a row in user_profiles
    held,      \* the user's items
    listed,    \* the live sessions on the user's list
    pushing,   \* the sessions that create() has stored and not yet pushed
    used,      \* the items made so far
    del,       \* the deletions under way
    asked,     \* the clients that have not been told of success
    upd,       \* the preferences that updates have read (never none)
    exp,       \* the exports under way
    erased,    \* history: what deletions that succeeded had found
    restored   \* history: preferences put back after they were deleted

deletions == <<del, asked, erased>>
lists == <<listed, pushing>>
vars == <<profile, held, lists, used, deletions, upd, exp, restored>>

AllOf(h) == UNION {h[s] : s \in Stores}

Init ==
    /\ profile = FALSE
    /\ held = [s \in Stores |-> {}]
    /\ listed = {} /\ pushing = {}
    /\ used = {}
    /\ del = [d \in Clients |-> None]
    /\ asked = {}
    /\ upd = [u \in Updates |-> {}]
    /\ exp = [e \in Exports |-> None]
    /\ erased = {}
    /\ restored = {}

(* The history of the exports when the items change to h. *)
Seen(h) ==
    exp' = [e \in Exports |->
              IF exp[e] = None THEN None
              ELSE [exp[e] EXCEPT !.owed = @ \cap AllOf(h)]]

-----------------------------------------------------------------------------
(* Other requests *)

CreateProfile ==
    /\ ~profile
    /\ profile' = TRUE
    /\ UNCHANGED <<held, lists, used, deletions, upd, exp, restored>>

Make(i) == i \notin used /\ used' = used \cup {i}

(* An insert, or HSET of a session.  A row without a profile to refer to   *)
(* is refused.                                                             *)
Create(s, i) ==
    /\ s # "preferences" /\ (s \in Tables => profile)
    /\ Make(i)
    /\ held' = [held EXCEPT ![s] = @ \cup {i}]
    /\ pushing' = IF s = "sessions" THEN pushing \cup {i} ELSE pushing
    /\ Seen(held')
    /\ UNCHANGED <<profile, listed, deletions, upd, restored>>

(* RPUSH, which a create() that stops never sends: the session lives on. *)
Push(i) ==
    /\ i \in pushing
    /\ listed' = listed \cup {i} /\ pushing' = pushing \ {i}
    /\ UNCHANGED <<profile, held, used, deletions, upd, exp, restored>>

(* The list's time is over, or it is deleted on another request. *)
LoseList ==
    /\ listed # {} /\ listed' = {}
    /\ UNCHANGED <<profile, held, pushing, used, deletions, upd, exp, restored>>

(* A conversation is deleted, or a session ends: deleted, evicted, expired. *)
Remove(s, i) ==
    /\ s \in {"conversations", "sessions"} /\ i \in held[s]
    /\ held' = [held EXCEPT ![s] = @ \ {i}]
    /\ listed' = listed \ {i} /\ pushing' = pushing \ {i}
    /\ Seen(held')
    /\ UNCHANGED <<profile, used, deletions, upd, restored>>

(* preferences.set: the row is inserted or replaced. *)
SetTo(p) ==
    /\ profile
    /\ held' = [held EXCEPT !["preferences"] = p]
    /\ restored' = restored \cup ((p \cap used) \ held["preferences"])
    /\ Seen(held')
    /\ UNCHANGED <<profile, lists, deletions>>

SetPreferences(i) == Make(i) /\ SetTo({i}) /\ UNCHANGED upd

(* preferences.update reads the row, and sets what it read with a change. *)
ReadPreferences(u) ==
    /\ upd[u] = {} /\ held["preferences"] # {}
    /\ upd' = [upd EXCEPT ![u] = held["preferences"]]
    /\ UNCHANGED <<profile, held, lists, used, deletions, exp, restored>>

WritePreferences(u, i) ==
    /\ upd[u] # {}
    /\ Make(i)
    /\ SetTo(upd[u] \cup {i})
    /\ upd' = [upd EXCEPT ![u] = {}]

(* A statement fails, or there is no profile any more. *)
AbandonUpdate(u) ==
    /\ upd[u] # {}
    /\ upd' = [upd EXCEPT ![u] = {}]
    /\ UNCHANGED <<profile, held, lists, used, deletions, exp, restored>>

-----------------------------------------------------------------------------
(* The deletion of the account: each step is made whatever became of the   *)
(* ones before it.                                                         *)

Ask(d) ==
    /\ del[d] = None
    /\ del' = [del EXCEPT ![d] = [at |-> 1, failed |-> FALSE, found |-> AllOf(held), ids |-> None]]
    /\ asked' = asked \cup {d}
    /\ UNCHANGED <<profile, held, lists, used, upd, exp, erased, restored>>

AtStep(d, s) == del[d] # None /\ del[d].at <= Len(Deletion) /\ Deletion[del[d].at] = s

(* Mutant of WithoutRows: the tables' rows do not go with the profile. *)
WithoutProfileOnly(h, s) == IF s = "profile" THEN h ELSE [h EXCEPT ![s] = {}]

WithoutRows(h, s) ==
    IF s = "profile"
    THEN [t \in Stores |-> IF t \in Tables THEN {} ELSE h[t]]
    ELSE [h EXCEPT ![s] = {}]

(* Mutant of NextStep: the error is not added to the errors. *)
NextStepSilent(d, error) == del' = [del EXCEPT ![d].at = @ + 1, ![d].ids = None]

(* Mutant of NextStep: an error ends the deletion. *)
NextStepUnlessError(d, error) ==
    del' = [del EXCEPT ![d].at = IF error THEN Len(Deletion) + 1 ELSE @ + 1,
                       ![d].failed = @ \/ error, ![d].ids = None,
                       ![d].found = IF error THEN {} ELSE @]

NextStep(d, error) ==
    del' = [del EXCEPT ![d].at = @ + 1, ![d].failed = @ \/ error, ![d].ids = None,
                       ![d].found = IF error THEN {} ELSE @]

(* The statement is executed, although its answer may be lost. *)
Erase(d, s) ==
    /\ AtStep(d, s) /\ s # "sessions"
    /\ held' = WithoutRows(held, s)
    /\ profile' = (profile /\ s # "profile")
    /\ \E error \in BOOLEAN : NextStep(d, error)
    /\ Seen(held')
    /\ UNCHANGED <<lists, used, asked, upd, erased, restored>>

(* It is not executed, nor is what is left of a step of several. *)
FailToErase(d, s) ==
    /\ AtStep(d, s)
    /\ NextStep(d, TRUE)
    /\ UNCHANGED <<profile, held, lists, used, asked, upd, exp, erased, restored>>

(* delete_user_sessions: LRANGE, *)
ListToErase(d) ==
    /\ AtStep(d, "sessions") /\ del[d].ids = None
    /\ del' = [del EXCEPT ![d].ids = listed, ![d].found = @ \ (held["sessions"] \ listed)]
    /\ UNCHANGED <<profile, held, lists, used, asked, upd, exp, erased, restored>>

(* delete() of every id, of which an error is the end, *)
EraseSession(d, i) ==
    /\ AtStep(d, "sessions") /\ del[d].ids # None /\ i \in del[d].ids
    /\ held' = [held EXCEPT !["sessions"] = @ \ {i}]
    /\ listed' = listed \ {i} /\ pushing' = pushing \ {i}
    /\ \/ del' = [del EXCEPT ![d].ids = @ \ {i}]
       \/ NextStep(d, TRUE)
    /\ Seen(held')
    /\ UNCHANGED <<profile, used, asked, upd, erased, restored>>

(* and DEL of the list, with what has been pushed on it meanwhile. *)
DropList(d) ==
    /\ AtStep(d, "sessions") /\ del[d].ids = {}
    /\ listed' = {}
    /\ \E error \in BOOLEAN : NextStep(d, error)
    /\ UNCHANGED <<profile, held, pushing, used, asked, upd, exp, erased, restored>>

(* The client is told of success or of the errors.                         *)
Answer(d) ==
    /\ del[d] # None /\ del[d].at = Len(Deletion) + 1
    /\ IF del[d].failed
       THEN UNCHANGED <<asked, erased>>
       ELSE asked' = asked \ {d} /\ erased' = erased \cup del[d].found
    /\ del' = [del EXCEPT ![d] = None]
    /\ UNCHANGED <<profile, held, lists, used, upd, exp, restored>>

(* The process ends.  The client hears nothing. *)
Crash(d) ==
    /\ del[d] # None
    /\ del' = [del EXCEPT ![d] = None]
    /\ UNCHANGED <<profile, held, lists, used, asked, upd, exp, erased, restored>>

-----------------------------------------------------------------------------
(* The export *)

BeginExport(e) ==
    /\ exp[e] = None
    /\ exp' = [exp EXCEPT ![e] = [at |-> 1, complete |-> TRUE, owed |-> AllOf(held), ids |-> None]]
    /\ UNCHANGED <<profile, held, lists, used, deletions, upd, restored>>

Gathered(e, got, complete) ==
    exp' = [exp EXCEPT ![e].at = @ + 1, ![e].complete = @ /\ complete, ![e].ids = None,
                       ![e].owed = IF complete THEN @ \ got ELSE {}]

(* The audit log's latest entries, and all of the rest. *)
Read(s) ==
    IF s = "audit_logs" /\ Cardinality(held[s]) > MaxLogs
    THEN {got \in SUBSET held[s] : Cardinality(got) = MaxLogs}
    ELSE {held[s]}

AtStore(e, s) == exp[e] # None /\ exp[e].at <= Len(Gathering) /\ Gathering[exp[e].at] = s

(* Mutant of Gather: the audit log is left out, as in _convert_to_csv. *)
GatherNoLogs(e, s) ==
    /\ AtStore(e, s) /\ s # "sessions"
    /\ \E got \in Read(s) : Gathered(e, IF s = "audit_logs" THEN {} ELSE got, got = held[s])
    /\ UNCHANGED <<profile, held, lists, used, deletions, upd, restored>>

Gather(e, s) ==
    /\ AtStore(e, s) /\ s # "sessions"
    /\ \E got \in Read(s) : Gathered(e, got, got = held[s])
    /\ UNCHANGED <<profile, held, lists, used, deletions, upd, restored>>

(* A store that fails is exported as empty, the sessions read from it so   *)
(* far included.                                                           *)
FailToGather(e, s) ==
    /\ AtStore(e, s)
    /\ Gathered(e, {}, FALSE)
    /\ UNCHANGED <<profile, held, lists, used, deletions, upd, restored>>

(* list_user_sessions: LRANGE, *)
ListToGather(e) ==
    /\ AtStore(e, "sessions") /\ exp[e].ids = None
    /\ exp' = [exp EXCEPT ![e].ids = listed, ![e].owed = @ \ (held["sessions"] \ listed)]
    /\ UNCHANGED <<profile, held, lists, used, deletions, upd, restored>>

(* and get() of every id, to which one that has ended meanwhile adds       *)
(* nothing.                                                                *)
GatherSession(e, i) ==
    /\ AtStore(e, "sessions") /\ exp[e].ids # None /\ i \in exp[e].ids
    /\ exp' = [exp EXCEPT ![e].ids = @ \ {i}, ![e].owed = @ \ {i}]
    /\ UNCHANGED <<profile, held, lists, used, deletions, upd, restored>>

EndSessions(e) ==
    /\ AtStore(e, "sessions") /\ exp[e].ids = {}
    /\ Gathered(e, {}, TRUE)
    /\ UNCHANGED <<profile, held, lists, used, deletions, upd, restored>>

EndExport(e) ==
    /\ exp[e] # None /\ exp[e].at = Len(Gathering) + 1
    /\ exp' = [exp EXCEPT ![e] = None]
    /\ UNCHANGED <<profile, held, lists, used, deletions, upd, restored>>

-----------------------------------------------------------------------------
Next ==
    \/ CreateProfile \/ LoseList
    \/ \E i \in Items :
          \/ \E s \in Stores : Create(s, i) \/ Remove(s, i)
          \/ Push(i)
          \/ SetPreferences(i)
          \/ \E u \in Updates : WritePreferences(u, i)
    \/ \E u \in Updates : ReadPreferences(u) \/ AbandonUpdate(u)
    \/ \E d \in Clients :
          \/ Ask(d) \/ Answer(d) \/ Crash(d)
          \/ ListToErase(d) \/ (\E i \in Items : EraseSession(d, i)) \/ DropList(d)
          \/ \E s \in Stores \cup {"profile"} : Erase(d, s) \/ FailToErase(d, s)
    \/ \E e \in Exports :
          \/ BeginExport(e) \/ EndExport(e)
          \/ ListToGather(e) \/ (\E i \in Items : GatherSession(e, i)) \/ EndSessions(e)
          \/ \E s \in Stores : Gather(e, s) \/ FailToGather(e, s)

(* A client that has not been told of success asks again, and no statement *)
(* or command fails every time, or every time ends with the process.       *)
Fairness ==
    \A d \in Clients :
        /\ SF_vars(ListToErase(d))
        /\ SF_vars((\E i \in Items : EraseSession(d, i)) \/ DropList(d))
        /\ \A s \in Stores \ {"sessions"} : SF_vars(Erase(d, s))
        /\ WF_vars((d \in asked /\ Ask(d)) \/ Erase(d, "profile") \/ Answer(d))

Spec == Init /\ [][Next]_vars /\ Fairness

-----------------------------------------------------------------------------
(* Properties *)

(* Every variable has its type, no row is without a profile, an item is in *)
(* one store at most, and a live session is pushed once at most.           *)
TypeOK ==
    /\ profile \in BOOLEAN
    /\ held \in Contents
    /\ listed \cup pushing \subseteq held["sessions"] /\ listed \cap pushing = {}
    /\ used \subseteq Items /\ erased \subseteq used /\ restored \subseteq used
    /\ del \in [Clients -> Requests \cup {None}]
    /\ asked \subseteq Clients
    /\ upd \in [Updates -> SUBSET Items]
    /\ exp \in [Exports -> Reports \cup {None}]
    /\ \A s \in Tables : held[s] # {} => profile
    /\ AllOf(held) \subseteq used
    /\ \A s, t \in Stores : s # t => held[s] \cap held[t] = {}

(* What a deletion found that succeeded is gone for good                   *)
(* (data_deletion.py:113-221), whatever was done for the user meanwhile,   *)
(* and whichever deletions overlapped or failed.  It finds what the user   *)
(* had when it began, but for the sessions that were on no list when it    *)
(* read the list (session.py:764): those it leaves alive, and reports      *)
(* success.  Preferences that an update had read before come back if a     *)
(* profile is created again (postgres_storage.py:284-304).                 *)
Erased == erased \cap AllOf(held) \subseteq restored \cap held["preferences"]

(* An export in which no read failed or was cut short holds all that the   *)
(* user had from its beginning to its end (data_export.py:95-140), though  *)
(* its reads are not made at once, and those of the sessions one by one:   *)
(* but for sessions that were on no list when it read the list             *)
(* (session.py:749).                                                       *)
ExportComplete ==
    \A e \in Exports :
        exp[e] # None /\ exp[e].at = Len(Gathering) + 1 /\ exp[e].complete =>
            exp[e].owed = {}

(* A client that repeats its request until it succeeds is at some time rid *)
(* of everything there was when it asked, preferences aside, and sessions  *)
(* that have come off the list: a step that fails keeps no other from      *)
(* being made (data_deletion.py:140-176).                                  *)
GoneAtLast ==
    \A d \in Clients, i \in Items :
        (del[d] # None /\ i \in del[d].found) ~>
            /\ \A s \in Stores \ {"preferences", "sessions"} : i \notin held[s]
            /\ i \notin listed

====
