--------------------------- MODULE SessionTimeout ---------------------------
(***************************************************************************)
(* middleware/session_timeout.py: SessionTimeoutMiddleware in front of an  *)
(* InMemorySessionStore.                                                   *)
(*                                                                         *)
(* dispatch() reads the session, refuses the request with 401 and deletes  *)
(* the session when it was idle too long, and otherwise marks it as used.  *)
(* With this store no call of dispatch() suspends before the request is    *)
(* decided, so it is one step.                                             *)
(*                                                                         *)
(* activity and terminated are history variables: when the owner of a      *)
(* session last used it, and which sessions were refused.                  *)
(***************************************************************************)
EXTENDS SessionStoreMemory

CONSTANT Timeout          \* timeout_seconds
ASSUME TimeoutAssumption == Timeout \in Nat

VARIABLES activity, terminated, request

timeoutVars == <<activity, terminated, request>>
allVars == <<vars, timeoutVars>>

NoRequest == [id |-> 0, answer |-> "none", idle |-> 0]

TInit ==
  /\ Init
  /\ activity = [s \in Sids |-> 0]
  /\ terminated = {}
  /\ request = NoRequest

Request(s, answer) ==
  request' = [id |-> s, answer |-> answer, idle |-> now - activity[s]]

----------------------------------------------------------------------------
(* No session id in the request, or no session behind it: the request goes *)
(* on without one.                                                         *)
DispatchWithoutSession(s) ==
  /\ s \in Stored => Expired(s)
  /\ GetEach({s} \cap Stored)
  /\ Request(s, "passed")
  /\ reply' = Reply("none", {})
  /\ UNCHANGED <<now, nextId, activity, terminated>>

(* get() may already have moved last_accessed to the present.              *)
IdleSeconds(s) == now - Touched(s).lastAccessed

(* Mutant of DispatchTimeout: _handle_timeout does not delete the session. *)
DispatchTimeoutKeeping(s) ==
  /\ s \in Stored
  /\ ~Expired(s)
  /\ IdleSeconds(s) > Timeout
  /\ Request(s, "timeout")
  /\ terminated' = terminated \cup {s}
  /\ reply' = Reply("none", {})
  /\ UNCHANGED <<now, sessions, userSessions, nextId, activity>>

DispatchTimeout(s) ==
  /\ s \in Stored
  /\ ~Expired(s)
  /\ IdleSeconds(s) > Timeout
  /\ Drop({s})
  /\ Request(s, "timeout")
  /\ terminated' = terminated \cup {s}
  /\ reply' = Reply("none", {})
  /\ UNCHANGED <<now, nextId, activity>>

DispatchActive(s) ==
  /\ s \in Stored
  /\ ~Expired(s)
  /\ IdleSeconds(s) <= Timeout
  /\ sessions' = [sessions EXCEPT ![s].lastAccessed = now]
  /\ Request(s, "active")
  /\ activity' = [activity EXCEPT ![s] = now]
  /\ reply' = Reply("none", {})
  /\ UNCHANGED <<now, userSessions, nextId, terminated>>

(* The store's other callers.  Creating, refreshing and updating a session *)
(* is its owner's doing; reading, listing and sweeping is not.             *)
StoreStep ==
  /\ Next
  /\ activity' = [s \in Sids |->
                    IF /\ reply'.op \in {"create", "refresh", "update"}
                       /\ s \in reply'.ids
                    THEN now ELSE activity[s]]
  /\ request' = NoRequest
  /\ UNCHANGED terminated

TNext ==
  \/ StoreStep
  \/ \E s \in Sids : \/ DispatchWithoutSession(s)
                     \/ DispatchTimeout(s)
                     \/ DispatchActive(s)

TSpec == TInit /\ [][TNext]_allVars

----------------------------------------------------------------------------
(* "Terminates inactive sessions after configured timeout period": no      *)
(* request is served with a session its owner left unused for longer than  *)
(* the timeout, whoever else read, listed or swept the store meanwhile.    *)
IdleNotServed == request.answer = "active" => request.idle <= Timeout

(* A session refused for inactivity never serves a request again, and no   *)
(* refresh() brings it back.                                               *)
TerminationIsFinal == Stored \cap terminated = {}
=============================================================================
