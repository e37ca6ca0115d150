----------------------------- MODULE AgentLoop -----------------------------
(***************************************************************************)
(* The agent's graph (core/agent.py) and the requests of one conversation: *)
(* load_context, compact, router, [tools], respond, verify, and refine as  *)
(* often as the verifier asks for it.  Requests of one thread_id are not   *)
(* serialised: each loads the thread's latest checkpoint, works on its own *)
(* copy of the state and checkpoints that copy after every node.           *)
(*                                                                         *)
(* A node sees a copy of the state and returns the keys to be written;     *)
(* "messages" is not replaced but extended by what a node returns          *)
(* (operator.add, line 77).  A node awaits only its own model or tool, and *)
(* what it returns is applied when it ends, so a node is one step.         *)
(***************************************************************************)
EXTENDS Integers, Sequences

CONSTANTS
    Turns,               \* requests on the conversation
    InputKinds,          \* "server": every key given, most of them None;
                         \* "bare": messages and next_action only
    MaxRefinements,      \* max_refinement_attempts
    EnableVerification,  \* enable_verification
    None,                \* Python's None
    Absent               \* a key no input and no node has set

ASSUME InputAssumption == InputKinds \subseteq {"server", "bare"}
ASSUME SettingsAssumption == MaxRefinements \in Nat /\ EnableVerification \in BOOLEAN
ASSUME NoneAssumption ==
    /\ None \notin Nat \cup Turns \cup BOOLEAN \cup {Absent}
    /\ Absent \notin Nat

VARIABLES
    checkpoint,   \* state in the thread's latest checkpoint
    state,        \* each request's copy of the state
    node,         \* the node it is about to run, or how it ended
    alone         \* history: no other request has been under way with it

vars == <<checkpoint, state, node, alone>>

Nodes == {"start", "load_context", "compact", "router", "tools", "respond", "verify", "refine"}
Ended == {"done", "failed", "type_error", "abandoned"}

UnderWay(t) == node[t] \in Nodes

-----------------------------------------------------------------------------
(* AgentState.  A message is told by its place in the conversation at the  *)
(* time it was added; guide is the place of the response whose feedback    *)
(* the model was given with it.                                            *)

Message(kind, t, s, guide) ==
    [kind |-> kind, turn |-> t, at |-> Len(s.messages) + 1, guide |-> guide]

Messages == [kind: {"human", "note", "response"}, turn: Turns,
             at: Nat, guide: Nat \cup {None}]

AgentState ==
    [messages: Seq(Messages),
     next_action: {"", "use_tools", "respond", "clarify", "verify", "refine", "end"},
     verification_passed: BOOLEAN \cup {None, Absent},
     verification_feedback: Nat \cup {None, Absent},
     refinement_attempts: 0..MaxRefinements \cup {None, Absent},
     user_request: Turns \cup {None, Absent}]

Empty ==
    [messages |-> <<>>, next_action |-> "", verification_passed |-> Absent,
     verification_feedback |-> Absent, refinement_attempts |-> Absent,
     user_request |-> Absent]

(* state.get("refinement_attempts", 0) *)
Attempts(s) == IF s.refinement_attempts = Absent THEN 0 ELSE s.refinement_attempts

(* ... or 0, as verify_response and refine_response have it. *)
AttemptsOrZero(s) == IF Attempts(s) = None THEN 0 ELSE Attempts(s)

Added(s, m) == [s EXCEPT !.messages = Append(@, m)]

(* The input of a request, applied to the state of the thread. *)
WithInput(s, t, kind) ==
    LET asked == [Added(s, Message("human", t, s, None)) EXCEPT !.next_action = ""]
    IN  IF kind = "bare"
        THEN asked
        ELSE [asked EXCEPT !.verification_passed = None,
                           !.verification_feedback = None,
                           !.refinement_attempts = None,
                           !.user_request = t]

LastMessage(s) == s.messages[Len(s.messages)]

-----------------------------------------------------------------------------
Init ==
    /\ checkpoint = Empty
    /\ state = [t \in Turns |-> Empty]
    /\ node = [t \in Turns |-> "idle"]
    /\ alone = [t \in Turns |-> TRUE]

(* What a node returns becomes the state and the thread's checkpoint. *)
Return(t, s, next) ==
    /\ state' = [state EXCEPT ![t] = s]
    /\ checkpoint' = s
    /\ node' = [node EXCEPT ![t] = next]
    /\ UNCHANGED alone

(* A node that raises ends the request; its checkpoints stay. *)
Stop(t, how) ==
    /\ node' = [node EXCEPT ![t] = how]
    /\ UNCHANGED <<checkpoint, state, alone>>

(* Mutant of Loaded: the graph, and with it its MemorySaver, is built anew *)
(* for every request.                                                      *)
LoadedFromNewSaver == Empty

(* The state a request starts from: the thread's latest checkpoint. *)
Loaded == checkpoint

(* ainvoke: the latest checkpoint is loaded. *)
Begin(t) ==
    /\ node[t] = "idle"
    /\ state' = [state EXCEPT ![t] = Loaded]
    /\ node' = [node EXCEPT ![t] = "start"]
    /\ alone' = [u \in Turns |-> IF u = t THEN \A v \in Turns : ~UnderWay(v)
                                 ELSE alone[u] /\ ~UnderWay(u)]
    /\ UNCHANGED checkpoint

(* The input is written to the channels. *)
Start(t) ==
    /\ node[t] = "start"
    /\ \E kind \in InputKinds : Return(t, WithInput(state[t], t, kind), "load_context")

(* The loaded context is put before the last message in the node's own     *)
(* copy and not returned.                                                  *)
LoadContext(t) ==
    /\ node[t] = "load_context"
    /\ Return(t, state[t], "compact")

(* The same for the compacted messages.  What the node does write,         *)
(* compaction_applied and the count before, nothing in the graph reads.    *)
Compact(t) ==
    /\ node[t] = "compact"
    /\ Return(t, state[t], "router")

ShouldContinue(action) == IF action = "use_tools" THEN "tools" ELSE "respond"

(* Mutant of Routed: the request is captured where the servers build the   *)
(* input, and no more in route_input.                                      *)
RoutedWithoutCapture(s, action) == [s EXCEPT !.next_action = action]

Routed(s, action) ==
    IF LastMessage(s).kind = "human"
    THEN [s EXCEPT !.user_request = LastMessage(s).turn, !.next_action = action]
    ELSE s

Router(t) ==
    /\ node[t] = "router"
    /\ \E action \in {"use_tools", "respond", "clarify"} :
          LET s == Routed(state[t], action)
          IN  Return(t, s, ShouldContinue(s.next_action))

(* The last message is the user's, which has no tool calls. *)
UseTools(t) ==
    /\ node[t] = "tools"
    /\ LET s == state[t]
       IN  Return(t, [Added(s, Message("note", t, s, None)) EXCEPT !.next_action = "respond"],
                  "respond")

(* Mutant of Guide: feedback is given from the second refinement on. *)
GuideFromSecond(s) ==
    IF Attempts(s) > 1 /\ s.verification_feedback \in Nat
    THEN s.verification_feedback ELSE None

(* The feedback added to the messages given to the model. *)
Guide(s) ==
    IF Attempts(s) > 0 /\ s.verification_feedback \in Nat
    THEN s.verification_feedback ELSE None

(* Line 658 compares the attempts with 0, which None does not support. *)
RespondTypeError(t) ==
    /\ node[t] = "respond"
    /\ Attempts(state[t]) = None
    /\ Stop(t, "type_error")

(* The structured model, or the plain one if that fails, answers. *)
Respond(t) ==
    /\ node[t] = "respond"
    /\ Attempts(state[t]) # None
    /\ LET s == state[t]
           r == Message("response", t, s, Guide(s))
       IN  Return(t, [Added(s, r) EXCEPT
                        !.next_action = IF EnableVerification THEN "verify" ELSE "end"],
                  "verify")

(* Both fail. *)
RespondFails(t) ==
    /\ node[t] = "respond"
    /\ Attempts(state[t]) # None
    /\ Stop(t, "failed")

ShouldVerify(action) ==
    CASE action = "verify" -> "verify"
      [] action = "refine" -> "refine"
      [] OTHER -> "done"

(* Mutant of Judged: attempts are compared with <=. *)
JudgedOneMore(s, passed) ==
    [s EXCEPT !.verification_passed = passed,
              !.verification_feedback = Len(s.messages),
              !.next_action = IF ~passed /\ AttemptsOrZero(s) <= MaxRefinements
                              THEN "refine" ELSE "end"]

(* Mutant of Judged: the limit counts responses. *)
JudgedOneLess(s, passed) ==
    [s EXCEPT !.verification_passed = passed,
              !.verification_feedback = Len(s.messages),
              !.next_action = IF ~passed /\ AttemptsOrZero(s) + 1 < MaxRefinements
                              THEN "refine" ELSE "end"]

(* The verdict on the last message: another refinement, unless it passed   *)
(* or the attempts are used up.                                            *)
Judged(s, passed) ==
    [s EXCEPT !.verification_passed = passed,
              !.verification_feedback = Len(s.messages),
              !.next_action = IF ~passed /\ AttemptsOrZero(s) < MaxRefinements
                              THEN "refine" ELSE "end"]

(* Mutant of Unjudged: a verifier that raises is asked again. *)
UnjudgedAgain(s) == [s EXCEPT !.verification_passed = TRUE, !.next_action = "verify"]

(* The verifier raises: the response is accepted. *)
Unjudged(s) == [s EXCEPT !.verification_passed = TRUE, !.next_action = "end"]

Verdicts(s) ==
    IF EnableVerification
    THEN {Judged(s, TRUE), Judged(s, FALSE), Unjudged(s)}
    ELSE {[s EXCEPT !.next_action = "end"]}

Verify(t) ==
    /\ node[t] = "verify"
    /\ \E s \in Verdicts(state[t]) : Return(t, s, ShouldVerify(s.next_action))

(* The failed response is removed from the node's own copy only. *)
Refined(s) ==
    [s EXCEPT !.refinement_attempts = AttemptsOrZero(s) + 1, !.next_action = "respond"]

Refine(t) ==
    /\ node[t] = "refine"
    /\ Return(t, Refined(state[t]), "respond")

(* The client goes away and the request is cancelled. *)
Abandon(t) == UnderWay(t) /\ Stop(t, "abandoned")

Step(t) ==
    \/ Start(t) \/ LoadContext(t) \/ Compact(t) \/ Router(t) \/ UseTools(t)
    \/ Respond(t) \/ RespondTypeError(t) \/ RespondFails(t) \/ Verify(t) \/ Refine(t)

Next == \E t \in Turns : Begin(t) \/ Step(t) \/ Abandon(t)

Spec == Init /\ [][Next]_vars

(* Models and tools end, by their timeouts at the latest. *)
FairSpec == Spec /\ \A t \in Turns : WF_vars(Step(t))

-----------------------------------------------------------------------------
(* Properties *)

(* Every variable has its type, and the attempts never pass the maximum.   *)
(* lines 66-93                                                             *)
TypeOK ==
    /\ checkpoint \in AgentState
    /\ state \in [Turns -> AgentState]
    /\ node \in [Turns -> {"idle"} \cup Nodes \cup Ended]
    /\ alone \in [Turns -> BOOLEAN]

Noted(log, i) == IF i < Len(log) /\ log[i + 1].kind = "note" THEN 1 ELSE 0

HeadOf(log, whole) ==
    Len(log) <= Len(whole) /\ \A i \in 1..Len(log) : whole[i] = log[i]

InOrder(messages) == \A i \in 1..Len(messages) : messages[i].at = i

(* A node adds to the conversation or leaves it alone: no message is added *)
(* twice, moved or dropped, in a request's copy or in the checkpoint.      *)
(* (The comments at lines 409-411, 459-460, 499-501, 772-773, 799-801.)    *)
HistoryInOrder ==
    /\ InOrder(checkpoint.messages)
    /\ \A t \in Turns : InOrder(state[t].messages)

(* After its own message a request adds at most the note of the tools node *)
(* and 1 + max_refinement_attempts responses, whatever attempts an earlier *)
(* request has left in the checkpoint (lines 749-758).                     *)
RefinementsBounded ==
    \A t \in Turns :
        LET log == state[t].messages IN
        \A i \in 1..Len(log) :
            log[i].kind = "human" /\ log[i].turn = t =>
                Len(log) - i <= Noted(log, i) + 1 + MaxRefinements

(* What is returned to the user is a response to the user's own request,   *)
(* and it passed, could not be verified, or was the last one allowed       *)
(* (lines 742-771; the servers return the last message).                   *)
AcceptedWell ==
    \A t \in Turns : node[t] = "done" =>
        /\ LastMessage(state[t]).kind = "response"
        /\ LastMessage(state[t]).turn = t
        /\ EnableVerification =>
              state[t].verification_passed = TRUE \/ AttemptsOrZero(state[t]) = MaxRefinements

(* A response is judged against the request it answers, never against one  *)
(* the checkpoint kept (lines 425-427), and a response made after a        *)
(* refinement is guided by the feedback on the response just before it     *)
(* (lines 657-666), never by that on an older one.                         *)
OwnContext ==
    \A t \in Turns :
        LET log == state[t].messages IN
        /\ node[t] \in {"verify", "refine"} => state[t].user_request = t
        /\ \A i \in 2..Len(log) :
              log[i].kind = "response" /\ log[i - 1].kind = "response" =>
                  log[i].turn = log[i - 1].turn /\ log[i].guide = i - 1

(* Messages of a request no other has overlapped stay at the head of the   *)
(* conversation for good, however it ended (checkpointer, lines 857-861).  *)
KeepsHistory ==
    \A t \in Turns : alone[t] /\ node[t] \in Ended =>
        HeadOf(state[t].messages, checkpoint.messages)

(* Every request that was begun ends: the loop of respond, verify and      *)
(* refine is left (lines 745-771).                                         *)
TurnsEnd == \A t \in Turns : UnderWay(t) ~> node[t] \in Ended

(* refinement_attempts may be None: "int | None" (line 92), and the        *)
(* servers send None (mcp/server_stdio.py:564).                            *)
AttemptsMayBeNone == \A t \in Turns : node[t] # "type_error"

=============================================================================
