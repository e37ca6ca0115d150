-------------------------- MODULE AgentLoopProofs --------------------------
(***************************************************************************)
(* Theorems about AgentLoop, for every set of requests, every mixture of   *)
(* inputs and every max_refinement_attempts.                               *)
(***************************************************************************)
EXTENDS AgentLoop, TLAPS

-----------------------------------------------------------------------------
(* The inductive invariant. *)

(* Every message is where it was put, and a response right after another   *)
(* is its refinement.                                                      *)
GoodLog(log) ==
    /\ InOrder(log)
    /\ \A i \in 2..Len(log) :
          log[i].kind = "response" /\ log[i - 1].kind = "response" =>
              log[i].turn = log[i - 1].turn /\ log[i].guide = i - 1

LogsGood ==
    /\ GoodLog(checkpoint.messages)
    /\ \A t \in Turns : GoodLog(state[t].messages)

Without(t, log) == \A i \in 1..Len(log) : log[i].turn # t

(* A request that has not given its input has no message anywhere. *)
Unasked ==
    \A t \in Turns : node[t] \in {"idle", "start"} =>
        /\ Without(t, checkpoint.messages)
        /\ \A u \in Turns : Without(t, state[u].messages)

Asked(t, log, i) == log[i].kind = "human" /\ log[i].turn = t

(* At most n messages besides the note follow the message of t. *)
AtMost(t, log, n) ==
    \A i \in 1..Len(log) : Asked(t, log, i) => Len(log) - i <= Noted(log, i) + n

Answered(t, log) ==
    /\ Len(log) > 0
    /\ log[Len(log)].kind = "response"
    /\ log[Len(log)].turn = t

(* The state s of a request t that is at node n. *)
AtNode(t, n, s) ==
    LET log == s.messages IN
    /\ n = "start" => Without(t, log)
    /\ n \in {"load_context", "compact", "router", "tools"} =>
          /\ Len(log) > 0 /\ Asked(t, log, Len(log))
          /\ \A i \in 1..Len(log) : Asked(t, log, i) => i = Len(log)
    /\ n \in {"tools", "respond", "verify", "refine"} => s.user_request = t
    /\ n = "respond" =>
          /\ Len(log) > 0 /\ log[Len(log)].turn = t
          /\ log[Len(log)].kind = "response" =>
                s.refinement_attempts \in 1..MaxRefinements /\ s.verification_feedback = Len(log)
          /\ AtMost(t, log, AttemptsOrZero(s))
    /\ n = "verify" =>
          /\ Answered(t, log)
          /\ AtMost(t, log, AttemptsOrZero(s) + 1)
    /\ n = "refine" =>
          /\ Answered(t, log)
          /\ AttemptsOrZero(s) < MaxRefinements
          /\ s.verification_feedback = Len(log)
          /\ AtMost(t, log, AttemptsOrZero(s) + 1)
    /\ n = "done" =>
          /\ Answered(t, log)
          /\ EnableVerification =>
                s.verification_passed = TRUE \/ AttemptsOrZero(s) = MaxRefinements
    /\ n \in Ended => AtMost(t, log, 1 + MaxRefinements)

Places == \A t \in Turns : AtNode(t, node[t], state[t])

(* While a request is alone, its copy is the checkpoint; once it has ended *)
(* alone, its messages are the head of the checkpoint and of every copy in *)
(* use.                                                                    *)
Histories ==
    \A t \in Turns : alone[t] =>
        /\ UnderWay(t) =>
              /\ checkpoint = state[t]
              /\ \A u \in Turns : UnderWay(u) => u = t
        /\ node[t] \in Ended =>
              /\ HeadOf(state[t].messages, checkpoint.messages)
              /\ \A u \in Turns : UnderWay(u) =>
                    HeadOf(state[t].messages, state[u].messages)

IInv == TypeOK /\ LogsGood /\ Unasked /\ Places /\ Histories

-----------------------------------------------------------------------------
(* new is log with messages of t added. *)
Grown(t, log, new) ==
    /\ HeadOf(log, new)
    /\ \A i \in (Len(log) + 1)..Len(new) : new[i].turn = t

LEMMA StateType ==
  ASSUME NEW s \in AgentState
  PROVE  /\ s.messages \in Seq(Messages) /\ Len(s.messages) \in Nat
         /\ \A i \in 1..Len(s.messages) : s.messages[i] \in Messages
         /\ s.refinement_attempts \in 0..MaxRefinements \cup {None, Absent}
         /\ AttemptsOrZero(s) \in 0..MaxRefinements
         /\ Attempts(s) # None => Attempts(s) = AttemptsOrZero(s)
<1>1. s.messages \in Seq(Messages) /\ Len(s.messages) \in Nat
  <2>1. s.messages \in Seq(Messages)
    BY DEF AgentState
  <2> HIDE DEF Messages
  <2> QED
    BY <2>1
<1>2. \A i \in 1..Len(s.messages) : s.messages[i] \in Messages
  BY <1>1
<1>3. s.refinement_attempts \in 0..MaxRefinements \cup {None, Absent}
  BY DEF AgentState
<1> QED
  BY <1>1, <1>2, <1>3, SettingsAssumption, NoneAssumption DEF Attempts, AttemptsOrZero

(* What a message added at the end changes. *)
LEMMA AddedLog ==
  ASSUME NEW log \in Seq(Messages), NEW m \in Messages
  PROVE  LET new == Append(log, m) IN
         /\ new \in Seq(Messages)
         /\ Len(new) = Len(log) + 1
         /\ new[Len(new)] = m
         /\ \A i \in 1..Len(log) : new[i] = log[i]
  OBVIOUS

LEMMA AddedGood ==
  ASSUME NEW log \in Seq(Messages), NEW m \in Messages, GoodLog(log),
         m.at = Len(log) + 1,
         m.kind = "response" /\ Len(log) > 0 =>
             (log[Len(log)].kind = "response" =>
                 m.turn = log[Len(log)].turn /\ m.guide = Len(log))
  PROVE  GoodLog(Append(log, m)) /\ Grown(m.turn, log, Append(log, m))
<1> DEFINE new == Append(log, m)
<1>1. Len(log) \in Nat
  OBVIOUS
<1>2. /\ Len(new) = Len(log) + 1
      /\ new[Len(log) + 1] = m
      /\ \A i \in 1..Len(log) : new[i] = log[i]
  BY AddedLog
<1> HIDE DEF new
<1>3. InOrder(new)
  BY <1>1, <1>2 DEF InOrder, GoodLog
<1>4. ASSUME NEW i \in 2..Len(new), new[i].kind = "response", new[i - 1].kind = "response"
      PROVE  new[i].turn = new[i - 1].turn /\ new[i].guide = i - 1
  <2>1. CASE i = Len(log) + 1
    BY <1>1, <1>2, <1>4, <2>1
  <2>2. CASE i # Len(log) + 1
    <3>1. i \in 2..Len(log) /\ i \in 1..Len(log) /\ i - 1 \in 1..Len(log)
      BY <1>1, <1>2, <2>2
    <3> QED
      BY <1>2, <1>4, <3>1 DEF GoodLog
  <2> QED
    BY <2>1, <2>2
<1>5. Grown(m.turn, log, new)
  BY <1>1, <1>2 DEF Grown, HeadOf
<1> QED
  BY <1>3, <1>4, <1>5 DEF GoodLog, new

LEMMA SameGrown ==
  ASSUME NEW t, NEW log, Len(log) \in Nat
  PROVE  Grown(t, log, log) /\ HeadOf(log, log)
  BY DEF Grown, HeadOf

-----------------------------------------------------------------------------
(* A node that returns s, and the next node, for the request t. *)
LEMMA ReturnStep ==
  ASSUME IInv, NEW t \in Turns, UnderWay(t), NEW s \in AgentState,
         NEW n \in (Nodes \ {"start"}) \cup {"done"},
         Return(t, s, n), GoodLog(s.messages),
         Grown(t, state[t].messages, s.messages), AtNode(t, n, s)
  PROVE  IInv'
<1> USE DEF IInv
<1>1. /\ state' = [state EXCEPT ![t] = s] /\ checkpoint' = s
      /\ node' = [node EXCEPT ![t] = n] /\ alone' = alone
  BY DEF Return
<1>2. /\ state \in [Turns -> AgentState] /\ alone \in [Turns -> BOOLEAN]
      /\ node \in [Turns -> {"idle"} \cup Nodes \cup Ended]
  BY DEF TypeOK
<1>3. /\ state'[t] = s /\ node'[t] = n
      /\ \A u \in Turns \ {t} : state'[u] = state[u] /\ node'[u] = node[u]
  BY <1>1, <1>2
<1>4. TypeOK'
  BY <1>1, <1>2 DEF TypeOK, Ended
<1>5. LogsGood'
  BY <1>1, <1>3 DEF LogsGood
<1>6. n \notin {"idle", "start"}
  BY DEF Nodes
<1>7. \A u \in Turns : Len(state[u].messages) \in Nat
  BY <1>2, StateType
<1>8. Len(s.messages) \in Nat
  BY StateType
<1>9. Unasked'
  <2> SUFFICES ASSUME NEW v \in Turns, node'[v] \in {"idle", "start"}
               PROVE  /\ Without(v, s.messages)
                      /\ \A u \in Turns : Without(v, state'[u].messages)
    BY <1>1 DEF Unasked
  <2>1. v # t /\ node[v] \in {"idle", "start"}
    BY <1>3, <1>6
  <2>2. \A u \in Turns : Without(v, state[u].messages)
    BY <2>1 DEF Unasked
  <2>3. Without(v, s.messages)
    BY <1>7, <1>8, <2>1, <2>2 DEF Without, Grown, HeadOf
  <2> QED
    BY <1>3, <2>2, <2>3
<1>10. Places'
  <2>1. \A u \in Turns \ {t} : AtNode(u, node'[u], state'[u])
    BY <1>3 DEF Places
  <2>2. AtNode(t, node'[t], state'[t])
    BY <1>3
  <2> QED
    BY <2>1, <2>2 DEF Places
<1>11. Histories'
  <2> SUFFICES ASSUME NEW v \in Turns, alone[v]
               PROVE  /\ UnderWay(v)' => s = state'[v] /\ \A u \in Turns : UnderWay(u)' => u = v
                      /\ node'[v] \in Ended =>
                            /\ HeadOf(state'[v].messages, s.messages)
                            /\ \A u \in Turns : UnderWay(u)' =>
                                  HeadOf(state'[v].messages, state'[u].messages)
    BY <1>1 DEF Histories
  <2>1. \A u \in Turns : UnderWay(u)' => UnderWay(u)
    BY <1>3 DEF UnderWay
  <2>2. CASE v = t
    <3>1. \A u \in Turns : UnderWay(u) => u = t
      BY <2>2 DEF Histories
    <3>2. n \in Ended => \A u \in Turns : ~UnderWay(u)'
      <4>1. n \in Ended => ~UnderWay(t)'
        BY <1>3 DEF UnderWay, Nodes, Ended
      <4> QED
        BY <2>1, <3>1, <4>1
    <3>3. HeadOf(s.messages, s.messages)
      BY <1>8, SameGrown
    <3> QED
      BY <1>3, <2>1, <2>2, <3>1, <3>2, <3>3
  <2>3. CASE v # t
    <3>1. ~UnderWay(v)
      BY <2>3 DEF Histories
    <3>2. ~UnderWay(v)'
      BY <1>3, <2>3, <3>1 DEF UnderWay
    <3>3. ASSUME node[v] \in Ended
          PROVE  HeadOf(state[v].messages, s.messages)
      <4>1. HeadOf(state[v].messages, state[t].messages)
        BY <3>3 DEF Histories
      <4>2. HeadOf(state[t].messages, s.messages)
        BY DEF Grown
      <4> QED
        BY <1>7, <1>8, <4>1, <4>2 DEF HeadOf
    <3>4. ASSUME node[v] \in Ended, NEW u \in Turns, UnderWay(u)
          PROVE  HeadOf(state[v].messages, state'[u].messages)
      BY <1>3, <3>3, <3>4 DEF Histories
    <3> QED
      BY <1>3, <2>1, <2>3, <3>2, <3>3, <3>4
  <2> QED
    BY <2>2, <2>3
<1> QED
  BY <1>4, <1>5, <1>9, <1>10, <1>11

LEMMA RoomAtEnd ==
  ASSUME NEW t \in Turns, NEW n \in Nodes, NEW s \in AgentState, AtNode(t, n, s)
  PROVE  AtMost(t, s.messages, 1 + MaxRefinements)
<1>1. Len(s.messages) \in Nat /\ AttemptsOrZero(s) \in 0..MaxRefinements
  BY StateType
<1>2. \A i \in 1..Len(s.messages) : Noted(s.messages, i) \in Nat
  BY DEF Noted
<1>3. CASE n = "start"
  BY <1>3 DEF AtNode, Without, AtMost, Asked
<1>4. CASE n \in {"load_context", "compact", "router", "tools"}
  BY <1>1, <1>2, <1>4, SettingsAssumption DEF AtNode, AtMost
<1>5. CASE n \in {"respond", "verify", "refine"}
  BY <1>1, <1>2, <1>5, SettingsAssumption DEF AtNode, AtMost
<1> QED
  BY <1>3, <1>4, <1>5 DEF Nodes

(* A request that ends without an answer. *)
LEMMA StopStep ==
  ASSUME IInv, NEW t \in Turns, UnderWay(t),
         NEW how \in {"failed", "type_error", "abandoned"}, Stop(t, how)
  PROVE  IInv'
<1> USE DEF IInv
<1>1. /\ state' = state /\ checkpoint' = checkpoint /\ alone' = alone
      /\ node' = [node EXCEPT ![t] = how]
  BY DEF Stop
<1>2. /\ state \in [Turns -> AgentState] /\ alone \in [Turns -> BOOLEAN]
      /\ node \in [Turns -> {"idle"} \cup Nodes \cup Ended]
  BY DEF TypeOK
<1>3. node'[t] = how /\ \A u \in Turns \ {t} : node'[u] = node[u]
  BY <1>1, <1>2
<1>4. TypeOK'
  BY <1>1, <1>2 DEF TypeOK, Ended
<1>5. LogsGood' /\ Unasked'
  BY <1>1, <1>3 DEF LogsGood, Unasked
<1>6. Places'
  <2>1. AtMost(t, state[t].messages, 1 + MaxRefinements)
    BY <1>2, RoomAtEnd DEF UnderWay, Places
  <2>2. AtNode(t, how, state[t])
    BY <2>1 DEF AtNode
  <2> QED
    BY <1>1, <1>3, <2>2 DEF Places
<1>7. Histories'
  <2>1. \A u \in Turns : UnderWay(u)' => UnderWay(u) /\ u # t
    BY <1>3 DEF UnderWay, Nodes
  <2>2. Len(state[t].messages) \in Nat
    BY <1>2, StateType
  <2>3. HeadOf(state[t].messages, state[t].messages)
    BY <2>2, SameGrown
  <2>4. ASSUME NEW v \in Turns, alone[v]
        PROVE  /\ UnderWay(v)' => checkpoint = state[v] /\ \A u \in Turns : UnderWay(u)' => u = v
               /\ node'[v] \in Ended =>
                     /\ HeadOf(state[v].messages, checkpoint.messages)
                     /\ \A u \in Turns : UnderWay(u)' =>
                           HeadOf(state[v].messages, state[u].messages)
    BY <1>3, <2>1, <2>3, <2>4 DEF Histories
  <2> QED
    BY <1>1, <2>4 DEF Histories
<1> QED
  BY <1>4, <1>5, <1>6, <1>7

LEMMA BeginStep ==
  ASSUME IInv, NEW t \in Turns, Begin(t)
  PROVE  IInv'
<1> USE DEF IInv
<1>1. /\ state' = [state EXCEPT ![t] = checkpoint] /\ checkpoint' = checkpoint
      /\ node' = [node EXCEPT ![t] = "start"] /\ node[t] = "idle"
      /\ alone' = [u \in Turns |-> IF u = t THEN \A v \in Turns : ~UnderWay(v)
                                   ELSE alone[u] /\ ~UnderWay(u)]
  BY DEF Begin, Loaded
<1>2. /\ state \in [Turns -> AgentState] /\ alone \in [Turns -> BOOLEAN]
      /\ node \in [Turns -> {"idle"} \cup Nodes \cup Ended] /\ checkpoint \in AgentState
  BY DEF TypeOK
<1>3. /\ state'[t] = checkpoint /\ node'[t] = "start"
      /\ \A u \in Turns \ {t} : state'[u] = state[u] /\ node'[u] = node[u]
  BY <1>1, <1>2
<1>4. TypeOK'
  <2>1. alone' \in [Turns -> BOOLEAN]
    BY <1>1, <1>2
  <2> QED
    BY <1>1, <1>2, <2>1 DEF TypeOK, Nodes
<1>5. LogsGood' /\ Unasked'
  BY <1>1, <1>3 DEF LogsGood, Unasked
<1>6. Places'
  <2>1. Without(t, checkpoint.messages)
    BY <1>1 DEF Unasked
  <2>2. AtNode(t, "start", checkpoint)
    BY <2>1 DEF AtNode, Ended
  <2>3. \A u \in Turns \ {t} : AtNode(u, node'[u], state'[u])
    BY <1>3 DEF Places
  <2> QED
    BY <1>3, <2>2, <2>3 DEF Places
<1>7. Histories'
  <2>1. ASSUME NEW v \in Turns, alone'[v]
        PROVE  /\ UnderWay(v)' => checkpoint = state'[v] /\ \A u \in Turns : UnderWay(u)' => u = v
               /\ node'[v] \in Ended =>
                     /\ HeadOf(state'[v].messages, checkpoint.messages)
                     /\ \A u \in Turns : UnderWay(u)' =>
                           HeadOf(state'[v].messages, state'[u].messages)
    <3>1. CASE v = t
      <4>1. \A u \in Turns : ~UnderWay(u)
        BY <1>1, <2>1, <3>1
      <4>2. \A u \in Turns : UnderWay(u)' => u = t
        BY <1>3, <4>1 DEF UnderWay
      <4>3. node'[t] \notin Ended
        BY <1>3 DEF Ended
      <4> QED
        BY <1>3, <3>1, <4>2, <4>3
    <3>2. CASE v # t
      <4>1. alone[v] /\ ~UnderWay(v)
        BY <1>1, <2>1, <3>2
      <4>2. ~UnderWay(v)' /\ node'[v] = node[v] /\ state'[v] = state[v]
        BY <1>3, <3>2, <4>1 DEF UnderWay
      <4>3. ASSUME node[v] \in Ended, NEW u \in Turns, UnderWay(u)'
            PROVE  HeadOf(state[v].messages, state'[u].messages)
        <5>1. CASE u = t
          BY <1>3, <4>1, <4>3, <5>1 DEF Histories
        <5>2. CASE u # t
          BY <1>3, <4>1, <4>3, <5>2 DEF Histories, UnderWay
        <5> QED
          BY <5>1, <5>2
      <4> QED
        BY <4>1, <4>2, <4>3 DEF Histories
    <3> QED
      BY <3>1, <3>2
  <2> QED
    BY <1>1, <2>1 DEF Histories
<1> QED
  BY <1>4, <1>5, <1>6, <1>7

-----------------------------------------------------------------------------
(* The nodes, one by one. *)

LEMMA AtHand ==
  ASSUME IInv, NEW t \in Turns
  PROVE  /\ state[t] \in AgentState /\ GoodLog(state[t].messages)
         /\ AtNode(t, node[t], state[t])
         /\ Len(state[t].messages) \in Nat
         /\ Grown(t, state[t].messages, state[t].messages)
<1>1. state[t] \in AgentState
  BY DEF IInv, TypeOK
<1>2. Len(state[t].messages) \in Nat
  BY <1>1, StateType
<1> QED
  BY <1>1, <1>2, SameGrown DEF IInv, LogsGood, Places

LEMMA StartStep ==
  ASSUME IInv, NEW t \in Turns, Start(t)
  PROVE  IInv'
<1> DEFINE s == state[t]
           m == Message("human", t, s, None)
           log == Append(s.messages, m)
<1>1. PICK kind \in InputKinds : Return(t, WithInput(s, t, kind), "load_context")
  BY DEF Start
<1> DEFINE r == WithInput(s, t, kind)
<1>2. /\ s \in AgentState /\ GoodLog(s.messages) /\ Without(t, s.messages)
      /\ node[t] = "start" /\ UnderWay(t)
  BY AtHand DEF Start, AtNode, UnderWay, Nodes
<1>3. s.messages \in Seq(Messages) /\ Len(s.messages) \in Nat
  BY <1>2, StateType
<1>4. m \in Messages /\ m.kind = "human" /\ m.turn = t /\ m.at = Len(s.messages) + 1
  BY <1>3 DEF Message, Messages
<1> HIDE DEF m
<1>5. /\ log \in Seq(Messages) /\ Len(log) = Len(s.messages) + 1 /\ log[Len(log)] = m
      /\ \A i \in 1..Len(s.messages) : log[i] = s.messages[i]
  BY <1>3, <1>4, AddedLog
<1>6. GoodLog(log) /\ Grown(t, s.messages, log)
  BY <1>2, <1>3, <1>4, AddedGood
<1>7. r \in AgentState /\ r.messages = log
  <2> DEFINE a == [Added(s, m) EXCEPT !.next_action = ""]
  <2>1. a \in AgentState /\ a.messages = log
    BY <1>2, <1>5 DEF Added, AgentState
  <2>2. r = IF kind = "bare" THEN a
            ELSE [a EXCEPT !.verification_passed = None, !.verification_feedback = None,
                           !.refinement_attempts = None, !.user_request = t]
    BY DEF WithInput, m
  <2> HIDE DEF a, r, log
  <2>3. CASE kind = "bare"
    BY <2>1, <2>2, <2>3
  <2>4. CASE kind # "bare"
    <3>1. r = [a EXCEPT !.verification_passed = None, !.verification_feedback = None,
                        !.refinement_attempts = None, !.user_request = t]
      BY <2>2, <2>4
    <3> QED
      BY <2>1, <3>1 DEF AgentState
  <2> QED
    BY <2>3, <2>4
<1> HIDE DEF r, log
<1>8. AtNode(t, "load_context", r)
  <2>1. Len(log) > 0 /\ Asked(t, log, Len(log))
    BY <1>3, <1>4, <1>5 DEF Asked
  <2>2. \A i \in 1..Len(log) : Asked(t, log, i) => i = Len(log)
    BY <1>2, <1>3, <1>5 DEF Without, Asked
  <2> QED
    BY <1>7, <2>1, <2>2 DEF AtNode, Ended
<1> QED
  BY <1>1, <1>2, <1>6, <1>7, <1>8, ReturnStep DEF Nodes, r

(* load_context and compact return the state they were given. *)
LEMMA GatherStep ==
  ASSUME IInv, NEW t \in Turns, LoadContext(t) \/ Compact(t)
  PROVE  IInv'
<1>1. /\ state[t] \in AgentState /\ GoodLog(state[t].messages)
      /\ AtNode(t, node[t], state[t])
      /\ Grown(t, state[t].messages, state[t].messages)
  BY AtHand
<1>2. CASE LoadContext(t)
  <2>1. AtNode(t, "compact", state[t]) /\ UnderWay(t) /\ Return(t, state[t], "compact")
    BY <1>1, <1>2 DEF LoadContext, AtNode, UnderWay, Nodes, Ended
  <2> QED
    BY <1>1, <2>1, ReturnStep DEF Nodes
<1>3. CASE Compact(t)
  <2>1. AtNode(t, "router", state[t]) /\ UnderWay(t) /\ Return(t, state[t], "router")
    BY <1>1, <1>3 DEF Compact, AtNode, UnderWay, Nodes, Ended
  <2> QED
    BY <1>1, <2>1, ReturnStep DEF Nodes
<1> QED
  BY <1>2, <1>3

LEMMA RouterStep ==
  ASSUME IInv, NEW t \in Turns, Router(t)
  PROVE  IInv'
<1> DEFINE s == state[t]
           log == s.messages
<1>1. /\ s \in AgentState /\ GoodLog(log) /\ AtNode(t, node[t], s)
      /\ Len(log) \in Nat /\ Grown(t, log, log)
  BY AtHand
<1>2. node[t] = "router" /\ UnderWay(t)
  BY DEF Router, UnderWay, Nodes
<1>3. PICK action \in {"use_tools", "respond", "clarify"} :
          Return(t, Routed(s, action), ShouldContinue(Routed(s, action).next_action))
  BY DEF Router
<1>4. /\ Len(log) > 0 /\ Asked(t, log, Len(log))
      /\ \A i \in 1..Len(log) : Asked(t, log, i) => i = Len(log)
  BY <1>1, <1>2 DEF AtNode
<1> DEFINE r == [s EXCEPT !.user_request = t, !.next_action = action]
<1>5. Routed(s, action) = r
  BY <1>4 DEF Routed, LastMessage, Asked
<1>6. /\ r \in AgentState /\ r.messages = log /\ r.user_request = t
      /\ r.next_action = action
  BY <1>1 DEF AgentState
<1> HIDE DEF r
<1>7. AtNode(t, "tools", r)
  BY <1>4, <1>6 DEF AtNode, Ended
<1>8. AtNode(t, "respond", r)
  <2>1. AttemptsOrZero(r) \in 0..MaxRefinements
    BY <1>6, StateType
  <2>2. AtMost(t, log, AttemptsOrZero(r))
    <3> SUFFICES ASSUME NEW i \in 1..Len(log), Asked(t, log, i)
                 PROVE  Len(log) - i <= Noted(log, i) + AttemptsOrZero(r)
      BY DEF AtMost
    <3>1. i = Len(log)
      BY <1>4
    <3>2. Noted(log, i) = 0
      BY <1>1, <3>1 DEF Noted
    <3> QED
      BY <1>1, <2>1, <3>1, <3>2, SettingsAssumption
  <2>3. log[Len(log)].turn = t /\ log[Len(log)].kind # "response"
    BY <1>4 DEF Asked
  <2> QED
    BY <1>4, <1>6, <2>2, <2>3 DEF AtNode, Ended
<1>9. ShouldContinue(r.next_action) \in {"tools", "respond"}
  BY DEF ShouldContinue
<1>10. Return(t, r, ShouldContinue(r.next_action))
  BY <1>3, <1>5
<1> QED
  BY <1>1, <1>2, <1>6, <1>7, <1>8, <1>9, <1>10, ReturnStep DEF Nodes

LEMMA UseToolsStep ==
  ASSUME IInv, NEW t \in Turns, UseTools(t)
  PROVE  IInv'
<1> DEFINE s == state[t]
           m == Message("note", t, s, None)
           log == Append(s.messages, m)
           r == [Added(s, m) EXCEPT !.next_action = "respond"]
<1>1. Return(t, r, "respond") /\ node[t] = "tools" /\ UnderWay(t)
  BY DEF UseTools, UnderWay, Nodes
<1>2. s \in AgentState /\ GoodLog(s.messages) /\ AtNode(t, "tools", s)
  BY <1>1, AtHand
<1>3. s.messages \in Seq(Messages) /\ Len(s.messages) \in Nat
  BY <1>2, StateType
<1>4. m \in Messages /\ m.kind = "note" /\ m.turn = t /\ m.at = Len(s.messages) + 1
  BY <1>3 DEF Message, Messages
<1> HIDE DEF m
<1>5. /\ log \in Seq(Messages) /\ Len(log) = Len(s.messages) + 1 /\ log[Len(log)] = m
      /\ \A i \in 1..Len(s.messages) : log[i] = s.messages[i]
  BY <1>3, <1>4, AddedLog
<1>6. GoodLog(log) /\ Grown(t, s.messages, log)
  BY <1>2, <1>3, <1>4, AddedGood
<1>7. r \in AgentState /\ r.messages = log /\ r.user_request = s.user_request
  BY <1>2, <1>5 DEF Added, AgentState
<1> HIDE DEF log, r
<1>8. AtNode(t, "respond", r)
  <2>1. AttemptsOrZero(r) \in 0..MaxRefinements
    BY <1>7, StateType
  <2>2. AtMost(t, log, AttemptsOrZero(r))
    <3> SUFFICES ASSUME NEW i \in 1..Len(log), Asked(t, log, i)
                 PROVE  Len(log) - i <= Noted(log, i) + AttemptsOrZero(r)
      BY DEF AtMost
    <3>1. i \in 1..Len(s.messages)
      BY <1>3, <1>4, <1>5 DEF Asked
    <3>2. i = Len(s.messages)
      BY <1>2, <1>5, <3>1 DEF Asked, AtNode
    <3>3. Noted(log, i) = 1
      BY <1>3, <1>4, <1>5, <3>2 DEF Noted
    <3> QED
      BY <1>3, <1>5, <2>1, <3>2, <3>3, SettingsAssumption
  <2>3. s.user_request = t
    BY <1>2 DEF AtNode
  <2> QED
    BY <1>3, <1>4, <1>5, <1>7, <2>2, <2>3 DEF AtNode, Ended
<1> QED
  BY <1>1, <1>2, <1>6, <1>7, <1>8, ReturnStep DEF Nodes

LEMMA RespondStep ==
  ASSUME IInv, NEW t \in Turns, Respond(t)
  PROVE  IInv'
<1> DEFINE s == state[t]
           m == Message("response", t, s, Guide(s))
           log == Append(s.messages, m)
           r == [Added(s, m) EXCEPT !.next_action = IF EnableVerification THEN "verify" ELSE "end"]
<1>1. /\ Return(t, r, "verify") /\ Attempts(s) # None
      /\ node[t] = "respond" /\ UnderWay(t)
  BY DEF Respond, UnderWay, Nodes
<1>2. s \in AgentState /\ GoodLog(s.messages) /\ AtNode(t, "respond", s)
  BY <1>1, AtHand
<1>3. /\ s.messages \in Seq(Messages) /\ Len(s.messages) \in Nat
      /\ AttemptsOrZero(s) \in 0..MaxRefinements
      /\ Attempts(s) = AttemptsOrZero(s)
  BY <1>1, <1>2, StateType
<1>4. /\ m \in Messages /\ m.kind = "response" /\ m.turn = t
      /\ m.at = Len(s.messages) + 1 /\ m.guide = Guide(s)
  BY <1>3 DEF Message, Messages, Guide
<1> HIDE DEF m
<1>5. /\ log \in Seq(Messages) /\ Len(log) = Len(s.messages) + 1 /\ log[Len(log)] = m
      /\ \A i \in 1..Len(s.messages) : log[i] = s.messages[i]
  BY <1>3, <1>4, AddedLog
<1>6. /\ Len(s.messages) > 0 /\ s.messages[Len(s.messages)].turn = t
      /\ s.user_request = t
      /\ AtMost(t, s.messages, AttemptsOrZero(s))
      /\ s.messages[Len(s.messages)].kind = "response" =>
            s.refinement_attempts \in 1..MaxRefinements
            /\ s.verification_feedback = Len(s.messages)
  BY <1>2 DEF AtNode
<1>7. s.messages[Len(s.messages)].kind = "response" => m.guide = Len(s.messages)
  <2> SUFFICES ASSUME s.messages[Len(s.messages)].kind = "response"
               PROVE  Guide(s) = Len(s.messages)
    BY <1>4
  <2>1. s.refinement_attempts \in 1..MaxRefinements
    BY <1>6
  <2>2. Attempts(s) > 0
    BY <2>1, NoneAssumption, SettingsAssumption DEF Attempts
  <2> QED
    BY <1>3, <1>6, <2>2 DEF Guide
<1>8. GoodLog(log) /\ Grown(t, s.messages, log)
  BY <1>2, <1>3, <1>4, <1>6, <1>7, AddedGood
<1>9. /\ r \in AgentState /\ r.messages = log /\ r.user_request = s.user_request
      /\ r.refinement_attempts = s.refinement_attempts
  BY <1>2, <1>5 DEF Added, AgentState
<1>10. AttemptsOrZero(r) = AttemptsOrZero(s)
  BY <1>9 DEF AttemptsOrZero, Attempts
<1> HIDE DEF log, r
<1>11. AtMost(t, log, AttemptsOrZero(r) + 1)
  <2> SUFFICES ASSUME NEW i \in 1..Len(log), Asked(t, log, i)
               PROVE  Len(log) - i <= Noted(log, i) + (AttemptsOrZero(s) + 1)
    BY <1>10 DEF AtMost
  <2>1. i \in 1..Len(s.messages) /\ Asked(t, s.messages, i)
    BY <1>3, <1>4, <1>5 DEF Asked
  <2>2. Len(s.messages) - i <= Noted(s.messages, i) + AttemptsOrZero(s)
    BY <1>6, <2>1 DEF AtMost
  <2>3. Noted(log, i) = Noted(s.messages, i)
    <3>1. CASE i = Len(s.messages)
      <4>1. i + 1 = Len(log) /\ log[i + 1].kind # "note"
        BY <1>3, <1>4, <1>5, <3>1
      <4> QED
        BY <1>3, <1>5, <3>1, <4>1 DEF Noted
    <3>2. CASE i < Len(s.messages)
      <4>1. log[i + 1] = s.messages[i + 1]
        BY <1>3, <1>5, <2>1, <3>2
      <4> QED
        BY <1>3, <1>5, <2>1, <3>2, <4>1 DEF Noted
    <3> QED
      BY <1>3, <2>1, <3>1, <3>2
  <2>4. Noted(log, i) \in 0..1
    BY DEF Noted
  <2> QED
    BY <1>3, <1>5, <2>1, <2>2, <2>3, <2>4, SettingsAssumption
<1>12. AtNode(t, "verify", r)
  BY <1>3, <1>4, <1>5, <1>6, <1>9, <1>11 DEF AtNode, Answered, Ended
<1> QED
  BY <1>1, <1>2, <1>8, <1>9, <1>12, ReturnStep DEF Nodes

LEMMA VerifyStep ==
  ASSUME IInv, NEW t \in Turns, Verify(t)
  PROVE  IInv'
<1> DEFINE s == state[t]
           log == s.messages
<1>1. PICK r \in Verdicts(s) : Return(t, r, ShouldVerify(r.next_action))
  BY DEF Verify
<1>2. node[t] = "verify" /\ UnderWay(t)
  BY DEF Verify, UnderWay, Nodes
<1>3. /\ s \in AgentState /\ GoodLog(log) /\ AtNode(t, "verify", s)
      /\ Len(log) \in Nat /\ Grown(t, log, log)
  BY <1>2, AtHand
<1>4. AttemptsOrZero(s) \in 0..MaxRefinements
  BY <1>3, StateType
<1>5. /\ Answered(t, log) /\ s.user_request = t
      /\ AtMost(t, log, AttemptsOrZero(s) + 1)
  BY <1>3 DEF AtNode
<1>6. AtMost(t, log, 1 + MaxRefinements)
  BY <1>2, <1>3, RoomAtEnd DEF UnderWay
<1>7. /\ r \in AgentState /\ r.messages = log /\ r.user_request = s.user_request
      /\ r.refinement_attempts = s.refinement_attempts
      /\ \/ /\ r.next_action = "refine" /\ AttemptsOrZero(s) < MaxRefinements
            /\ r.verification_feedback = Len(log)
         \/ /\ r.next_action = "end"
            /\ EnableVerification =>
                  r.verification_passed = TRUE \/ AttemptsOrZero(s) = MaxRefinements
  <2>1. CASE EnableVerification /\ r = Unjudged(s)
    BY <1>3, <2>1 DEF Unjudged, AgentState
  <2>2. CASE EnableVerification /\ r = Judged(s, TRUE)
    BY <1>3, <2>2 DEF Judged, AgentState
  <2>3. CASE EnableVerification /\ r = Judged(s, FALSE) /\ AttemptsOrZero(s) < MaxRefinements
    BY <1>3, <2>3 DEF Judged, AgentState
  <2>4. CASE EnableVerification /\ r = Judged(s, FALSE) /\ ~(AttemptsOrZero(s) < MaxRefinements)
    <3>1. AttemptsOrZero(s) = MaxRefinements
      BY <1>4, <2>4, SettingsAssumption
    <3> QED
      BY <1>3, <2>4, <3>1 DEF Judged, AgentState
  <2>5. CASE ~EnableVerification /\ r = [s EXCEPT !.next_action = "end"]
    BY <1>3, <2>5 DEF AgentState
  <2> QED
    BY <1>1, <2>1, <2>2, <2>3, <2>4, <2>5 DEF Verdicts
<1>8. AttemptsOrZero(r) = AttemptsOrZero(s)
  BY <1>7 DEF AttemptsOrZero, Attempts
<1>9. CASE r.next_action = "refine" /\ AttemptsOrZero(s) < MaxRefinements
           /\ r.verification_feedback = Len(log)
  <2>1. AtNode(t, "refine", r)
    BY <1>5, <1>7, <1>8, <1>9 DEF AtNode, Ended
  <2>2. Return(t, r, "refine")
    BY <1>1, <1>9 DEF ShouldVerify
  <2> QED
    BY <1>2, <1>3, <1>7, <2>1, <2>2, ReturnStep DEF Nodes
<1>10. CASE /\ r.next_action = "end"
            /\ EnableVerification =>
                  r.verification_passed = TRUE \/ AttemptsOrZero(s) = MaxRefinements
  <2>1. AtNode(t, "done", r)
    BY <1>5, <1>6, <1>7, <1>8, <1>10 DEF AtNode, Ended
  <2>2. Return(t, r, "done")
    BY <1>1, <1>10 DEF ShouldVerify
  <2> QED
    BY <1>2, <1>3, <1>7, <2>1, <2>2, ReturnStep
<1> QED
  BY <1>7, <1>9, <1>10

LEMMA RefineStep ==
  ASSUME IInv, NEW t \in Turns, Refine(t)
  PROVE  IInv'
<1> DEFINE s == state[t]
           log == s.messages
           r == Refined(s)
<1>1. Return(t, r, "respond") /\ node[t] = "refine" /\ UnderWay(t)
  BY DEF Refine, UnderWay, Nodes
<1>2. /\ s \in AgentState /\ GoodLog(log) /\ AtNode(t, "refine", s)
      /\ Len(log) \in Nat /\ Grown(t, log, log)
  BY <1>1, AtHand
<1>3. AttemptsOrZero(s) \in 0..MaxRefinements
  BY <1>2, StateType
<1>4. /\ Answered(t, log) /\ s.user_request = t
      /\ AttemptsOrZero(s) < MaxRefinements
      /\ s.verification_feedback = Len(log)
      /\ AtMost(t, log, AttemptsOrZero(s) + 1)
  BY <1>2 DEF AtNode
<1>5. AttemptsOrZero(s) + 1 \in 1..MaxRefinements
  BY <1>3, <1>4, SettingsAssumption
<1>6. /\ r \in AgentState /\ r.messages = log /\ r.user_request = t
      /\ r.verification_feedback = Len(log)
      /\ r.refinement_attempts = AttemptsOrZero(s) + 1
  <2> DEFINE k == AttemptsOrZero(s) + 1
  <2>1. k \in 0..MaxRefinements
    BY <1>5
  <2>2. r = [s EXCEPT !.refinement_attempts = k, !.next_action = "respond"]
    BY DEF Refined
  <2> HIDE DEF r, k
  <2>3. r \in AgentState /\ r.refinement_attempts = k
    BY <1>2, <2>1, <2>2 DEF AgentState
  <2>4. r.messages = log /\ r.user_request = t /\ r.verification_feedback = Len(log)
    BY <1>2, <1>4, <2>2 DEF AgentState
  <2> QED
    BY <2>3, <2>4 DEF k
<1> HIDE DEF r
<1>7. AttemptsOrZero(r) = AttemptsOrZero(s) + 1
  BY <1>5, <1>6, NoneAssumption, SettingsAssumption DEF AttemptsOrZero, Attempts
<1>8. AtNode(t, "respond", r)
  BY <1>4, <1>5, <1>6, <1>7 DEF AtNode, Answered, Ended
<1> QED
  BY <1>1, <1>2, <1>6, <1>8, ReturnStep DEF Nodes

-----------------------------------------------------------------------------
(* The theorems. *)

LEMMA EmptyState == Empty \in AgentState /\ Len(Empty.messages) = 0
  BY DEF Empty, AgentState

LEMMA InitInvariant == Init => IInv
<1> SUFFICES ASSUME Init
             PROVE  IInv
  OBVIOUS
<1>1. /\ checkpoint = Empty /\ \A t \in Turns : state[t] = Empty
      /\ \A t \in Turns : node[t] = "idle"
  BY DEF Init
<1>2. TypeOK
  BY EmptyState DEF Init, TypeOK
<1>3. LogsGood /\ Unasked
  BY <1>1, EmptyState DEF LogsGood, GoodLog, InOrder, Unasked, Without
<1>4. Places
  BY <1>1 DEF Places, AtNode, Ended
<1>5. Histories
  BY <1>1 DEF Histories, UnderWay, Nodes, Ended
<1> QED
  BY <1>2, <1>3, <1>4, <1>5 DEF IInv

LEMMA StutterInvariant == IInv /\ UNCHANGED vars => IInv'
<1> SUFFICES ASSUME IInv, UNCHANGED vars
             PROVE  IInv'
  OBVIOUS
<1>1. checkpoint' = checkpoint /\ state' = state /\ node' = node /\ alone' = alone
  BY DEF vars
<1>2. TypeOK' /\ LogsGood'
  BY <1>1 DEF IInv, TypeOK, LogsGood
<1>3. Unasked' /\ Places'
  BY <1>1 DEF IInv, Unasked, Places
<1>4. Histories'
  BY <1>1 DEF IInv, Histories, UnderWay
<1> QED
  BY <1>2, <1>3, <1>4 DEF IInv

(* The inductive invariant holds for every set of requests. *)
THEOREM Invariance == Spec => []IInv
<1>1. ASSUME IInv, NEW t \in Turns, Begin(t) \/ Step(t) \/ Abandon(t)
      PROVE  IInv'
  <2>1. CASE Begin(t)
    BY <1>1, <2>1, BeginStep
  <2>2. CASE Abandon(t)
    BY <1>1, <2>2, StopStep DEF Abandon
  <2>3. CASE Start(t)
    BY <1>1, <2>3, StartStep
  <2>4. CASE LoadContext(t) \/ Compact(t)
    BY <1>1, <2>4, GatherStep
  <2>5. CASE Router(t)
    BY <1>1, <2>5, RouterStep
  <2>6. CASE UseTools(t)
    BY <1>1, <2>6, UseToolsStep
  <2>7. CASE Respond(t)
    BY <1>1, <2>7, RespondStep
  <2>8. CASE RespondTypeError(t) \/ RespondFails(t)
    <3>1. UnderWay(t) /\ (Stop(t, "type_error") \/ Stop(t, "failed"))
      BY <2>8 DEF RespondTypeError, RespondFails, UnderWay, Nodes
    <3> QED
      BY <1>1, <3>1, StopStep
  <2>9. CASE Verify(t)
    BY <1>1, <2>9, VerifyStep
  <2>10. CASE Refine(t)
    BY <1>1, <2>10, RefineStep
  <2> QED
    BY <1>1, <2>1, <2>2, <2>3, <2>4, <2>5, <2>6, <2>7, <2>8, <2>9, <2>10 DEF Step
<1>2. IInv /\ [Next]_vars => IInv'
  BY <1>1, StutterInvariant DEF Next
<1> QED
  BY <1>2, InitInvariant, PTL DEF Spec

(* Type correctness: the attempts never pass the maximum. *)
THEOREM TypeCorrect == Spec => []TypeOK
<1>1. IInv => TypeOK
  BY DEF IInv
<1> QED
  BY <1>1, Invariance, PTL

(* Messages stay where they were put, in every copy and the checkpoint. *)
THEOREM HistoryCorrect == Spec => []HistoryInOrder
<1>1. IInv => HistoryInOrder
  BY DEF IInv, LogsGood, GoodLog, HistoryInOrder
<1> QED
  BY <1>1, Invariance, PTL

(* A request adds at most 1 + max_refinement_attempts responses. *)
THEOREM RefinementsCorrect == Spec => []RefinementsBounded
<1>1. IInv => RefinementsBounded
  <2> SUFFICES ASSUME IInv, NEW t \in Turns
               PROVE  LET log == state[t].messages IN
                      \A i \in 1..Len(log) :
                          log[i].kind = "human" /\ log[i].turn = t =>
                              Len(log) - i <= Noted(log, i) + 1 + MaxRefinements
    BY DEF RefinementsBounded
  <2> DEFINE log == state[t].messages
  <2>1. /\ state[t] \in AgentState /\ AtNode(t, node[t], state[t])
        /\ node[t] \in {"idle"} \cup Nodes \cup Ended
    BY AtHand DEF IInv, TypeOK
  <2>2. Len(log) \in Nat
    BY <2>1, StateType
  <2>3. CASE node[t] = "idle"
    BY <2>3 DEF IInv, Unasked, Without
  <2>4. CASE node[t] # "idle"
    <3>1. AtMost(t, log, 1 + MaxRefinements)
      <4>1. CASE node[t] \in Nodes
        BY <2>1, <4>1, RoomAtEnd
      <4>2. CASE node[t] \in Ended
        BY <2>1, <4>2 DEF AtNode
      <4> QED
        BY <2>1, <2>4, <4>1, <4>2
    <3>2. \A i \in 1..Len(log) : Noted(log, i) \in Nat
      BY DEF Noted
    <3> QED
      BY <2>2, <3>1, <3>2, SettingsAssumption DEF AtMost, Asked
  <2> QED
    BY <2>3, <2>4
<1> QED
  BY <1>1, Invariance, PTL

(* A user is given a response to the own request, accepted as the code     *)
(* says.                                                                   *)
THEOREM AcceptedCorrect == Spec => []AcceptedWell
<1>1. IInv => AcceptedWell
  BY DEF IInv, Places, AtNode, Answered, AcceptedWell, LastMessage
<1> QED
  BY <1>1, Invariance, PTL

(* Judged against the own request, refined by the last feedback. *)
THEOREM ContextCorrect == Spec => []OwnContext
<1>1. IInv => OwnContext
  BY DEF IInv, Places, AtNode, LogsGood, GoodLog, OwnContext
<1> QED
  BY <1>1, Invariance, PTL

(* The messages of a request no other has overlapped stay for good. *)
THEOREM KeepsHistoryCorrect == Spec => []KeepsHistory
<1>1. IInv => KeepsHistory
  BY DEF IInv, Histories, KeepsHistory
<1> QED
  BY <1>1, Invariance, PTL

=============================================================================
