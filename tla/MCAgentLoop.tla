---------------------------- MODULE MCAgentLoop ----------------------------
(* Two requests on one conversation, each refined at most twice.           *)
EXTENDS AgentLoop

CONSTANTS t1, t2

MCTurns == {t1, t2}
MCInputs == {"server", "bare"}
MCServerInputs == {"server"}

=============================================================================
