-------------------------- MODULE MCAgentSession --------------------------
(* Constants and bounds for TLC: two kinds of sessions. *)
EXTENDS AgentSession, TLC

(* Drafts are interchangeable: one of them is open at first. *)
MCInit == Init /\ open = (CHOOSE d \in Draft : TRUE)

MCFairSpec == MCInit /\ [][Next]_vars /\ WF_vars(RunPrompt)

(* One prompt of one turn calls host tools, and nothing else is asked for. *)
UsesTools == sent.prompts <= 1 /\ sent.others = 0 /\ loop.turns <= 1

(* Prompts and requests without host tools: any four of two prompts, two   *)
(* other requests and a change of the project.                             *)
Rehearses == loop.hosts = 0 /\ lastId = 0 /\ sent.prompts + sent.others + opens <= 4

Bounds == UsesTools \/ Rehearses
=============================================================================
