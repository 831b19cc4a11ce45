----------------------------- MODULE PromptRun -----------------------------
(***************************************************************************)
(* One prompt of the AI agent: the tool loop of cutlass-ai (agent.rs,      *)
(* run_prompt_with_host) over the throwaway engine of the desktop          *)
(* application (agent/sandbox.rs, SandboxBridge).                          *)
(*                                                                         *)
(* The sandbox starts as a snapshot of the draft that is open.  Edit tools *)
(* are applied to it, inside one history group, and recorded as a plan for *)
(* the live engine.  A step of the plan names the prompt it comes from,    *)
(* its place in the plan, and the draft the sandbox was a snapshot of.     *)
(*                                                                         *)
(* What the provider answers, and whether an edit validates, is left open. *)
(* Senses and the read-only tools change nothing and are left out, but for *)
(* the calls they are charged.  Module AgentSession adds the thread.       *)
(***************************************************************************)
EXTENDS Naturals, Sequences

CONSTANTS
  Draft,       \* the drafts a user works on
  MaxEdits,    \* AgentConfig.max_tool_calls
  MaxHosts,    \* AgentConfig.max_host_calls
  MaxTurns     \* AgentConfig.max_turns

ASSUME PromptAssumption == {MaxEdits, MaxHosts, MaxTurns} \subseteq Nat

VARIABLES
  base,     \* the draft the sandbox is a snapshot of
  sandbox,  \* the edits applied to the sandbox since
  mark,     \* how many of them precede its open history group
  plan,     \* the plan being rehearsed, a parked plan it continues included
  breaks,   \* phase_breaks: indices in this prompt's actions
  loop      \* turns begun, edit and host calls charged, edits that worked

run == <<base, sandbox, mark, plan, breaks, loop>>

Fresh == [turns |-> 0, edits |-> 0, hosts |-> 0, done |-> 0]

(* A new snapshot, with its history group. *)
Reset(draft) ==
  /\ base' = draft /\ sandbox' = <<>> /\ mark' = 0 /\ plan' = <<>>

(* The sandbox of the parked plan goes on. *)
Continue(parked) ==
  /\ plan' = parked /\ mark' = Len(sandbox)
  /\ UNCHANGED <<base, sandbox>>

StartLoop == breaks' = <<>> /\ loop' = Fresh

(* The provider asked for tools; not in the last turn's place. *)
NextTurn ==
  /\ loop' = [loop EXCEPT !.turns = @ + 1]
  /\ UNCHANGED <<base, sandbox, mark, plan, breaks>>

LastTurn == loop.turns = MaxTurns

(* The cap on edits was passed: the prompt ends with what it has. *)
Capped == loop.edits > MaxEdits

(* An edit tool: charged, then refused, or applied and recorded. *)
Edit(prompt) ==
  /\ loop.edits <= MaxEdits
  /\ \/ /\ loop.edits < MaxEdits
        /\ LET step == [by |-> prompt, nth |-> Len(plan) + 1, on |-> base]
           IN sandbox' = Append(sandbox, step) /\ plan' = Append(plan, step)
        /\ loop' = [loop EXCEPT !.edits = @ + 1, !.done = @ + 1]
     \/ /\ loop' = [loop EXCEPT !.edits = @ + 1]
        /\ UNCHANGED <<sandbox, plan>>
  /\ UNCHANGED <<base, mark, breaks>>

(* commit_progress: a break, unless nothing was done since the last one. *)
CommitProgress ==
  /\ loop.done > (IF breaks = <<>> THEN 0 ELSE breaks[Len(breaks)])
  /\ breaks' = Append(breaks, loop.done)
  /\ UNCHANGED <<base, sandbox, mark, plan, loop>>

(* Senses and host tools are charged before they run; past the cap the     *)
(* prompt is given up.                                                     *)
ChargeHost ==
  /\ loop.hosts < MaxHosts
  /\ loop' = [loop EXCEPT !.hosts = @ + 1]
  /\ UNCHANGED <<base, sandbox, mark, plan, breaks>>

(* after_host_call of a project tool: the sandbox starts again.  Nothing   *)
(* else of the prompt does: its counts and breaks stay.                    *)
Reconcile(draft) == Reset(draft) /\ UNCHANGED <<breaks, loop>>

\* A fault: the edits of an aborted prompt stay.
RollBackNothing == UNCHANGED run

(* rollback_group. *)
RollBackGroup ==
  /\ sandbox' = SubSeq(sandbox, 1, mark)
  /\ UNCHANGED <<base, mark, plan, breaks, loop>>

-----------------------------------------------------------------------------
(* split_plan_phases: a break at or past the end of the plan is dropped.   *)
(* The breaks increase, so these are the last ones.                        *)
Phases(steps, at) ==
  LET inside == CHOOSE n \in 0 .. Len(at) : \A i \in DOMAIN at : at[i] < Len(steps) <=> i <= n
      from(i) == IF i = 1 THEN 1 ELSE at[i - 1] + 1
      to(i) == IF i > inside THEN Len(steps) ELSE at[i]
  IN IF steps = <<>> THEN <<>>
     ELSE [i \in 1 .. inside + 1 |-> SubSeq(steps, from(i), to(i))]
=============================================================================
