-------------------------- MODULE AcknowledgedCall --------------------------
(***************************************************************************)
(* What a caller of an acknowledged operation may rely on, with no queue,  *)
(* claim state, deadline or thread in sight: the promise in the comments   *)
(* of preview_worker/handle/project.rs and cache_registry/registry.rs.     *)
(*                                                                         *)
(* The operation happens at most once.  A caller told its result can rely  *)
(* on it having happened; a caller told "not started" can rely on it never *)
(* happening, also not later; only "unknown" promises nothing.             *)
(***************************************************************************)
CONSTANT Call

VARIABLES
  ran,   \* the calls whose operation has been executed
  told   \* what each caller has been told

Verdict == {"result", "notStarted", "unknown"}

Init ==
  /\ ran = {}
  /\ told = [c \in Call |-> "nothing"]

(* The operation may run late, for a caller that was told "unknown". *)
Run(c) ==
  /\ c \notin ran
  /\ told[c] \in {"nothing", "unknown"}
  /\ ran' = ran \cup {c}
  /\ UNCHANGED told

Answer(c, v) ==
  /\ told[c] = "nothing"
  /\ v = "result" => c \in ran
  /\ v = "notStarted" => c \notin ran
  /\ told' = [told EXCEPT ![c] = v]
  /\ UNCHANGED ran

Next == \E c \in Call : Run(c) \/ \E v \in Verdict : Answer(c, v)

Spec == Init /\ [][Next]_<<ran, told>>
=============================================================================
