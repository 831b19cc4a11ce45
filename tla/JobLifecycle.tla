---------------------------- MODULE JobLifecycle ----------------------------
(***************************************************************************)
(* What the job registry promises a client about each job, with no lock,   *)
(* id counter, search or thread in sight: the module documentation of      *)
(* crates/cutlass-jobs/src/lib.rs (lines 1-60) as a state machine.         *)
(*                                                                         *)
(* A job is registered, may run, and ends exactly once.  While it lives,   *)
(* one of two verdicts may be reached and the first one reached is final:  *)
(* its cancellation is accepted, or its work is allowed to commit.  The    *)
(* effect of the work exists only under a commit, and the terminal state   *)
(* reported agrees with the verdict.  The board may forget finished jobs,  *)
(* never the one that is just finishing.                                   *)
(***************************************************************************)
CONSTANT Job

VARIABLES
  phase,    \* where each job is in its life
  verdict,  \* who won the race between cancellation and commit
  effect    \* the jobs whose irreversible step happened

lifecycle == <<phase, verdict, effect>>

Live == {"Queued", "Running"}
Ended == {"Done", "Failed", "Cancelled"}

Init ==
  /\ phase = [j \in Job |-> "unborn"]
  /\ verdict = [j \in Job |-> "undecided"]
  /\ effect = {}

Register(j) ==
  /\ phase[j] = "unborn"
  /\ phase' = [phase EXCEPT ![j] = "Queued"]
  /\ UNCHANGED <<verdict, effect>>

Run(j) ==
  /\ phase[j] = "Queued"
  /\ phase' = [phase EXCEPT ![j] = "Running"]
  /\ UNCHANGED <<verdict, effect>>

AcceptCancel(j) ==
  /\ phase[j] \in Live
  /\ verdict[j] = "undecided"
  /\ verdict' = [verdict EXCEPT ![j] = "cancel"]
  /\ UNCHANGED <<phase, effect>>

AllowCommit(j) ==
  /\ phase[j] \in Live
  /\ verdict[j] = "undecided"
  /\ verdict' = [verdict EXCEPT ![j] = "commit"]
  /\ UNCHANGED <<phase, effect>>

TakeEffect(j) ==
  /\ phase[j] \in Live
  /\ verdict[j] = "commit"
  /\ effect' = effect \cup {j}
  /\ UNCHANGED <<phase, verdict>>

Agrees(end, v) ==
  /\ end = "Done" => v # "cancel"
  /\ end = "Cancelled" => v = "cancel"

Finish(j, end, forgotten) ==
  /\ phase[j] \in Live
  /\ Agrees(end, verdict[j])
  /\ \A k \in forgotten : phase[k] \in Ended
  /\ phase' = [k \in Job |-> IF k = j THEN end
                             ELSE IF k \in forgotten THEN "forgotten"
                             ELSE phase[k]]
  /\ UNCHANGED <<verdict, effect>>

Next ==
  \E j \in Job :
    \/ Register(j)
    \/ Run(j)
    \/ AcceptCancel(j)
    \/ AllowCommit(j)
    \/ TakeEffect(j)
    \/ \E end \in Ended, forgotten \in SUBSET Job : Finish(j, end, forgotten)

Spec == Init /\ [][Next]_lifecycle
=============================================================================
