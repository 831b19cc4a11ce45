----------------------------- MODULE WorkerRpc -----------------------------
(***************************************************************************)
(* Bounded calls into the two threads that own the application's state:    *)
(* the preview worker (preview_worker/rpc.rs, handle/project.rs and        *)
(* handle/cache_maintenance.rs) and the UI event loop (dispatch_ui of      *)
(* cache_registry/registry.rs with wait_for_ui_response of                 *)
(* cache_registry/coordination.rs).                                        *)
(*                                                                         *)
(* A call is queued with an atomic claim state that starts at "pending".   *)
(* The executor moves it to "running" before it starts the operation, the  *)
(* caller to "abandoned" when it is cancelled or its deadline passes; each *)
(* move is one compare-and-swap.  The answer comes back over a channel of  *)
(* its own.  A lease is a call whose operation is to stop: the worker      *)
(* sends its project and waits, without a timeout, for the guard's end.    *)
(*                                                                         *)
(* One action is one atomic operation or one channel operation.  What the  *)
(* operations do is left out; that they happened is "ran".                 *)
(*                                                                         *)
(* What the worker is sent here comes in the channel of PreviewWorker's    *)
(* messages.  Definitions have other names than there (RpcInit, RpcNext),  *)
(* so that one module can speak of both.                                   *)
(***************************************************************************)
EXTENDS Naturals, Sequences

CONSTANTS
  Call,   \* the calls of a run; each is made once, by a thread of its own
  NoCall  \* an executor has not taken a call yet

ASSUME RpcAssumption == NoCall \notin Call

Kind == {"project", "cache", "lease", "ui"}
Executor == {"worker", "ui"}

VARIABLES
  asks,      \* what each call asks for
  phase,     \* the step each caller is at
  op,        \* WorkerRpcOperation, or the UI operation's AtomicU8
  reply,     \* the response channel
  resume,    \* the lease's resume channel
  refresh,   \* the guard's resume_action is RefreshProxies
  told,      \* what the caller was told
  inbox,     \* the message channel of the worker, the event loop of the UI
  step,      \* the step each executor is at
  serving,   \* the call it took last
  ran,       \* the calls whose operation was executed
  refreshed  \* the leases whose RefreshProxies the worker carried out

callers == <<asks, phase, refresh, told>>
executors == <<step, serving, ran, refreshed>>
rpcVars == <<callers, op, reply, resume, inbox, executors>>

On(c) == IF asks[c] = "ui" THEN "ui" ELSE "worker"

(* project_rpc and the lease look for an answer first; the cache calls and *)
(* wait_for_ui_response look at the cancel flag first.                     *)
LooksFirst(c) == asks[c] \in {"project", "lease"}
LoopHead(c) == IF LooksFirst(c) THEN "poll" ELSE "cancel"

RpcInit ==
  /\ asks \in [Call -> Kind]
  /\ phase = [c \in Call |-> "start"]
  /\ op = [c \in Call |-> "pending"]
  /\ reply = [c \in Call |-> "empty"]
  /\ resume = [c \in Call |-> "open"]
  /\ refresh = [c \in Call |-> FALSE]
  /\ told = [c \in Call |-> "nothing"]
  /\ inbox = [e \in Executor |-> <<>>]
  /\ step = [e \in Executor |-> "idle"]
  /\ serving = [e \in Executor |-> NoCall]
  /\ ran = {}
  /\ refreshed = {}

-----------------------------------------------------------------------------
(* The caller. *)

Goto(c, next) ==
  /\ phase' = [phase EXCEPT ![c] = next]
  /\ UNCHANGED <<told, op, resume>>

\* A fault: the error path keeps the sender of the lease alive.
FailHolding(c, verdict, claim) ==
  /\ phase' = [phase EXCEPT ![c] = "done"]
  /\ told' = [told EXCEPT ![c] = verdict]
  /\ op' = [op EXCEPT ![c] = claim]
  /\ UNCHANGED resume

(* Return an error: the response receiver and a lease's sender are dropped. *)
Fail(c, verdict, claim) ==
  /\ phase' = [phase EXCEPT ![c] = "done"]
  /\ told' = [told EXCEPT ![c] = verdict]
  /\ op' = [op EXCEPT ![c] = claim]
  /\ resume' = [resume EXCEPT ![c] = "closed"]

Abandoned(c) == IF op[c] = "pending" THEN "abandoned" ELSE op[c]

(* A reply was received.  That of a lease becomes the guard. *)
Deliver(c) ==
  /\ phase' = [phase EXCEPT ![c] = IF asks[c] = "lease" THEN "held" ELSE "done"]
  /\ told' = [told EXCEPT ![c] =
       IF reply[c] = "value" THEN "result" ELSE "notStarted"]
  /\ UNCHANGED <<op, resume>>

(* The channel is disconnected: the operation will never be claimed any   *)
(* more, so the compare-and-swap that follows is part of the step.  Only   *)
(* project_rpc tells its caller what the swap found, and a lease does not  *)
(* even try it unless it was inside recv_timeout.                          *)
Lost(c) ==
  Fail(c,
       IF asks[c] = "project" /\ op[c] = "pending" THEN "notStarted" ELSE "unknown",
       IF asks[c] = "lease" /\ phase[c] # "wait" THEN op[c] ELSE Abandoned(c))

Receive(c, empty) ==
  \/ reply[c] \in {"value", "refused"} /\ Deliver(c)
  \/ reply[c] = "closed" /\ Lost(c)
  \/ reply[c] = "empty" /\ Goto(c, empty)

quiet == <<asks, refresh, reply, executors>>

(* The caller's cancel flag may be set at any time by someone else, so a   *)
(* step that reads it may find either value.                               *)
Start(c) ==
  /\ phase[c] = "start"
  /\ Fail(c, "notStarted", op[c]) \/ Goto(c, "send")
  /\ UNCHANGED <<quiet, inbox>>

SendCall(c) ==
  /\ phase[c] = "send"
  /\ \/ /\ step[On(c)] # "dead"
        /\ inbox' = [inbox EXCEPT ![On(c)] = Append(@, c)]
        /\ Goto(c, LoopHead(c))
     \/ /\ step[On(c)] = "dead"
        /\ Fail(c, "notStarted", "abandoned")
        /\ UNCHANGED inbox
  /\ UNCHANGED quiet

Poll(c) ==
  /\ phase[c] = "poll"
  /\ Receive(c, "cancel")
  /\ UNCHANGED <<quiet, inbox>>

Cancel(c) ==
  /\ phase[c] = "cancel"
  /\ \/ op[c] = "pending" /\ Fail(c, "notStarted", "abandoned")
     \/ Goto(c, "deadline")
  /\ UNCHANGED <<quiet, inbox>>

(* The deadline has passed, or has not. *)
Overdue(c) ==
  /\ phase[c] = "deadline"
  /\ Goto(c, IF LooksFirst(c) THEN "last" ELSE "giveUp")
  /\ UNCHANGED <<quiet, inbox>>

InTime(c) ==
  /\ phase[c] = "deadline"
  /\ Goto(c, "wait")
  /\ UNCHANGED <<quiet, inbox>>

(* A reply may have entered the channel since the poll. *)
LastLook(c) ==
  /\ phase[c] = "last"
  /\ Receive(c, "giveUp")
  /\ UNCHANGED <<quiet, inbox>>

\* A fault: a caller whose deadline passed says that nothing was started.
GiveUpHopefully(c) ==
  /\ phase[c] = "giveUp"
  /\ Fail(c, "notStarted", Abandoned(c))
  /\ UNCHANGED <<quiet, inbox>>

GiveUp(c) ==
  /\ phase[c] = "giveUp"
  /\ Fail(c, IF op[c] = "pending" THEN "notStarted" ELSE "unknown", Abandoned(c))
  /\ UNCHANGED <<quiet, inbox>>

\* A fault: the loop waits on without a look at its deadline.
WaitAgain(c) ==
  /\ phase[c] = "wait"
  /\ Receive(c, "wait")
  /\ UNCHANGED <<quiet, inbox>>

(* recv_timeout for one slice. *)
Wait(c) ==
  /\ phase[c] = "wait"
  /\ Receive(c, LoopHead(c))
  /\ UNCHANGED <<quiet, inbox>>

(* The guard's owner asks for fresh proxy bindings, then drops it. *)
RefreshProxiesOnResume(c) ==
  /\ phase[c] = "held"
  /\ ~refresh[c]
  /\ refresh' = [refresh EXCEPT ![c] = TRUE]
  /\ UNCHANGED <<asks, phase, told, op, reply, resume, inbox, executors>>

DropGuard(c) ==
  /\ phase[c] = "held"
  /\ phase' = [phase EXCEPT ![c] = "done"]
  /\ resume' = [resume EXCEPT ![c] = IF refresh[c] THEN "refresh" ELSE "resume"]
  /\ UNCHANGED <<asks, refresh, told, op, reply, inbox, executors>>

Caller(c) ==
  \/ Start(c) \/ SendCall(c) \/ Poll(c) \/ Cancel(c) \/ Overdue(c)
  \/ InTime(c) \/ LastLook(c) \/ GiveUp(c) \/ Wait(c)

-----------------------------------------------------------------------------
(* The executors. *)

At(e, next) == step' = [step EXCEPT ![e] = next]

(* Take the next message; one that its caller abandoned is dropped. *)
TakeCall(e) ==
  /\ step[e] = "idle"
  /\ inbox[e] # <<>>
  /\ LET c == Head(inbox[e])
     IN  /\ serving' = [serving EXCEPT ![e] = c]
         /\ \/ /\ op[c] = "pending"
               /\ op' = [op EXCEPT ![c] = "running"]
               /\ At(e, "claimed")
               /\ UNCHANGED reply
            \/ /\ op[c] # "pending"
               /\ reply' = [reply EXCEPT ![c] = "closed"]
               /\ UNCHANGED <<op, step>>
  /\ inbox' = [inbox EXCEPT ![e] = Tail(@)]
  /\ UNCHANGED <<callers, resume, ran, refreshed>>

(* Run the operation, or copy the project for a lease. *)
Run(e) ==
  /\ step[e] = "claimed"
  /\ ran' = ran \cup {serving[e]}
  /\ At(e, "ran")
  /\ UNCHANGED <<callers, op, reply, resume, inbox, serving, refreshed>>

(* The UI finds its window closed. *)
Refuse(e) ==
  /\ e = "ui"
  /\ step[e] = "claimed"
  /\ reply' = [reply EXCEPT ![serving[e]] = "refused"]
  /\ At(e, "idle")
  /\ UNCHANGED <<callers, op, resume, inbox, serving, ran, refreshed>>

\* A fault: a lease is answered and the worker goes on.
AnswerOnly(e) ==
  /\ step[e] = "ran"
  /\ reply' = [reply EXCEPT ![serving[e]] = "value"]
  /\ At(e, "idle")
  /\ UNCHANGED <<callers, op, resume, inbox, serving, ran, refreshed>>

(* Send the answer.  A lease pauses the worker unless nobody listens. *)
Answer(e) ==
  /\ step[e] = "ran"
  /\ LET c == serving[e]
     IN  /\ reply' = [reply EXCEPT ![c] = "value"]
         /\ At(e, IF asks[c] = "lease" /\ phase[c] # "done" THEN "paused" ELSE "idle")
  /\ UNCHANGED <<callers, op, resume, inbox, serving, ran, refreshed>>

\* A fault: what the guard asked for is not looked at.
ResumeOnly(e) ==
  /\ step[e] = "paused"
  /\ resume[serving[e]] # "open"
  /\ At(e, "idle")
  /\ UNCHANGED <<callers, op, reply, resume, inbox, serving, ran, refreshed>>

(* resume.recv() returns the guard's action, or fails once its sender is gone. *)
Resume(e) ==
  /\ step[e] = "paused"
  /\ resume[serving[e]] # "open"
  /\ At(e, "idle")
  /\ refreshed' = IF resume[serving[e]] = "refresh"
                  THEN refreshed \cup {serving[e]} ELSE refreshed
  /\ UNCHANGED <<callers, op, reply, resume, inbox, serving, ran>>

(* A panic ends the worker, and quitting ends the event loop: whatever is  *)
(* queued is dropped, and so is the answer to the operation in hand.       *)
Stop(e) ==
  /\ step[e] \in {"idle", "claimed", "ran"}
  /\ At(e, "dead")
  /\ reply' = [c \in Call |->
       IF \/ \E i \in DOMAIN inbox[e] : inbox[e][i] = c
          \/ step[e] # "idle" /\ serving[e] = c
       THEN "closed" ELSE reply[c]]
  /\ inbox' = [inbox EXCEPT ![e] = <<>>]
  /\ UNCHANGED <<callers, op, resume, serving, ran, refreshed>>

Serve(e) == TakeCall(e) \/ Run(e) \/ Refuse(e) \/ Answer(e) \/ Resume(e)

-----------------------------------------------------------------------------
RpcNext ==
  \/ \E c \in Call :
       Caller(c) \/ RefreshProxiesOnResume(c) \/ DropGuard(c)
  \/ \E e \in Executor : Serve(e) \/ Stop(e)

RpcSpec == RpcInit /\ [][RpcNext]_rpcVars

(***************************************************************************)
(* Callers run, and a caller that looks at its deadline again and again    *)
(* finds it passed, whatever the executors do.  The worker wakes up from   *)
(* resume.recv(), and the owner of a guard drops it at last; nothing is    *)
(* assumed of the operations themselves, which may hang.                   *)
(***************************************************************************)
FairRpcSpec ==
  /\ RpcSpec
  /\ \A c \in Call : WF_rpcVars(Caller(c)) /\ SF_rpcVars(Overdue(c)) /\ WF_rpcVars(DropGuard(c))
  /\ WF_rpcVars(Resume("worker"))

-----------------------------------------------------------------------------
(* Types. *)
RpcTypeOK ==
  /\ asks \in [Call -> Kind]
  /\ phase \in [Call -> {"start", "send", "poll", "cancel", "deadline", "last",
                      "giveUp", "wait", "held", "done"}]
  /\ op \in [Call -> {"pending", "running", "abandoned"}]
  /\ reply \in [Call -> {"empty", "value", "refused", "closed"}]
  /\ resume \in [Call -> {"open", "resume", "refresh", "closed"}]
  /\ refresh \in [Call -> BOOLEAN]
  /\ told \in [Call -> {"nothing", "result", "notStarted", "unknown"}]
  /\ inbox \in [Executor -> Seq(Call)]
  /\ step \in [Executor -> {"idle", "claimed", "ran", "paused", "dead"}]
  /\ serving \in [Executor -> Call \cup {NoCall}]
  /\ ran \subseteq Call
  /\ refreshed \subseteq Call

(* While a guard is held the worker is paused, and for that guard: nothing *)
(* it owns changes under the maintenance, and no two guards are out.       *)
HeldMeansPaused ==
  \A c \in Call :
    phase[c] = "held" => step["worker"] = "paused" /\ serving["worker"] = c

(* A guard that asked for fresh proxy bindings is dropped: the worker takes *)
(* no further message before it has refreshed them.                        *)
RefreshPrecedesWork ==
  \A c \in Call :
    resume[c] = "refresh" =>
      \/ c \in refreshed
      \/ step["worker"] = "paused" /\ serving["worker"] = c

(* The claim protocol keeps what AcknowledgedCall promises to callers. *)
Promise == INSTANCE AcknowledgedCall
KeepsPromise == Promise!Spec

(* Every call returns, also when the worker or the UI never answers. *)
EveryCallReturns ==
  \A c \in Call : phase[c] = "send" ~> phase[c] \in {"held", "done"}

(* No lease leaves the worker paused for good: not one whose caller timed  *)
(* out while the grant was on its way.                                     *)
PauseEnds == step["worker"] = "paused" ~> step["worker"] # "paused"
=============================================================================
