----------------------------- MODULE JobManager -----------------------------
(***************************************************************************)
(* The background-job registry of crates/cutlass-jobs/src/lib.rs.          *)
(*                                                                         *)
(* Caller threads spawn jobs, each job runs on exactly one thread, any     *)
(* thread may request cancellation, and subscribers observe every          *)
(* transition.  One action is one critical section of the registry mutex   *)
(* (Shared::inner), one atomic operation outside it, or one callback into  *)
(* one subscriber; everything between two actions interleaves freely.      *)
(*                                                                         *)
(* Labels, details, progress fractions and structured outputs are data the *)
(* properties do not tell apart and are left out; a progress report is     *)
(* kept as an event.                                                       *)
(***************************************************************************)
EXTENDS Integers, FiniteSets, Sequences

CONSTANTS
  Spawner,      \* threads that call JobManager::spawn
  Subscriber,   \* callbacks handed to JobManager::subscribe
  MaxJobs,      \* bound: how many spawns a behaviour contains
  MaxProgress,  \* bound: progress reports per job
  KeepFinished  \* KEEP_FINISHED

ASSUME JobAssumption ==
  /\ MaxJobs \in Nat
  /\ MaxProgress \in Nat
  /\ KeepFinished \in Nat \ {0}

JobId == 1 .. MaxJobs

NoJob == 0

Terminal == {"Done", "Failed", "Cancelled"}
JobState == {"Queued", "Running"} \cup Terminal

VARIABLES
  nextId,       \* Shared::next_id
  order,        \* every id pushed on Inner::jobs so far, in push order
  state,        \* JobSnapshot::state of a registered job, else "absent"
  open,         \* Job::cancellation_open (= JobSnapshot::cancellable)
  flag,         \* the AtomicBool shared by Job, JobContext and the tokens
  finished,     \* JobSnapshot::finished, an Instant; 0 is None
  clock,        \* the last Instant read; every terminal write reads a later one
  subscribers,  \* Inner::subscribers
  spawner,      \* progress of each caller through spawn_with_completion
  thread,       \* progress of each job's own thread
  pending,      \* the event its actor is delivering, and to whom
  view,         \* what each subscriber last learned about each job
  rendered,     \* subscribers that rendered their catch-up snapshot
  won,          \* jobs whose try_begin_commit returned true
  published     \* jobs whose work performed its irreversible step

vars == <<nextId, order, state, open, flag, finished, clock, subscribers,
          spawner, thread, pending, view, rendered, won, published>>

-----------------------------------------------------------------------------
(* The registry *)

IsTerminal(s) == s \in Terminal

Registered == {i \in JobId : state[i] # "absent"}

FinishedJobs == {i \in JobId : IsTerminal(state[i])}

(***************************************************************************)
(* Inner::jobs, the Vec: the ids still registered, in push order.          *)
(***************************************************************************)
Jobs == SelectSeq(order, LAMBDA i : state[i] # "absent")

(***************************************************************************)
(* slice::binary_search_by_key: halve the window, keeping the left half    *)
(* when the probe is greater than the key, then compare the one element    *)
(* left.  On an unsorted Vec it may miss an element that is there.         *)
(***************************************************************************)
Probe(v, key) ==
  LET narrow[base \in Nat, size \in Nat] ==
        IF size <= 1 THEN base
        ELSE LET half == size \div 2
                 mid  == base + half
             IN narrow[IF v[mid] > key THEN base ELSE mid, size - half]
  IN  narrow[1, Len(v)]

(***************************************************************************)
(* Inner::index_of(id).is_some()                                           *)
(***************************************************************************)
Found(i) ==
  /\ state[i] # "absent"
  /\ Jobs # << >>
  /\ Jobs[Probe(Jobs, i)] = i

\* A fault: the newest-finished jobs go instead of the oldest.
DoomedNewest(S, at) == {i \in S : Cardinality({j \in S : at[j] < at[i]}) >= KeepFinished}

(***************************************************************************)
(* The jobs Inner::prune_finished drops when those of S are finished at    *)
(* the times `at`: the oldest-finished beyond the newest KeepFinished.     *)
(***************************************************************************)
Doomed(S, at) ==
  {i \in S : Cardinality({j \in S : at[j] > at[i]}) >= KeepFinished}

-----------------------------------------------------------------------------
(* Events *)

NoEvent == [state |-> "absent", to |-> {}]

Event(s) == [state |-> s, to |-> subscribers]

\* A fault: a transition reaches nobody.
PublishNothing(i, s) == UNCHANGED pending

(***************************************************************************)
(* deliver_to_subscribers: the list captured under the lock is called      *)
(* after the guard is dropped, by the thread that made the transition.     *)
(***************************************************************************)
Publish(i, s) ==
  pending' = [pending EXCEPT ![i] =
                IF subscribers = {} THEN NoEvent ELSE Event(s)]

Delivering(i) == pending[i].to # {}

(***************************************************************************)
(* One subscriber callback returns (or panics, which is contained).        *)
(***************************************************************************)
Deliver(i, sub) ==
  /\ sub \in pending[i].to
  /\ view' = [view EXCEPT ![sub][i] = pending[i].state]
  /\ LET rest == pending[i].to \ {sub} IN
     pending' = [pending EXCEPT ![i] =
                   IF rest = {} THEN NoEvent ELSE [@ EXCEPT !.to = rest]]
  /\ UNCHANGED <<nextId, order, state, open, flag, finished, clock,
                 subscribers, spawner, thread, rendered, won, published>>

-----------------------------------------------------------------------------
(* The caller's side: spawn_with_completion *)

(***************************************************************************)
(* next_id.fetch_add, before the registry lock is taken.                   *)
(***************************************************************************)
AllocateId(s) ==
  /\ spawner[s].pc = "idle"
  /\ nextId <= MaxJobs
  /\ spawner' = [spawner EXCEPT ![s] = [pc |-> "push", id |-> nextId]]
  /\ nextId' = nextId + 1
  /\ UNCHANGED <<order, state, open, flag, finished, clock, subscribers,
                 thread, pending, view, rendered, won, published>>

(***************************************************************************)
(* Under the lock: inner.jobs.push of the Queued snapshot.                 *)
(***************************************************************************)
PushQueued(s) ==
  LET i == spawner[s].id IN
  /\ spawner[s].pc = "push"
  /\ order' = Append(order, i)
  /\ state' = [state EXCEPT ![i] = "Queued"]
  /\ open' = [open EXCEPT ![i] = TRUE]
  /\ Publish(i, "Queued")
  /\ spawner' = [spawner EXCEPT ![s].pc = "start"]
  /\ UNCHANGED <<nextId, flag, finished, clock, subscribers, thread, view,
                 rendered, won, published>>

(***************************************************************************)
(* Builder::spawn succeeds: the job's thread exists.                       *)
(***************************************************************************)
StartThread(s) ==
  LET i == spawner[s].id IN
  /\ spawner[s].pc = "start"
  /\ ~Delivering(i)
  /\ thread' = [thread EXCEPT ![i].pc = "enter"]
  /\ spawner' = [spawner EXCEPT ![s] = [pc |-> "idle", id |-> NoJob]]
  /\ UNCHANGED <<nextId, order, state, open, flag, finished, clock,
                 subscribers, pending, view, rendered, won, published>>

(***************************************************************************)
(* The terminal half of Shared::update: state, finish time and the closed  *)
(* cancellation window in one critical section, then the prune.  A job the *)
(* lookup does not find is left as it is and publishes nothing.            *)
(***************************************************************************)
Finish(i, s) ==
  IF Found(i)
  THEN LET at      == [finished EXCEPT ![i] = clock + 1]
           dropped == Doomed(FinishedJobs \cup {i}, at)
       IN  /\ state' = [j \in JobId |-> IF j \in dropped THEN "absent"
                                        ELSE IF j = i THEN s ELSE state[j]]
           /\ open' = [open EXCEPT ![i] = FALSE]
           /\ finished' = at
           /\ clock' = clock + 1
           /\ Publish(i, s)
  ELSE UNCHANGED <<state, open, finished, clock, pending>>

\* A fault: the failure is returned, not recorded on the job.
SpawnFailsSilently(s) ==
  /\ spawner[s].pc = "start"
  /\ ~Delivering(spawner[s].id)
  /\ spawner' = [spawner EXCEPT ![s].pc = "return"]
  /\ UNCHANGED <<nextId, order, state, open, flag, finished, clock, subscribers,
                 thread, pending, view, rendered, won, published>>

\* A fault: the job is failed although its thread did start.
SpawnFailsLate(s) ==
  LET i == spawner[s].id IN
  /\ spawner[s].pc = "start"
  /\ ~Delivering(i)
  /\ Finish(i, "Failed")
  /\ thread' = [thread EXCEPT ![i].pc = "enter"]
  /\ spawner' = [spawner EXCEPT ![s].pc = "return"]
  /\ UNCHANGED <<nextId, order, flag, subscribers, view, rendered, won,
                 published>>

(***************************************************************************)
(* Builder::spawn fails: the caller itself lands the job in Failed.        *)
(***************************************************************************)
SpawnFails(s) ==
  LET i == spawner[s].id IN
  /\ spawner[s].pc = "start"
  /\ ~Delivering(i)
  /\ Finish(i, "Failed")
  /\ thread' = [thread EXCEPT ![i].pc = "exited"]
  /\ spawner' = [spawner EXCEPT ![s].pc = "return"]
  /\ UNCHANGED <<nextId, order, flag, subscribers, view, rendered, won,
                 published>>

(***************************************************************************)
(* The caller has delivered the Failed event and gets its id back.         *)
(***************************************************************************)
SpawnReturns(s) ==
  /\ spawner[s].pc = "return"
  /\ ~Delivering(spawner[s].id)
  /\ spawner' = [spawner EXCEPT ![s] = [pc |-> "idle", id |-> NoJob]]
  /\ UNCHANGED <<nextId, order, state, open, flag, finished, clock,
                 subscribers, thread, pending, view, rendered, won, published>>

-----------------------------------------------------------------------------
(* The job's own thread.  A thread that is delivering is inside its        *)
(* callbacks and takes no other step.                                      *)

At(i, pc) == thread[i].pc = pc /\ ~Delivering(i)

\* A fault: the transition to Running is not announced.
EnterRunningQuietly(i) ==
  /\ At(i, "enter")
  /\ state' = IF Found(i) THEN [state EXCEPT ![i] = "Running"] ELSE state
  /\ thread' = [thread EXCEPT ![i].pc = "work"]
  /\ UNCHANGED <<nextId, order, open, flag, finished, clock, subscribers,
                 spawner, pending, view, rendered, won, published>>

(***************************************************************************)
(* shared.update(id, Running)                                              *)
(***************************************************************************)
EnterRunning(i) ==
  /\ At(i, "enter")
  /\ IF Found(i)
     THEN state' = [state EXCEPT ![i] = "Running"] /\ Publish(i, "Running")
     ELSE UNCHANGED <<state, pending>>
  /\ thread' = [thread EXCEPT ![i].pc = "work"]
  /\ UNCHANGED <<nextId, order, open, flag, finished, clock, subscribers,
                 spawner, view, rendered, won, published>>

(***************************************************************************)
(* JobContext::set_progress                                                *)
(***************************************************************************)
SetProgress(i) ==
  /\ At(i, "work")
  /\ thread[i].reports < MaxProgress
  /\ IF Found(i) THEN Publish(i, state[i]) ELSE UNCHANGED pending
  /\ thread' = [thread EXCEPT ![i].reports = @ + 1]
  /\ UNCHANGED <<nextId, order, state, open, flag, finished, clock,
                 subscribers, spawner, view, rendered, won, published>>

\* A fault: an accepted cancellation does not stop the commit.
BoundaryOpensLate(i) == Found(i) /\ ~IsTerminal(state[i])

(***************************************************************************)
(* Shared::try_begin_commit.  FALSE for a job that is missing, terminal or *)
(* already asked to cancel; TRUE and one boundary event the first time;    *)
(* TRUE and no event when this job already won.                            *)
(***************************************************************************)
BoundaryOpens(i) == Found(i) /\ ~IsTerminal(state[i]) /\ ~flag[i]

TryBeginCommit(i) ==
  /\ At(i, "work")
  /\ BoundaryOpens(i)
  /\ won' = won \cup {i}
  /\ open' = [open EXCEPT ![i] = FALSE]
  /\ IF open[i] THEN Publish(i, state[i]) ELSE UNCHANGED pending
  /\ UNCHANGED <<nextId, order, state, flag, finished, clock, subscribers,
                 spawner, thread, view, rendered, published>>

(***************************************************************************)
(* The work's irreversible step (a rename, a SQLite commit): the contract  *)
(* of try_begin_commit lets it happen only after the boundary was won.     *)
(***************************************************************************)
PublishResult(i) ==
  /\ At(i, "work")
  /\ i \in won \ published
  /\ published' = published \cup {i}
  /\ UNCHANGED <<nextId, order, state, open, flag, finished, clock,
                 subscribers, spawner, thread, pending, view, rendered, won>>

(***************************************************************************)
(* The work closure returns Ok or Err, or panics.                          *)
(***************************************************************************)
WorkReturns(i, result) ==
  /\ At(i, "work")
  /\ thread' = [thread EXCEPT ![i] = [@ EXCEPT !.pc = "finish", !.result = result]]
  /\ UNCHANGED <<nextId, order, state, open, flag, finished, clock,
                 subscribers, spawner, pending, view, rendered, won, published>>

\* A fault: the flag is not read when the work returns.
OutcomeUncancelled(i) == IF thread[i].result = "ok" THEN "Done" ELSE "Failed"

(***************************************************************************)
(* The terminal state, decided under the same lock as `cancel`.            *)
(***************************************************************************)
Outcome(i) ==
  CASE thread[i].result = "panic" -> "Failed"
    [] thread[i].result # "panic" /\ flag[i] -> "Cancelled"
    [] thread[i].result = "err" /\ ~flag[i] -> "Failed"
    [] thread[i].result = "ok" /\ ~flag[i] -> "Done"

TerminalUpdate(i) ==
  /\ At(i, "finish")
  /\ Finish(i, Outcome(i))
  /\ thread' = [thread EXCEPT ![i].pc = "exited"]
  /\ UNCHANGED <<nextId, order, flag, subscribers, spawner, view, rendered,
                 won, published>>

-----------------------------------------------------------------------------
(* Anybody *)

\* A fault: a closed cancellation window is ignored.
CancelAnytime(i) ==
  /\ Found(i)
  /\ ~IsTerminal(state[i])
  /\ flag' = [flag EXCEPT ![i] = TRUE]
  /\ UNCHANGED <<nextId, order, state, open, finished, clock, subscribers,
                 spawner, thread, pending, view, rendered, won, published>>

(***************************************************************************)
(* JobManager::cancel returning true.  A rejected request changes nothing. *)
(***************************************************************************)
Cancel(i) ==
  /\ Found(i)
  /\ ~IsTerminal(state[i])
  /\ open[i]
  /\ flag' = [flag EXCEPT ![i] = TRUE]
  /\ UNCHANGED <<nextId, order, state, open, finished, clock, subscribers,
                 spawner, thread, pending, view, rendered, won, published>>

(***************************************************************************)
(* JobManager::subscribe                                                   *)
(***************************************************************************)
Subscribe(sub) ==
  /\ sub \notin subscribers
  /\ subscribers' = subscribers \cup {sub}
  /\ UNCHANGED <<nextId, order, state, open, flag, finished, clock, spawner,
                 thread, pending, view, rendered, won, published>>

(***************************************************************************)
(* JobManager::snapshot, rendered once by a subscriber to catch up on the  *)
(* jobs that existed before it subscribed.                                 *)
(***************************************************************************)
RenderSnapshot(sub) ==
  /\ sub \in subscribers \ rendered
  /\ rendered' = rendered \cup {sub}
  /\ view' = [view EXCEPT ![sub] =
                [i \in JobId |-> IF i \in Registered THEN state[i] ELSE @[i]]]
  /\ UNCHANGED <<nextId, order, state, open, flag, finished, clock,
                 subscribers, spawner, thread, pending, won, published>>

-----------------------------------------------------------------------------

Init ==
  /\ nextId = 1
  /\ order = << >>
  /\ state = [i \in JobId |-> "absent"]
  /\ open = [i \in JobId |-> FALSE]
  /\ flag = [i \in JobId |-> FALSE]
  /\ finished = [i \in JobId |-> 0]
  /\ clock = 0
  /\ subscribers = {}
  /\ spawner = [s \in Spawner |-> [pc |-> "idle", id |-> NoJob]]
  /\ thread = [i \in JobId |-> [pc |-> "none", result |-> "none", reports |-> 0]]
  /\ pending = [i \in JobId |-> NoEvent]
  /\ view = [sub \in Subscriber |-> [i \in JobId |-> "absent"]]
  /\ rendered = {}
  /\ won = {}
  /\ published = {}

SpawnerStep(s) ==
  \/ AllocateId(s)
  \/ PushQueued(s)
  \/ StartThread(s)
  \/ SpawnFails(s)
  \/ SpawnReturns(s)

Result == {"ok", "err", "panic"}

ThreadStep(i) ==
  \/ EnterRunning(i)
  \/ SetProgress(i)
  \/ TryBeginCommit(i)
  \/ PublishResult(i)
  \/ \E result \in Result : WorkReturns(i, result)
  \/ TerminalUpdate(i)

Next ==
  \/ \E s \in Spawner : SpawnerStep(s)
  \/ \E i \in JobId : ThreadStep(i)
  \/ \E i \in JobId : Cancel(i)
  \/ \E i \in JobId, sub \in Subscriber : Deliver(i, sub)
  \/ \E sub \in Subscriber : Subscribe(sub) \/ RenderSnapshot(sub)

Spec == Init /\ [][Next]_vars

(***************************************************************************)
(* Threads are scheduled, callbacks return and every work closure returns  *)
(* in the end (the one thing the registry asks of its client): weak        *)
(* fairness of each thread's own steps.  Requests to spawn, cancel or      *)
(* subscribe are never owed.                                               *)
(***************************************************************************)
Fairness ==
  /\ \A s \in Spawner : WF_vars(PushQueued(s)) /\ WF_vars(StartThread(s) \/ SpawnFails(s))
  /\ \A i \in JobId :
       /\ WF_vars(EnterRunning(i))
       /\ WF_vars(\E result \in Result : WorkReturns(i, result))
       /\ WF_vars(TerminalUpdate(i))
  /\ \A i \in JobId, sub \in Subscriber : WF_vars(Deliver(i, sub))

FairSpec == Spec /\ Fairness

-----------------------------------------------------------------------------
(* Type correctness *)

SpawnerPc == {"idle", "push", "start", "return"}
ThreadPc == {"none", "enter", "work", "finish", "exited"}

(***************************************************************************)
(* The registry and its threads stay in their types; a subscriber catches  *)
(* up only after subscribing, and work publishes only past the commit      *)
(* boundary.                                                               *)
(***************************************************************************)
TypeOK ==
  /\ nextId \in 1 .. MaxJobs + 1
  /\ order \in Seq(JobId)
  /\ state \in [JobId -> JobState \cup {"absent"}]
  /\ open \in [JobId -> BOOLEAN]
  /\ flag \in [JobId -> BOOLEAN]
  /\ finished \in [JobId -> Nat]
  /\ clock \in Nat
  /\ subscribers \subseteq Subscriber
  /\ spawner \in [Spawner -> [pc : SpawnerPc, id : JobId \cup {NoJob}]]
  /\ thread \in [JobId -> [pc : ThreadPc, result : Result \cup {"none"},
                           reports : 0 .. MaxProgress]]
  /\ pending \in [JobId -> [state : JobState \cup {"absent"}, to : SUBSET Subscriber]]
  /\ view \in [Subscriber -> [JobId -> JobState \cup {"absent"}]]
  /\ rendered \subseteq subscribers
  /\ won \subseteq JobId
  /\ published \subseteq won

-----------------------------------------------------------------------------
(* Safety *)

(***************************************************************************)
(* Cancel and the commit boundary contend under one mutex and exactly one  *)
(* of them wins: no job both had a cancellation accepted and won           *)
(* try_begin_commit, however the two calls interleave (lib.rs:20-29).      *)
(***************************************************************************)
OneWinner == \A i \in JobId : ~(flag[i] /\ i \in won)

(***************************************************************************)
(* A job whose irreversible step happened is never reported Cancelled, and *)
(* a job whose cancellation was accepted is never reported Done.           *)
(***************************************************************************)
ReportMatchesEffect ==
  \A i \in JobId :
    /\ state[i] = "Cancelled" => flag[i] /\ i \notin published
    /\ state[i] = "Done" => ~flag[i]

(***************************************************************************)
(* Once a subscriber has subscribed and then rendered one snapshot, what   *)
(* it shows of a registered job differs from the registry only while an    *)
(* event for it is still on its way (lib.rs:603-604).                      *)
(***************************************************************************)
CaughtUp ==
  \A sub \in rendered, i \in Registered :
    sub \in pending[i].to \/ view[sub][i] = state[i]

-----------------------------------------------------------------------------
(* Action properties *)

PruneStep ==
  \A i \in Registered :
    /\ IsTerminal(state[i]) => state'[i] \in {state[i], "absent"}
    /\ state'[i] = "absent" =>
         /\ IsTerminal(state[i])
         /\ \A j \in FinishedJobs' : finished'[i] < finished'[j]

(***************************************************************************)
(* A terminal snapshot never changes again: it stays, or the job is        *)
(* pruned; and only a finished job is ever pruned, every finished job that *)
(* stays having finished later.  In particular a job survives the prune of *)
(* its own terminal transition.                                            *)
(***************************************************************************)
TerminalIsFinal == [][PruneStep]_vars

Rank(s) == CASE s = "absent" -> 0 [] s = "Queued" -> 1 [] s = "Running" -> 2
             [] IsTerminal(s) -> 3

ViewStep ==
  \A sub \in Subscriber, i \in JobId :
    \/ view'[sub][i] = view[sub][i]
    \/ Rank(view[sub][i]) < Rank(view'[sub][i])

(***************************************************************************)
(* A subscriber sees each job in lifecycle order: Queued, Running, then    *)
(* one terminal state and nothing after it.                                *)
(***************************************************************************)
EventsInOrder == [][ViewStep]_vars

-----------------------------------------------------------------------------
(* Liveness *)

(***************************************************************************)
(* Every job that was registered lands in a terminal state, whether its    *)
(* thread started or not, was cancelled or not.                            *)
(***************************************************************************)
EveryJobFinishes ==
  \A i \in JobId : state[i] = "Queued" ~> i \notin Registered \/ IsTerminal(state[i])

(***************************************************************************)
(* A subscriber registered while a job lives learns its terminal state.    *)
(***************************************************************************)
SubscribersLearn ==
  \A sub \in Subscriber, i \in JobId :
    (sub \in subscribers /\ state[i] \in {"Queued", "Running"})
      ~> IsTerminal(view[sub][i])
-----------------------------------------------------------------------------
(* The abstract lifecycle *)

Pushed == {order[k] : k \in DOMAIN order}

Phase ==
  [i \in JobId |-> IF state[i] # "absent" THEN state[i]
                   ELSE IF i \in Pushed THEN "forgotten" ELSE "unborn"]

Verdict ==
  [i \in JobId |-> IF flag[i] THEN "cancel"
                   ELSE IF i \in won THEN "commit" ELSE "undecided"]

Lifecycle == INSTANCE JobLifecycle WITH
  Job <- JobId, phase <- Phase, verdict <- Verdict, effect <- published

(***************************************************************************)
(* The registry implements the lifecycle its documentation promises: every *)
(* critical section is one lifecycle step or invisible.                    *)
(***************************************************************************)
ImplementsLifecycle == Lifecycle!Spec
=============================================================================
