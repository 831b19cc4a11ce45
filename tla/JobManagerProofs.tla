-------------------------- MODULE JobManagerProofs --------------------------
(***************************************************************************)
(* Theorems about JobManager, for every number of jobs, callers and        *)
(* subscribers and every KeepFinished.                                     *)
(*                                                                         *)
(* The inductive invariant ties three pieces of state that the code keeps  *)
(* apart: how far the caller is in spawn_with_completion, how far the      *)
(* job's thread is, and what the registry says of the job.  What the       *)
(* subscribers see, with an invariant of its own, comes last.              *)
(***************************************************************************)
EXTENDS JobManager, FiniteSetTheorems, TLAPS

-----------------------------------------------------------------------------
(* The inductive invariant *)

Live == {"Queued", "Running"}

(***************************************************************************)
(* Nothing has happened to an id that was not handed out, or was handed    *)
(* out and not yet pushed.                                                 *)
(***************************************************************************)
Untouched(i) ==
  /\ state[i] = "absent"
  /\ thread[i].pc = "none"
  /\ ~flag[i]
  /\ ~open[i]
  /\ i \notin won
  /\ i \notin Pushed

Starting(s) == spawner[s].pc \in {"push", "start"}

(***************************************************************************)
(* Ids are unique: the caller that holds one is the only one that does,    *)
(* and the job's thread does not exist yet.                                *)
(***************************************************************************)
CallersInv ==
  /\ \A s \in Spawner : spawner[s].pc # "idle" =>
       spawner[s].id \in JobId /\ spawner[s].id < nextId
  /\ \A s, t \in Spawner :
       Starting(s) /\ Starting(t) /\ s # t => spawner[s].id # spawner[t].id
  /\ \A s \in Spawner : spawner[s].pc = "push" => Untouched(spawner[s].id)
  /\ \A s \in Spawner : spawner[s].pc = "start" =>
       state[spawner[s].id] = "Queued" /\ thread[spawner[s].id].pc = "none"
  /\ \A i \in JobId : i >= nextId => Untouched(i)

(***************************************************************************)
(* A job ends only as its thread exits, and only an ended job is pruned.   *)
(***************************************************************************)
ThreadsInv ==
  \A i \in JobId :
    /\ thread[i].pc = "enter" => state[i] = "Queued"
    /\ thread[i].pc \in {"work", "finish"} => state[i] \in Live
    /\ thread[i].pc = "finish" => thread[i].result \in Result
    /\ IsTerminal(state[i]) => thread[i].pc = "exited"
    /\ i \in Pushed /\ state[i] = "absent" => thread[i].pc = "exited"
    /\ state[i] # "absent" => i \in Pushed

(***************************************************************************)
(* The window is open only while the job lives and nobody has won, and the *)
(* finish times never run ahead of the clock.                              *)
(***************************************************************************)
WindowInv ==
  \A i \in JobId :
    /\ open[i] => state[i] \in Live
    /\ i \in won => ~open[i] /\ ~flag[i]
    /\ state[i] = "Cancelled" => flag[i]
    /\ state[i] = "Done" => ~flag[i]
    /\ finished[i] <= clock

IInv == TypeOK /\ CallersInv /\ ThreadsInv /\ WindowInv
-----------------------------------------------------------------------------
(* Lemmas about the operators *)

(***************************************************************************)
(* A push adds its id to the pushed ids and forgets none.                  *)
(***************************************************************************)
LEMMA PushAdds ==
  ASSUME order \in Seq(JobId), NEW i \in JobId, order' = Append(order, i)
  PROVE  Pushed' = Pushed \cup {i} /\ order' \in Seq(JobId)
<1>1. DOMAIN order' = DOMAIN order \cup {Len(order) + 1}
  OBVIOUS
<1>2. order'[Len(order) + 1] = i
  OBVIOUS
<1>3. \A k \in DOMAIN order : order'[k] = order[k]
  OBVIOUS
<1>4. Len(order) + 1 \notin DOMAIN order
  OBVIOUS
<1>5. Pushed' = Pushed \cup {i}
  BY <1>1, <1>2, <1>3, <1>4 DEF Pushed
<1>6. QED BY <1>5

(***************************************************************************)
(* An event to deliver has the type of an event.                           *)
(***************************************************************************)
LEMMA PublishType ==
  ASSUME TypeOK, NEW i \in JobId, NEW s \in JobState, Publish(i, s)
  PROVE  pending' \in [JobId -> [state : JobState \cup {"absent"},
                                 to : SUBSET Subscriber]]
BY DEF TypeOK, Publish, NoEvent, Event

(***************************************************************************)
(* The prune never drops the job that is just finishing: no other finish   *)
(* time is later than its own.                                             *)
(***************************************************************************)
LEMMA NewestSurvives ==
  ASSUME NEW S \in SUBSET JobId, NEW at \in [JobId -> Nat], NEW i \in JobId,
         \A j \in JobId : at[j] <= at[i]
  PROVE  i \notin Doomed(S, at)
<1>1. {j \in S : at[j] > at[i]} = {}
  <2>1. \A j \in S : ~(at[j] > at[i])
    <3>1. \A j \in JobId : at[j] \in Nat
      OBVIOUS
    <3>2. QED BY <3>1
  <2>2. QED BY <2>1
<1>2. Cardinality({j \in S : at[j] > at[i]}) = 0
  BY <1>1, FS_EmptySet
<1>3. QED BY <1>2, JobAssumption DEF Doomed

(***************************************************************************)
(* A job the prune drops finished before every job the prune keeps.        *)
(***************************************************************************)
LEMMA DoomedAreOldest ==
  ASSUME NEW S \in SUBSET JobId, NEW at \in [JobId -> Nat],
         NEW i \in Doomed(S, at), NEW j \in S \ Doomed(S, at)
  PROVE  at[i] < at[j]
<1> DEFINE Later(k) == {m \in S : at[m] > at[k]}
<1>1. IsFiniteSet(S)
  <2>1. MaxJobs \in Int /\ 1 \in Int
    BY JobAssumption
  <2>2. IsFiniteSet(JobId)
    BY <2>1, FS_Interval DEF JobId
  <2>3. QED BY <2>2, FS_Subset
<1>2. \A k \in S : IsFiniteSet(Later(k)) /\ Cardinality(Later(k)) \in Nat
  BY <1>1, FS_Subset, FS_CardinalityType
<1>3. i \in S /\ Cardinality(Later(i)) >= KeepFinished
  BY DEF Doomed
<1>4. j \in S /\ ~(Cardinality(Later(j)) >= KeepFinished)
  BY DEF Doomed
<1>5. SUFFICES ASSUME ~(at[i] < at[j]) PROVE FALSE
  OBVIOUS
<1>6. Later(i) \subseteq Later(j)
  <2>1. at[i] \in Nat /\ at[j] \in Nat /\ \A m \in S : at[m] \in Nat
    BY <1>3, <1>4
  <2>2. QED BY <2>1, <1>5
<1>7. Cardinality(Later(i)) <= Cardinality(Later(j))
  BY <1>2, <1>4, <1>6, FS_Subset
<1>8. /\ Cardinality(Later(i)) \in Nat
      /\ Cardinality(Later(j)) \in Nat
      /\ KeepFinished \in Nat
  BY <1>2, <1>3, <1>4, JobAssumption
<1>9. QED
  <2> HIDE DEF Later
  <2>1. QED BY <1>3, <1>4, <1>7, <1>8

(***************************************************************************)
(* What Finish does, free of the search and of the count of the prune.     *)
(***************************************************************************)
FinishEffect(i, s, D) ==
  /\ D = Doomed(FinishedJobs \cup {i}, finished')
  /\ D \subseteq FinishedJobs
  /\ i \notin D
  /\ state[i] # "absent"
  /\ state' = [j \in JobId |-> IF j \in D THEN "absent"
                               ELSE IF j = i THEN s ELSE state[j]]
  /\ open' = [open EXCEPT ![i] = FALSE]
  /\ finished' = [finished EXCEPT ![i] = clock + 1]
  /\ clock' = clock + 1
  /\ pending' \in [JobId -> [state : JobState \cup {"absent"},
                             to : SUBSET Subscriber]]

LEMMA FinishCases ==
  ASSUME TypeOK, WindowInv, NEW i \in JobId, NEW s \in Terminal, Finish(i, s)
  PROVE  \/ UNCHANGED <<state, open, finished, clock, pending>>
         \/ \E D \in SUBSET JobId : FinishEffect(i, s, D)
<1>1. CASE ~Found(i)
  BY <1>1 DEF Finish
<1>2. CASE Found(i)
  <2> DEFINE at == [finished EXCEPT ![i] = clock + 1]
             D == Doomed(FinishedJobs \cup {i}, at)
  <2>1. /\ state' = [j \in JobId |-> IF j \in D THEN "absent"
                                     ELSE IF j = i THEN s ELSE state[j]]
        /\ open' = [open EXCEPT ![i] = FALSE]
        /\ finished' = at
        /\ clock' = clock + 1
        /\ Publish(i, s)
    BY <1>2 DEF Finish
  <2>2. at \in [JobId -> Nat] /\ \A j \in JobId : at[j] <= at[i]
    BY DEF TypeOK, WindowInv
  <2>3. i \notin D
    <3>1. FinishedJobs \cup {i} \in SUBSET JobId
      BY DEF FinishedJobs
    <3>2. QED BY <2>2, <3>1, NewestSurvives
  <2>4. D \subseteq FinishedJobs
    BY <2>3 DEF Doomed
  <2>5. D \in SUBSET JobId
    BY <2>4 DEF FinishedJobs
  <2>6. s \in JobState
    BY DEF JobState
  <2>7. pending' \in [JobId -> [state : JobState \cup {"absent"},
                                to : SUBSET Subscriber]]
    BY <2>1, <2>6, PublishType
  <2>8. state[i] # "absent"
    BY <1>2 DEF Found
  <2>9. FinishEffect(i, s, D)
    BY <2>1, <2>3, <2>4, <2>7, <2>8 DEF FinishEffect
  <2>10. QED BY <2>5, <2>9
<1>3. QED BY <1>1, <1>2
(***************************************************************************)
(* Each job's thread has a record of its type, and keeps one when its pc   *)
(* moves.                                                                  *)
(***************************************************************************)
ThreadRecord ==
  [pc : ThreadPc, result : Result \cup {"none"}, reports : 0 .. MaxProgress]

LEMMA ThreadType == IInv => thread \in [JobId -> ThreadRecord]
BY DEF IInv, TypeOK, ThreadRecord

LEMMA PcMoves ==
  ASSUME thread \in [JobId -> ThreadRecord], NEW i \in JobId, NEW pc \in ThreadPc
  PROVE  [thread EXCEPT ![i].pc = pc] \in [JobId -> ThreadRecord]
<1>1. thread[i] \in ThreadRecord
  OBVIOUS
<1>2. [thread[i] EXCEPT !.pc = pc] \in ThreadRecord
  BY <1>1 DEF ThreadRecord
<1>3. QED BY <1>2

-----------------------------------------------------------------------------
(* Every step keeps the inductive invariant *)

LEMMA AllocateIdKeeps ==
  ASSUME IInv, NEW s \in Spawner, AllocateId(s)
  PROVE  IInv'
<1>1. TypeOK'
  <2>1. nextId \in JobId /\ nextId' \in 1 .. MaxJobs + 1
    BY JobAssumption DEF IInv, TypeOK, AllocateId, JobId
  <2>2. spawner' \in [Spawner -> [pc : SpawnerPc, id : JobId \cup {NoJob}]]
    BY <2>1 DEF IInv, TypeOK, AllocateId, SpawnerPc
  <2>3. QED BY <2>1, <2>2 DEF IInv, TypeOK, AllocateId
<1>2. CallersInv'
  <2>1. nextId \in JobId /\ Untouched(nextId)
    BY JobAssumption DEF IInv, TypeOK, CallersInv, AllocateId, JobId
  <2>2. \A t \in Spawner \ {s} : spawner'[t] = spawner[t]
    BY DEF IInv, TypeOK, AllocateId
  <2>3. spawner'[s] = [pc |-> "push", id |-> nextId] /\ nextId' = nextId + 1
    BY DEF IInv, TypeOK, AllocateId
  <2>4. \A t \in Spawner : Starting(t) => spawner[t].id < nextId
    BY DEF IInv, CallersInv, Starting
  <2>5. \A j \in JobId : Untouched(j)' <=> Untouched(j)
    BY DEF Untouched, Pushed, AllocateId
  <2>6. \A t \in Spawner : spawner'[t].pc # "idle" =>
          spawner'[t].id \in JobId /\ spawner'[t].id < nextId'
    BY <2>1, <2>2, <2>3 DEF IInv, TypeOK, CallersInv, JobId
  <2>7. \A t, u \in Spawner :
          Starting(t)' /\ Starting(u)' /\ t # u => spawner'[t].id # spawner'[u].id
    <3>1. SUFFICES ASSUME NEW t \in Spawner, NEW u \in Spawner,
                          Starting(t)', Starting(u)', t # u
                   PROVE  spawner'[t].id # spawner'[u].id
      OBVIOUS
    <3>2. CASE t # s /\ u # s
      BY <2>2, <3>1, <3>2 DEF IInv, CallersInv, Starting
    <3>3. CASE t = s
      BY <2>2, <2>3, <2>4, <2>1, <3>1, <3>3 DEF Starting, IInv, CallersInv, JobId
    <3>4. CASE u = s
      BY <2>2, <2>3, <2>4, <2>1, <3>1, <3>4 DEF Starting, IInv, CallersInv, JobId
    <3>5. QED BY <3>2, <3>3, <3>4
  <2>8. \A t \in Spawner : spawner'[t].pc = "push" => Untouched(spawner[t].id)'
    <3>1. SUFFICES ASSUME NEW t \in Spawner, spawner'[t].pc = "push"
                   PROVE  Untouched(spawner[t].id)'
      OBVIOUS
    <3>2. CASE t = s
      BY <2>1, <2>3, <3>2 DEF AllocateId, Untouched, Pushed
    <3>3. CASE t # s
      BY <2>2, <2>5, <3>1, <3>3 DEF IInv, CallersInv
    <3>4. QED BY <3>2, <3>3
  <2>9. \A t \in Spawner : spawner'[t].pc = "start" =>
          state'[spawner'[t].id] = "Queued" /\ thread'[spawner'[t].id].pc = "none"
    BY <2>2, <2>3 DEF IInv, CallersInv, AllocateId
  <2>10. \A j \in JobId : j >= nextId' => Untouched(j)'
    BY <2>1, <2>3, <2>5, JobAssumption DEF IInv, CallersInv, JobId
  <2>11. QED BY <2>6, <2>7, <2>8, <2>9, <2>10 DEF CallersInv
<1>3. ThreadsInv'
  BY DEF IInv, TypeOK, CallersInv, ThreadsInv, Starting, Untouched, Pushed, Live, IsTerminal, Terminal, JobState, AllocateId
<1>4. WindowInv'
  BY DEF IInv, TypeOK, CallersInv, ThreadsInv, WindowInv, Starting, Untouched, Live, IsTerminal, Terminal, AllocateId
<1>5. QED BY <1>1, <1>2, <1>3, <1>4 DEF IInv

LEMMA StartThreadKeeps ==
  ASSUME IInv, NEW s \in Spawner, StartThread(s)
  PROVE  IInv'
<1>1. TypeOK'
  <2>1. spawner' \in [Spawner -> [pc : SpawnerPc, id : JobId \cup {NoJob}]]
    BY DEF IInv, TypeOK, StartThread, SpawnerPc, NoJob
  <2>2. spawner[s].id \in JobId
    BY DEF IInv, CallersInv, StartThread
  <2>3. thread' \in [JobId -> ThreadRecord]
    BY <2>2, ThreadType, PcMoves DEF StartThread, ThreadPc
  <2>4. QED BY <2>1, <2>3 DEF IInv, TypeOK, ThreadRecord, StartThread
<1>2. CallersInv'
  BY DEF IInv, TypeOK, CallersInv, ThreadsInv, Starting, Untouched, Pushed, StartThread
<1>3. ThreadsInv'
  BY DEF IInv, TypeOK, CallersInv, ThreadsInv, Starting, Untouched, Pushed, Live, IsTerminal, Terminal, JobState, StartThread
<1>4. WindowInv'
  BY DEF IInv, TypeOK, CallersInv, ThreadsInv, WindowInv, Starting, Untouched, Live, IsTerminal, Terminal, StartThread
<1>5. QED BY <1>1, <1>2, <1>3, <1>4 DEF IInv

LEMMA SpawnReturnsKeeps ==
  ASSUME IInv, NEW s \in Spawner, SpawnReturns(s)
  PROVE  IInv'
<1>1. TypeOK'
  BY DEF IInv, TypeOK, CallersInv, SpawnReturns, SpawnerPc, ThreadPc, JobState, NoJob, Result, NoEvent, Event, Publish
<1>2. CallersInv'
  BY DEF IInv, TypeOK, CallersInv, ThreadsInv, Starting, Untouched, Pushed, SpawnReturns
<1>3. ThreadsInv'
  BY DEF IInv, TypeOK, CallersInv, ThreadsInv, Starting, Untouched, Pushed, Live, IsTerminal, Terminal, JobState, SpawnReturns
<1>4. WindowInv'
  BY DEF IInv, TypeOK, CallersInv, ThreadsInv, WindowInv, Starting, Untouched, Live, IsTerminal, Terminal, SpawnReturns
<1>5. QED BY <1>1, <1>2, <1>3, <1>4 DEF IInv

LEMMA EnterRunningKeeps ==
  ASSUME IInv, NEW i \in JobId, EnterRunning(i)
  PROVE  IInv'
<1>1. TypeOK'
  <2>1. thread' \in [JobId -> ThreadRecord]
    BY ThreadType, PcMoves DEF EnterRunning, ThreadPc
  <2>2. pending' \in [JobId -> [state : JobState \cup {"absent"}, to : SUBSET Subscriber]]
    BY PublishType DEF IInv, TypeOK, EnterRunning, JobState
  <2>3. state' \in [JobId -> JobState \cup {"absent"}]
    BY DEF IInv, TypeOK, EnterRunning, JobState
  <2>4. QED BY <2>1, <2>2, <2>3 DEF IInv, TypeOK, ThreadRecord, EnterRunning
<1>2. CallersInv'
  <2>1. state[i] = "Queued" /\ thread[i].pc = "enter"
    BY DEF IInv, ThreadsInv, EnterRunning, At
  <2>2. \A j \in JobId \ {i} : thread'[j] = thread[j] /\ state'[j] = state[j]
    BY DEF IInv, TypeOK, EnterRunning
  <2>3. \A j \in JobId : Untouched(j) => Untouched(j)'
    BY <2>1, <2>2 DEF Untouched, Pushed, EnterRunning
  <2>4. QED BY <2>1, <2>2, <2>3 DEF IInv, CallersInv, Starting, EnterRunning
<1>3. ThreadsInv'
  BY DEF IInv, TypeOK, CallersInv, ThreadsInv, Starting, Untouched, Pushed, Live, IsTerminal, Terminal, JobState, EnterRunning, At, Found
<1>4. WindowInv'
  BY DEF IInv, TypeOK, CallersInv, ThreadsInv, WindowInv, Starting, Untouched, Live, IsTerminal, Terminal, EnterRunning, At, Found
<1>5. QED BY <1>1, <1>2, <1>3, <1>4 DEF IInv

LEMMA SetProgressKeeps ==
  ASSUME IInv, NEW i \in JobId, SetProgress(i)
  PROVE  IInv'
<1>1. TypeOK'
  <2>1. thread[i].reports + 1 \in 0 .. MaxProgress
    BY JobAssumption DEF IInv, TypeOK, SetProgress
  <2>2. thread' \in [JobId -> ThreadRecord]
    BY <2>1, ThreadType DEF ThreadRecord, SetProgress
  <2>3. At(i, "work") => state[i] \in JobState
    BY DEF IInv, ThreadsInv, At, Live, JobState
  <2>4. pending' \in [JobId -> [state : JobState \cup {"absent"}, to : SUBSET Subscriber]]
    BY <2>3, PublishType DEF IInv, TypeOK, SetProgress
  <2>5. QED BY <2>2, <2>4 DEF IInv, TypeOK, ThreadRecord, SetProgress
<1>2. \A j \in JobId : thread'[j].pc = thread[j].pc /\ thread'[j].result = thread[j].result
  BY ThreadType DEF ThreadRecord, SetProgress
<1>3. CallersInv'
  <2>1. \A j \in JobId : Untouched(j) => Untouched(j)'
    BY <1>2 DEF Untouched, Pushed, SetProgress
  <2>2. QED BY <1>2, <2>1 DEF IInv, CallersInv, Starting, SetProgress
<1>4. ThreadsInv' /\ WindowInv'
  BY <1>2 DEF IInv, ThreadsInv, WindowInv, Pushed, SetProgress
<1>5. QED BY <1>1, <1>3, <1>4 DEF IInv

LEMMA TryBeginCommitKeeps ==
  ASSUME IInv, NEW i \in JobId, TryBeginCommit(i)
  PROVE  IInv'
<1>1. TypeOK'
  <2>1. state[i] \in JobState
    BY DEF IInv, ThreadsInv, TryBeginCommit, At, Live, JobState
  <2>2. pending' \in [JobId -> [state : JobState \cup {"absent"}, to : SUBSET Subscriber]]
    BY <2>1, PublishType DEF IInv, TypeOK, TryBeginCommit
  <2>3. QED BY <2>2 DEF IInv, TypeOK, TryBeginCommit
<1>2. CallersInv'
  BY DEF IInv, TypeOK, CallersInv, ThreadsInv, Starting, Untouched, Pushed, TryBeginCommit, At, BoundaryOpens
<1>3. ThreadsInv'
  BY DEF IInv, TypeOK, CallersInv, ThreadsInv, Starting, Untouched, Pushed, Live, IsTerminal, Terminal, JobState, TryBeginCommit, At, BoundaryOpens
<1>4. WindowInv'
  BY DEF IInv, TypeOK, CallersInv, ThreadsInv, WindowInv, Starting, Untouched, Live, IsTerminal, Terminal, TryBeginCommit, At, BoundaryOpens
<1>5. QED BY <1>1, <1>2, <1>3, <1>4 DEF IInv

LEMMA PublishResultKeeps ==
  ASSUME IInv, NEW i \in JobId, PublishResult(i)
  PROVE  IInv'
<1>1. TypeOK'
  BY DEF IInv, TypeOK, CallersInv, PublishResult, At, SpawnerPc, ThreadPc, JobState, NoJob, Result, NoEvent, Event, Publish
<1>2. CallersInv'
  BY DEF IInv, TypeOK, CallersInv, ThreadsInv, Starting, Untouched, Pushed, PublishResult, At
<1>3. ThreadsInv'
  BY DEF IInv, TypeOK, CallersInv, ThreadsInv, Starting, Untouched, Pushed, Live, IsTerminal, Terminal, JobState, PublishResult, At
<1>4. WindowInv'
  BY DEF IInv, TypeOK, CallersInv, ThreadsInv, WindowInv, Starting, Untouched, Live, IsTerminal, Terminal, PublishResult, At
<1>5. QED BY <1>1, <1>2, <1>3, <1>4 DEF IInv

LEMMA WorkReturnsKeeps ==
  ASSUME IInv, NEW i \in JobId, NEW result \in Result, WorkReturns(i, result)
  PROVE  IInv'
<1>1. TypeOK'
  <2> DEFINE w == [thread[i] EXCEPT !.pc = "finish", !.result = result]
  <2>1. thread[i] \in ThreadRecord
    BY ThreadType
  <2>2. w \in ThreadRecord
    BY <2>1 DEF ThreadRecord, ThreadPc
  <2>3. thread' = [thread EXCEPT ![i] = w]
    BY DEF WorkReturns
  <2>4. thread' \in [JobId -> ThreadRecord]
    BY <2>2, <2>3, ThreadType
  <2>5. QED BY <2>4 DEF IInv, TypeOK, ThreadRecord, WorkReturns
<1>2. CallersInv'
  <2>1. thread[i].pc = "work"
    BY DEF WorkReturns, At
  <2>2. \A j \in JobId \ {i} : thread'[j] = thread[j]
    BY DEF IInv, TypeOK, WorkReturns
  <2>3. \A j \in JobId : thread[j].pc = "none" => thread'[j].pc = "none"
    BY <2>1, <2>2
  <2>4. QED BY <2>3 DEF IInv, CallersInv, Starting, Untouched, Pushed, WorkReturns
<1>3. ThreadsInv'
  BY DEF IInv, TypeOK, CallersInv, ThreadsInv, Starting, Untouched, Pushed, Live, IsTerminal, Terminal, JobState, WorkReturns, At
<1>4. WindowInv'
  BY DEF IInv, TypeOK, CallersInv, ThreadsInv, WindowInv, Starting, Untouched, Live, IsTerminal, Terminal, WorkReturns, At
<1>5. QED BY <1>1, <1>2, <1>3, <1>4 DEF IInv

LEMMA CancelKeeps ==
  ASSUME IInv, NEW i \in JobId, Cancel(i)
  PROVE  IInv'
<1>1. TypeOK'
  BY DEF IInv, TypeOK, CallersInv, Cancel, SpawnerPc, ThreadPc, JobState, NoJob, Result, NoEvent, Event, Publish
<1>2. CallersInv'
  BY DEF IInv, TypeOK, CallersInv, ThreadsInv, Starting, Untouched, Pushed, Cancel
<1>3. ThreadsInv'
  BY DEF IInv, TypeOK, CallersInv, ThreadsInv, Starting, Untouched, Pushed, Live, IsTerminal, Terminal, JobState, Cancel
<1>4. WindowInv'
  BY DEF IInv, TypeOK, CallersInv, ThreadsInv, WindowInv, Starting, Untouched, Live, IsTerminal, Terminal, Cancel
<1>5. QED BY <1>1, <1>2, <1>3, <1>4 DEF IInv

LEMMA DeliverKeeps ==
  ASSUME IInv, NEW i \in JobId, NEW sub \in Subscriber, Deliver(i, sub)
  PROVE  IInv'
<1>1. TypeOK'
  <2>1. pending' \in [JobId -> [state : JobState \cup {"absent"}, to : SUBSET Subscriber]]
    <3> DEFINE rest == pending[i].to \ {sub}
               p == IF rest = {} THEN NoEvent ELSE [pending[i] EXCEPT !.to = rest]
    <3>1. pending[i] \in [state : JobState \cup {"absent"}, to : SUBSET Subscriber]
      BY DEF IInv, TypeOK
    <3>2. p \in [state : JobState \cup {"absent"}, to : SUBSET Subscriber]
      BY <3>1 DEF NoEvent
    <3>3. pending' = [pending EXCEPT ![i] = p]
      BY DEF Deliver
    <3>4. QED BY <3>2, <3>3 DEF IInv, TypeOK
  <2>2. pending[i].state \in JobState \cup {"absent"}
    BY DEF IInv, TypeOK
  <2>3. view' \in [Subscriber -> [JobId -> JobState \cup {"absent"}]]
    BY <2>2 DEF IInv, TypeOK, Deliver
  <2>4. QED BY <2>1, <2>3 DEF IInv, TypeOK, Deliver
<1>2. CallersInv'
  BY DEF IInv, TypeOK, CallersInv, ThreadsInv, Starting, Untouched, Pushed, Deliver
<1>3. ThreadsInv'
  BY DEF IInv, TypeOK, CallersInv, ThreadsInv, Starting, Untouched, Pushed, Live, IsTerminal, Terminal, JobState, Deliver
<1>4. WindowInv'
  BY DEF IInv, TypeOK, CallersInv, ThreadsInv, WindowInv, Starting, Untouched, Live, IsTerminal, Terminal, Deliver
<1>5. QED BY <1>1, <1>2, <1>3, <1>4 DEF IInv

LEMMA SubscribeKeeps ==
  ASSUME IInv, NEW sub \in Subscriber, Subscribe(sub)
  PROVE  IInv'
<1>1. TypeOK'
  BY DEF IInv, TypeOK, CallersInv, Subscribe, SpawnerPc, ThreadPc, JobState, NoJob, Result, NoEvent, Event, Publish
<1>2. CallersInv'
  BY DEF IInv, TypeOK, CallersInv, ThreadsInv, Starting, Untouched, Pushed, Subscribe
<1>3. ThreadsInv'
  BY DEF IInv, TypeOK, CallersInv, ThreadsInv, Starting, Untouched, Pushed, Live, IsTerminal, Terminal, JobState, Subscribe
<1>4. WindowInv'
  BY DEF IInv, TypeOK, CallersInv, ThreadsInv, WindowInv, Starting, Untouched, Live, IsTerminal, Terminal, Subscribe
<1>5. QED BY <1>1, <1>2, <1>3, <1>4 DEF IInv

LEMMA RenderSnapshotKeeps ==
  ASSUME IInv, NEW sub \in Subscriber, RenderSnapshot(sub)
  PROVE  IInv'
<1>1. TypeOK'
  BY DEF IInv, TypeOK, CallersInv, RenderSnapshot, Registered, SpawnerPc, ThreadPc, JobState, NoJob, Result, NoEvent, Event, Publish
<1>2. CallersInv'
  BY DEF IInv, TypeOK, CallersInv, ThreadsInv, Starting, Untouched, Pushed, RenderSnapshot, Registered
<1>3. ThreadsInv'
  BY DEF IInv, TypeOK, CallersInv, ThreadsInv, Starting, Untouched, Pushed, Live, IsTerminal, Terminal, JobState, RenderSnapshot, Registered
<1>4. WindowInv'
  BY DEF IInv, TypeOK, CallersInv, ThreadsInv, WindowInv, Starting, Untouched, Live, IsTerminal, Terminal, RenderSnapshot, Registered
<1>5. QED BY <1>1, <1>2, <1>3, <1>4 DEF IInv

LEMMA PushQueuedKeeps ==
  ASSUME IInv, NEW s \in Spawner, PushQueued(s)
  PROVE  IInv'
<1> DEFINE i == spawner[s].id
<1>1. i \in JobId /\ Untouched(i) /\ spawner[s].pc = "push" /\ i < nextId
  BY DEF IInv, CallersInv, PushQueued
<1>2. Pushed' = Pushed \cup {i} /\ order' \in Seq(JobId)
  BY <1>1, PushAdds DEF IInv, TypeOK, PushQueued
<1>3. /\ state' = [state EXCEPT ![i] = "Queued"]
      /\ open' = [open EXCEPT ![i] = TRUE]
      /\ spawner' = [spawner EXCEPT ![s].pc = "start"]
      /\ UNCHANGED <<nextId, flag, finished, clock, subscribers, thread, view,
                     rendered, won, published>>
  BY DEF PushQueued
<1>4. TypeOK'
  <2>1. pending' \in [JobId -> [state : JobState \cup {"absent"}, to : SUBSET Subscriber]]
    BY <1>1, PublishType DEF IInv, PushQueued, JobState
  <2>2. spawner' \in [Spawner -> [pc : SpawnerPc, id : JobId \cup {NoJob}]]
    BY <1>3 DEF IInv, TypeOK, SpawnerPc
  <2>3. QED BY <1>2, <1>3, <2>1, <2>2 DEF IInv, TypeOK, JobState
<1>5. CallersInv'
  <2>1. \A t \in Spawner \ {s} : spawner'[t] = spawner[t]
    BY <1>3 DEF IInv, TypeOK
  <2>2. spawner'[s].pc = "start" /\ spawner'[s].id = i
    BY <1>3 DEF IInv, TypeOK
  <2>3. \A j \in JobId \ {i} : Untouched(j) => Untouched(j)'
    BY <1>2, <1>3 DEF IInv, TypeOK, Untouched
  <2>4. \A t \in Spawner \ {s} : Starting(t) => spawner[t].id # i
    BY <1>1 DEF IInv, CallersInv, Starting
  <2>5. \A t \in Spawner \ {s} :
          spawner'[t].pc = "push" => Untouched(spawner[t].id)'
    BY <2>1, <2>3, <2>4 DEF IInv, CallersInv, Starting
  <2>6. \A t \in Spawner : spawner'[t].pc = "start" =>
          state'[spawner'[t].id] = "Queued" /\ thread'[spawner'[t].id].pc = "none"
    BY <1>1, <1>3, <2>1, <2>2, <2>4 DEF IInv, TypeOK, CallersInv, Starting, Untouched
  <2>7. \A j \in JobId : j >= nextId' => Untouched(j)'
    BY <1>1, <1>3, <2>3 DEF IInv, TypeOK, CallersInv, JobId
  <2>8. \A t, u \in Spawner :
          Starting(t)' /\ Starting(u)' /\ t # u => spawner'[t].id # spawner'[u].id
    BY <1>1, <2>1, <2>2, <2>4 DEF IInv, CallersInv, Starting
  <2>9. \A t \in Spawner : spawner'[t].pc # "idle" =>
          spawner'[t].id \in JobId /\ spawner'[t].id < nextId'
    BY <1>1, <1>3, <2>1, <2>2 DEF IInv, CallersInv
  <2>10. \A t \in Spawner : spawner'[t].pc = "push" => Untouched(spawner[t].id)'
    BY <2>2, <2>5
  <2>11. \A t \in Spawner : spawner'[t].pc = "push" => spawner'[t].id = spawner[t].id
    BY <2>1, <2>2
  <2>12. QED BY <2>6, <2>7, <2>8, <2>9, <2>10, <2>11 DEF CallersInv, Untouched, Pushed
<1>6. ThreadsInv'
  BY <1>1, <1>2, <1>3 DEF IInv, TypeOK, ThreadsInv, Untouched, Live, IsTerminal, Terminal
<1>7. WindowInv'
  BY <1>1, <1>3 DEF IInv, TypeOK, WindowInv, Untouched, Live
<1>8. QED BY <1>4, <1>5, <1>6, <1>7 DEF IInv

(***************************************************************************)
(* A terminal write keeps what does not depend on who made it.             *)
(***************************************************************************)
LEMMA FinishKeeps ==
  ASSUME IInv, NEW i \in JobId, NEW s \in Terminal, Finish(i, s),
         s = "Cancelled" => flag[i], s = "Done" => ~flag[i],
         \A t \in Spawner : Starting(t) /\ spawner[t].id = i => ~Starting(t)',
         \A t \in Spawner : spawner'[t].id # spawner[t].id => spawner'[t].pc = "idle",
         \A t \in Spawner : Starting(t)' => spawner'[t] = spawner[t],
         \A t \in Spawner : spawner'[t].pc # "idle" => spawner[t].pc # "idle",
         spawner' \in [Spawner -> [pc : SpawnerPc, id : JobId \cup {NoJob}]],
         state[i] \in Live,
         thread' = [thread EXCEPT ![i].pc = "exited"],
         UNCHANGED <<nextId, order, flag, subscribers, view, rendered, won,
                     published>>
  PROVE  IInv'
<1>1. thread' \in [JobId -> ThreadRecord]
  BY ThreadType, PcMoves DEF ThreadPc
<1>2. \A j \in JobId \ {i} : thread'[j] = thread[j]
  BY DEF IInv, TypeOK
<1>3. thread'[i].pc = "exited"
  BY DEF IInv, TypeOK
<1>4. Pushed' = Pushed
  BY DEF Pushed
<1>5. s \in JobState
  BY DEF JobState
<1>6. ~Untouched(i)
  BY DEF Untouched, Live
<1>7. CASE UNCHANGED <<state, open, finished, clock, pending>>
  <2>1. TypeOK'
    BY <1>1, <1>7 DEF IInv, TypeOK, ThreadRecord
  <2>2. \A j \in JobId : Untouched(j) => Untouched(j)'
    BY <1>2, <1>4, <1>6, <1>7 DEF Untouched
  <2>3. CallersInv'
    BY <1>2, <1>7, <2>2 DEF IInv, CallersInv, Starting, Untouched, Pushed
  <2>4. ThreadsInv'
    BY <1>2, <1>3, <1>4, <1>7 DEF IInv, ThreadsInv, Live, IsTerminal, Terminal
  <2>5. WindowInv'
    BY <1>7 DEF IInv, WindowInv
  <2>6. QED BY <2>1, <2>3, <2>4, <2>5 DEF IInv
<1>8. ASSUME NEW D \in SUBSET JobId, FinishEffect(i, s, D)
      PROVE  IInv'
  <2>1. /\ \A j \in D : state'[j] = "absent" /\ IsTerminal(state[j])
        /\ state'[i] = s
        /\ \A j \in JobId \ (D \cup {i}) : state'[j] = state[j]
        /\ i \notin D
    BY <1>8 DEF FinishEffect, FinishedJobs
  <2>2. TypeOK'
    BY <1>1, <1>5, <1>8 DEF FinishEffect, IInv, TypeOK, ThreadRecord
  <2>3. \A j \in D : thread[j].pc = "exited" /\ ~Untouched(j)
    BY <2>1 DEF IInv, ThreadsInv, Untouched, IsTerminal, Terminal
  <2>4. \A j \in JobId : Untouched(j) => Untouched(j)'
    BY <1>2, <1>4, <1>6, <1>8, <2>1, <2>3 DEF Untouched, FinishEffect, IInv, TypeOK
  <2>5. CallersInv'
    <3>1. \A t \in Spawner : spawner'[t].pc = "push" => Untouched(spawner[t].id)'
      BY <2>4 DEF IInv, CallersInv, Starting
    <3>2. \A t \in Spawner : spawner'[t].pc = "push" => spawner'[t].id = spawner[t].id
      BY DEF Starting
    <3>3. \A t \in Spawner : spawner'[t].pc = "start" =>
            state'[spawner'[t].id] = "Queued" /\ thread'[spawner'[t].id].pc = "none"
      <4>1. SUFFICES ASSUME NEW t \in Spawner, spawner'[t].pc = "start"
                     PROVE  state'[spawner[t].id] = "Queued" /\ thread'[spawner[t].id].pc = "none"
        BY DEF Starting
      <4>2. spawner'[t] = spawner[t]
        BY <4>1 DEF Starting
      <4>3. spawner[t].id # i
        BY <4>1, <4>2 DEF Starting
      <4>4. spawner[t].id \in JobId /\ state[spawner[t].id] = "Queued" /\ thread[spawner[t].id].pc = "none"
        BY <4>1, <4>2 DEF IInv, CallersInv
      <4>5. spawner[t].id \notin D
        BY <2>1, <4>4 DEF IsTerminal, Terminal
      <4>6. QED BY <1>2, <2>1, <4>3, <4>4, <4>5
    <3>4. \A t \in Spawner : spawner'[t].pc # "idle" =>
            spawner'[t].id \in JobId /\ spawner'[t].id < nextId'
      BY DEF IInv, CallersInv
    <3>5. \A t, u \in Spawner :
            Starting(t)' /\ Starting(u)' /\ t # u => spawner'[t].id # spawner'[u].id
      BY DEF IInv, CallersInv, Starting
    <3>6. \A j \in JobId : j >= nextId' => Untouched(j)'
      BY <2>4 DEF IInv, CallersInv
    <3>7. QED BY <3>1, <3>2, <3>3, <3>4, <3>5, <3>6 DEF CallersInv, Untouched, Pushed
  <2>6. ThreadsInv'
    BY <1>2, <1>3, <1>4, <2>1, <2>3 DEF IInv, TypeOK, ThreadsInv, Live, IsTerminal, Terminal
  <2>7. WindowInv'
    <3>1. /\ ~open'[i]
          /\ \A j \in JobId \ {i} : open'[j] = open[j]
          /\ clock' = clock + 1
          /\ finished'[i] = clock'
          /\ \A j \in JobId \ {i} : finished'[j] = finished[j]
      BY <1>8 DEF FinishEffect, IInv, TypeOK
    <3>2. \A j \in D : ~open[j]
      BY <2>1 DEF IInv, WindowInv, IsTerminal, Live, Terminal
    <3>3. \A j \in JobId : finished'[j] <= clock'
      <4>1. clock \in Nat /\ \A j \in JobId : finished[j] \in Nat /\ finished[j] <= clock
        BY DEF IInv, TypeOK, WindowInv
      <4>2. \A j \in JobId \ {i} : finished'[j] <= clock'
        BY <3>1, <4>1
      <4>3. finished'[i] <= clock'
        BY <3>1, <4>1
      <4>4. QED BY <4>2, <4>3
    <3>4. QED BY <2>1, <3>1, <3>2, <3>3 DEF IInv, WindowInv
  <2>8. QED BY <2>2, <2>5, <2>6, <2>7 DEF IInv
<1>9. \/ UNCHANGED <<state, open, finished, clock, pending>>
      \/ \E D \in SUBSET JobId : FinishEffect(i, s, D)
  BY FinishCases DEF IInv
<1>10. QED BY <1>7, <1>8, <1>9

LEMMA SpawnFailsKeeps ==
  ASSUME IInv, NEW s \in Spawner, SpawnFails(s)
  PROVE  IInv'
<1> DEFINE i == spawner[s].id
<1>1. i \in JobId /\ state[i] = "Queued" /\ spawner[s].pc = "start"
  BY DEF IInv, CallersInv, SpawnFails
<1>2. Finish(i, "Failed") /\ "Failed" \in Terminal /\ state[i] \in Live
  BY <1>1 DEF SpawnFails, Terminal, Live
<1>3. /\ \A t \in Spawner \ {s} : spawner'[t] = spawner[t]
      /\ spawner'[s].pc = "return" /\ spawner'[s].id = i
      /\ spawner' \in [Spawner -> [pc : SpawnerPc, id : JobId \cup {NoJob}]]
  BY DEF IInv, TypeOK, SpawnFails, SpawnerPc
<1>4. \A t \in Spawner : Starting(t) /\ spawner[t].id = i => ~Starting(t)'
  BY <1>1, <1>3 DEF IInv, CallersInv, Starting
<1>5. \A t \in Spawner : Starting(t)' => spawner'[t] = spawner[t]
  BY <1>3 DEF Starting
<1>6. /\ thread' = [thread EXCEPT ![i].pc = "exited"]
      /\ UNCHANGED <<nextId, order, flag, subscribers, view, rendered, won, published>>
  BY DEF SpawnFails
<1>7. QED BY <1>1, <1>2, <1>3, <1>4, <1>5, <1>6, FinishKeeps

LEMMA TerminalUpdateKeeps ==
  ASSUME IInv, NEW i \in JobId, TerminalUpdate(i)
  PROVE  IInv'
<1>1. thread[i].pc = "finish" /\ state[i] \in Live /\ thread[i].result \in Result
  BY DEF IInv, ThreadsInv, TerminalUpdate, At
<1>2. /\ Outcome(i) \in Terminal
      /\ Outcome(i) = "Cancelled" => flag[i]
      /\ Outcome(i) = "Done" => ~flag[i]
  BY <1>1 DEF Outcome, Terminal, Result
<1>3. \A t \in Spawner : Starting(t) => spawner[t].id # i
  BY <1>1 DEF IInv, CallersInv, Starting, Untouched
<1>4. /\ Finish(i, Outcome(i))
      /\ thread' = [thread EXCEPT ![i].pc = "exited"]
      /\ UNCHANGED <<nextId, order, flag, subscribers, spawner, view, rendered,
                     won, published>>
  BY DEF TerminalUpdate
<1>5. QED BY <1>1, <1>2, <1>3, <1>4, FinishKeeps DEF IInv, TypeOK, Starting

LEMMA InitEstablishes == Init => IInv
<1>1. SUFFICES ASSUME Init PROVE IInv
  OBVIOUS
<1>2. Pushed = {}
  BY <1>1 DEF Init, Pushed
<1>3. TypeOK
  BY <1>1, JobAssumption DEF Init, TypeOK, JobState, NoEvent, SpawnerPc, ThreadPc, NoJob
<1>4. CallersInv /\ ThreadsInv
  BY <1>1, <1>2 DEF Init, CallersInv, ThreadsInv, Starting, Untouched, IsTerminal, Terminal
<1>5. WindowInv
  BY <1>1 DEF Init, WindowInv
<1>6. QED BY <1>3, <1>4, <1>5 DEF IInv

LEMMA StepKeeps == IInv /\ [Next]_vars => IInv'
<1>1. SUFFICES ASSUME IInv, [Next]_vars PROVE IInv'
  OBVIOUS
<1>2. CASE UNCHANGED vars
  BY <1>1, <1>2 DEF vars, IInv, TypeOK, CallersInv, ThreadsInv, WindowInv, Starting,
                    Untouched, Pushed, IsTerminal
<1>3. ASSUME NEW s \in Spawner, SpawnerStep(s) PROVE IInv'
  BY <1>1, <1>3, AllocateIdKeeps, PushQueuedKeeps, StartThreadKeeps, SpawnFailsKeeps,
     SpawnReturnsKeeps DEF SpawnerStep
<1>4. ASSUME NEW i \in JobId, ThreadStep(i) PROVE IInv'
  BY <1>1, <1>4, EnterRunningKeeps, SetProgressKeeps, TryBeginCommitKeeps,
     PublishResultKeeps, WorkReturnsKeeps, TerminalUpdateKeeps DEF ThreadStep
<1>5. ASSUME NEW i \in JobId, Cancel(i) PROVE IInv'
  BY <1>1, <1>5, CancelKeeps
<1>6. ASSUME NEW i \in JobId, NEW sub \in Subscriber, Deliver(i, sub) PROVE IInv'
  BY <1>1, <1>6, DeliverKeeps
<1>7. ASSUME NEW sub \in Subscriber, Subscribe(sub) \/ RenderSnapshot(sub) PROVE IInv'
  BY <1>1, <1>7, SubscribeKeeps, RenderSnapshotKeeps
<1>8. QED BY <1>1, <1>2, <1>3, <1>4, <1>5, <1>6, <1>7 DEF Next

LEMMA Invariance == Spec => []IInv
BY InitEstablishes, StepKeeps, PTL DEF Spec

-----------------------------------------------------------------------------
(* The theorems *)

(***************************************************************************)
(* Every variable keeps its type in every behaviour of the registry.       *)
(***************************************************************************)
THEOREM TypeCorrect == Spec => []TypeOK
<1>1. IInv => TypeOK
  BY DEF IInv
<1>2. QED BY <1>1, Invariance, PTL

(***************************************************************************)
(* Cancellation and the commit boundary have one winner per job, for any   *)
(* number of callers, cancellers and jobs (lib.rs:20-29).                  *)
(***************************************************************************)
THEOREM OneWinnerHolds == Spec => []OneWinner
<1>1. IInv => OneWinner
  BY DEF IInv, WindowInv, OneWinner
<1>2. QED BY <1>1, Invariance, PTL

(***************************************************************************)
(* The terminal state never contradicts what happened: no effect behind a  *)
(* Cancelled job, no accepted cancellation behind a Done one.              *)
(***************************************************************************)
THEOREM ReportMatchesEffectHolds == Spec => []ReportMatchesEffect
<1>1. IInv => ReportMatchesEffect
  BY DEF IInv, TypeOK, WindowInv, ReportMatchesEffect
<1>2. QED BY <1>1, Invariance, PTL

(***************************************************************************)
(* A step that removes or ends a job is a terminal write, and it prunes    *)
(* only jobs that finished before every finished job it keeps.             *)
(***************************************************************************)
LEMMA FinishPrunes ==
  ASSUME IInv, NEW i \in JobId, NEW s \in Terminal, Finish(i, s), state[i] \in Live
  PROVE  PruneStep
<1>1. CASE UNCHANGED <<state, open, finished, clock, pending>>
  BY <1>1 DEF PruneStep, Registered
<1>2. ASSUME NEW D \in SUBSET JobId, FinishEffect(i, s, D)
      PROVE  PruneStep
  <2>1. SUFFICES ASSUME NEW k \in JobId, state[k] # "absent"
                 PROVE  /\ IsTerminal(state[k]) => state'[k] \in {state[k], "absent"}
                        /\ state'[k] = "absent" =>
                             /\ IsTerminal(state[k])
                             /\ \A j \in FinishedJobs' : finished'[k] < finished'[j]
    BY DEF PruneStep, Registered
  <2>2. state' = [j \in JobId |-> IF j \in D THEN "absent"
                                  ELSE IF j = i THEN s ELSE state[j]]
    BY <1>2 DEF FinishEffect
  <2>3. IsTerminal(state[k]) => state'[k] \in {state[k], "absent"}
    BY <2>2 DEF IsTerminal, Live, Terminal
  <2>4. ASSUME state'[k] = "absent"
        PROVE  /\ IsTerminal(state[k])
               /\ \A j \in FinishedJobs' : finished'[k] < finished'[j]
    <3>1. k \in D
      BY <2>1, <2>2, <2>4 DEF Terminal
    <3>2. IsTerminal(state[k])
      BY <1>2, <3>1 DEF FinishEffect, FinishedJobs
    <3>3. FinishedJobs' \subseteq (FinishedJobs \cup {i}) \ D
      BY <2>2 DEF FinishedJobs, IsTerminal, Terminal
    <3>4. finished' \in [JobId -> Nat] /\ FinishedJobs \cup {i} \in SUBSET JobId
      BY <1>2 DEF FinishEffect, IInv, TypeOK, FinishedJobs
    <3>5. D = Doomed(FinishedJobs \cup {i}, finished')
      BY <1>2 DEF FinishEffect
    <3>6. \A j \in FinishedJobs' : finished'[k] < finished'[j]
      BY <3>1, <3>3, <3>4, <3>5, DoomedAreOldest
    <3>7. QED BY <3>2, <3>6
  <2>5. QED BY <2>3, <2>4
<1>3. QED BY <1>1, <1>2, FinishCases DEF IInv

(***************************************************************************)
(* A job that ended stays as it ended until it is pruned, and the prune    *)
(* takes the oldest-finished first and never the job just finishing.       *)
(***************************************************************************)
THEOREM TerminalIsFinalHolds == Spec => TerminalIsFinal
<1>1. IInv /\ [Next]_vars => [PruneStep]_vars
  <2>1. SUFFICES ASSUME IInv, [Next]_vars PROVE PruneStep \/ UNCHANGED vars
    OBVIOUS
  <2>2. ASSUME state' = state PROVE PruneStep
    BY <2>2 DEF PruneStep, Registered
  <2>3. ASSUME NEW s \in Spawner, SpawnerStep(s) PROVE PruneStep
    <3>1. CASE PushQueued(s)
      <4>1. spawner[s].id \in JobId /\ state[spawner[s].id] = "absent"
        BY <2>1, <3>1 DEF IInv, CallersInv, Untouched, PushQueued
      <4>2. QED BY <2>1, <3>1, <4>1 DEF PushQueued, PruneStep, Registered, IInv, TypeOK
    <3>2. CASE SpawnFails(s)
      <4>1. spawner[s].id \in JobId /\ state[spawner[s].id] \in Live
        BY <2>1, <3>2 DEF IInv, CallersInv, SpawnFails, Live
      <4>2. QED BY <2>1, <3>2, <4>1, FinishPrunes DEF SpawnFails, Terminal
    <3>3. QED BY <2>2, <2>3, <3>1, <3>2
                 DEF SpawnerStep, AllocateId, StartThread, SpawnReturns
  <2>4. ASSUME NEW i \in JobId, ThreadStep(i) PROVE PruneStep
    <3>1. CASE EnterRunning(i)
      <4>1. state[i] = "Queued"
        BY <2>1, <3>1 DEF IInv, ThreadsInv, EnterRunning, At
      <4>2. QED BY <2>1, <3>1, <4>1
                   DEF EnterRunning, PruneStep, Registered, IInv, TypeOK, IsTerminal, Terminal
    <3>2. CASE TerminalUpdate(i)
      <4>1. state[i] \in Live /\ Outcome(i) \in Terminal
        BY <2>1, <3>2 DEF IInv, ThreadsInv, TerminalUpdate, At, Outcome, Terminal, Result
      <4>2. QED BY <2>1, <3>2, <4>1, FinishPrunes DEF TerminalUpdate
    <3>3. QED BY <2>2, <2>4, <3>1, <3>2
                 DEF ThreadStep, SetProgress, TryBeginCommit, PublishResult, WorkReturns
  <2>5. QED BY <2>1, <2>2, <2>3, <2>4
               DEF Next, vars, Cancel, Deliver, Subscribe, RenderSnapshot
<1>2. QED BY <1>1, Invariance, PTL DEF Spec, TerminalIsFinal

-----------------------------------------------------------------------------
(* Refinement: the registry implements JobLifecycle *)

(***************************************************************************)
(* The mapped state is made of functions over JobId.                       *)
(***************************************************************************)
LEMMA PhaseAt ==
  /\ \A i \in JobId : state[i] # "absent" => Phase[i] = state[i]
  /\ \A i \in JobId : state[i] = "absent" /\ i \notin Pushed => Phase[i] = "unborn"
  /\ \A i \in JobId : state[i] = "absent" /\ i \in Pushed => Phase[i] = "forgotten"
BY DEF Phase

LEMMA VerdictAt ==
  /\ \A i \in JobId : flag[i] => Verdict[i] = "cancel"
  /\ \A i \in JobId : ~flag[i] /\ i \in won => Verdict[i] = "commit"
  /\ \A i \in JobId : ~flag[i] /\ i \notin won => Verdict[i] = "undecided"
BY DEF Verdict

(***************************************************************************)
(* A terminal write is the lifecycle's Finish, forgetting the pruned jobs, *)
(* or, when the search misses the job, invisible.                          *)
(***************************************************************************)
LEMMA FinishRefines ==
  ASSUME IInv, NEW i \in JobId, NEW s \in Terminal, Finish(i, s),
         state[i] \in Live,
         s = "Cancelled" => flag[i], s = "Done" => ~flag[i],
         UNCHANGED <<order, flag, won, published>>
  PROVE  [Lifecycle!Next]_(Lifecycle!lifecycle)
<1>1. Verdict' = Verdict
  BY DEF Verdict
<1>2. CASE UNCHANGED <<state, open, finished, clock, pending>>
  <2>1. Phase' = Phase
    BY <1>2 DEF Phase, Pushed
  <2>2. QED BY <1>1, <2>1 DEF Lifecycle!lifecycle
<1>3. ASSUME NEW D \in SUBSET JobId, FinishEffect(i, s, D)
      PROVE  Lifecycle!Next
  <2>1. /\ state' = [j \in JobId |-> IF j \in D THEN "absent"
                                     ELSE IF j = i THEN s ELSE state[j]]
        /\ i \notin D
        /\ \A k \in D : state[k] \in Terminal
    BY <1>3 DEF FinishEffect, FinishedJobs, IsTerminal
  <2>2. Pushed' = Pushed /\ D \subseteq Pushed
    BY <2>1 DEF Pushed, IInv, ThreadsInv, Terminal
  <2>3. Phase[i] \in Lifecycle!Live
    BY PhaseAt DEF Lifecycle!Live, Live
  <2>4. \A k \in D : Phase[k] \in Lifecycle!Ended
    BY <2>1, PhaseAt DEF Lifecycle!Ended, Terminal
  <2>5. Lifecycle!Agrees(s, Verdict[i])
    BY VerdictAt DEF Lifecycle!Agrees
  <2>6. Phase' = [k \in JobId |-> IF k = i THEN s
                                  ELSE IF k \in D THEN "forgotten" ELSE Phase[k]]
    <3>1. \A k \in JobId : state'[k] = IF k \in D THEN "absent"
                                       ELSE IF k = i THEN s ELSE state[k]
      BY <2>1
    <3>2. s # "absent"
      BY DEF Terminal
    <3>3. QED BY <2>1, <2>2, <3>1, <3>2 DEF Phase
  <2>7. Lifecycle!Finish(i, s, D)
    BY <1>1, <2>3, <2>4, <2>5, <2>6 DEF Lifecycle!Finish
  <2>8. QED BY <2>7 DEF Lifecycle!Next, Lifecycle!Ended, Terminal
<1>4. QED BY <1>2, <1>3, FinishCases DEF IInv

(***************************************************************************)
(* Every step of the registry is a step of the lifecycle or a stutter.     *)
(***************************************************************************)
LEMMA StepRefines ==
  IInv /\ [Next]_vars => [Lifecycle!Next]_(Lifecycle!lifecycle)
<1>1. SUFFICES ASSUME IInv, [Next]_vars
               PROVE  [Lifecycle!Next]_(Lifecycle!lifecycle)
  OBVIOUS
<1>2. ASSUME UNCHANGED <<order, state, flag, won, published>>
      PROVE  UNCHANGED Lifecycle!lifecycle
  BY <1>2 DEF Lifecycle!lifecycle, Phase, Verdict, Pushed
<1>3. ASSUME NEW s \in Spawner, PushQueued(s) PROVE Lifecycle!Next
  <2> DEFINE i == spawner[s].id
  <2>1. i \in JobId /\ Untouched(i)
    BY <1>1, <1>3 DEF IInv, CallersInv, PushQueued
  <2>2. Pushed' = Pushed \cup {i}
    BY <1>1, <1>3, <2>1, PushAdds DEF IInv, TypeOK, PushQueued
  <2>3. Phase[i] = "unborn"
    BY <2>1, PhaseAt DEF Untouched
  <2>4. Phase' = [Phase EXCEPT ![i] = "Queued"]
    <3>1. state' = [state EXCEPT ![i] = "Queued"] /\ state \in [JobId -> JobState \cup {"absent"}]
      BY <1>1, <1>3 DEF PushQueued, IInv, TypeOK
    <3>2. QED BY <2>1, <2>2, <3>1 DEF Phase
  <2>5. Verdict' = Verdict /\ published' = published
    BY <1>3 DEF PushQueued, Verdict
  <2>6. Lifecycle!Register(i)
    BY <2>3, <2>4, <2>5 DEF Lifecycle!Register
  <2>7. QED BY <2>1, <2>6 DEF Lifecycle!Next
<1>4. ASSUME NEW s \in Spawner, SpawnFails(s)
      PROVE  [Lifecycle!Next]_(Lifecycle!lifecycle)
  <2>1. spawner[s].id \in JobId /\ state[spawner[s].id] \in Live
    BY <1>1, <1>4 DEF IInv, CallersInv, SpawnFails, Live
  <2>2. Finish(spawner[s].id, "Failed") /\ "Failed" \in Terminal
        /\ UNCHANGED <<order, flag, won, published>>
    BY <1>4 DEF SpawnFails, Terminal
  <2>3. QED BY <1>1, <2>1, <2>2, FinishRefines
<1>5. ASSUME NEW i \in JobId, EnterRunning(i)
      PROVE  [Lifecycle!Next]_(Lifecycle!lifecycle)
  <2>1. CASE ~Found(i)
    BY <1>2, <1>5, <2>1 DEF EnterRunning
  <2>2. CASE Found(i)
    <3>1. /\ state[i] = "Queued"
          /\ state' = [state EXCEPT ![i] = "Running"]
          /\ UNCHANGED <<order, flag, won, published>>
      BY <1>1, <1>5, <2>2 DEF IInv, ThreadsInv, EnterRunning, At
    <3>2. Phase[i] = "Queued"
      BY <3>1, PhaseAt
    <3>3. Phase' = [Phase EXCEPT ![i] = "Running"]
      BY <1>1, <3>1 DEF Phase, Pushed, IInv, TypeOK
    <3>4. Verdict' = Verdict
      BY <3>1 DEF Verdict
    <3>5. Lifecycle!Run(i)
      BY <3>1, <3>2, <3>3, <3>4 DEF Lifecycle!Run
    <3>6. QED BY <3>5 DEF Lifecycle!Next
  <2>3. QED BY <2>1, <2>2
<1>6. ASSUME NEW i \in JobId, TryBeginCommit(i)
      PROVE  [Lifecycle!Next]_(Lifecycle!lifecycle)
  <2>1. /\ state[i] \in Live /\ ~flag[i]
        /\ won' = won \cup {i}
        /\ UNCHANGED <<order, state, flag, published>>
    BY <1>1, <1>6 DEF IInv, ThreadsInv, TryBeginCommit, At, BoundaryOpens
  <2>2. CASE i \in won
    <3>1. won' = won
      BY <2>1, <2>2
    <3>2. QED BY <1>2, <2>1, <3>1
  <2>3. CASE i \notin won
    <3>1. Phase[i] \in Lifecycle!Live /\ Verdict[i] = "undecided"
      BY <2>1, <2>3, PhaseAt, VerdictAt DEF Lifecycle!Live, Live
    <3>2. Phase' = Phase
      BY <2>1 DEF Phase, Pushed
    <3>3. Verdict' = [Verdict EXCEPT ![i] = "commit"]
      BY <2>1, <2>3 DEF Verdict
    <3>4. Lifecycle!AllowCommit(i)
      BY <2>1, <3>1, <3>2, <3>3 DEF Lifecycle!AllowCommit
    <3>5. QED BY <3>4 DEF Lifecycle!Next
  <2>4. QED BY <2>2, <2>3
<1>7. ASSUME NEW i \in JobId, PublishResult(i) PROVE Lifecycle!Next
  <2>1. /\ state[i] \in Live /\ ~flag[i] /\ i \in won
        /\ published' = published \cup {i}
        /\ UNCHANGED <<order, state, flag, won>>
    BY <1>1, <1>7 DEF IInv, ThreadsInv, WindowInv, PublishResult, At
  <2>2. Phase[i] \in Lifecycle!Live /\ Verdict[i] = "commit"
    BY <2>1, PhaseAt, VerdictAt DEF Lifecycle!Live, Live
  <2>3. Phase' = Phase /\ Verdict' = Verdict
    BY <2>1 DEF Phase, Pushed, Verdict
  <2>4. Lifecycle!TakeEffect(i)
    BY <2>1, <2>2, <2>3 DEF Lifecycle!TakeEffect
  <2>5. QED BY <2>4 DEF Lifecycle!Next
<1>8. ASSUME NEW i \in JobId, TerminalUpdate(i)
      PROVE  [Lifecycle!Next]_(Lifecycle!lifecycle)
  <2>1. state[i] \in Live /\ thread[i].result \in Result
    BY <1>1, <1>8 DEF IInv, ThreadsInv, TerminalUpdate, At
  <2>2. /\ Outcome(i) \in Terminal
        /\ Outcome(i) = "Cancelled" => flag[i]
        /\ Outcome(i) = "Done" => ~flag[i]
    BY <2>1 DEF Outcome, Terminal, Result
  <2>3. Finish(i, Outcome(i)) /\ UNCHANGED <<order, flag, won, published>>
    BY <1>8 DEF TerminalUpdate
  <2>4. QED BY <1>1, <2>1, <2>2, <2>3, FinishRefines
<1>9. ASSUME NEW i \in JobId, Cancel(i)
      PROVE  [Lifecycle!Next]_(Lifecycle!lifecycle)
  <2>1. /\ open[i] /\ state[i] \in Live /\ i \notin won
        /\ flag' = [flag EXCEPT ![i] = TRUE]
        /\ UNCHANGED <<order, state, won, published>>
    BY <1>1, <1>9 DEF IInv, WindowInv, Cancel
  <2>2. CASE flag[i]
    <3>1. flag' = flag
      BY <1>1, <2>1, <2>2 DEF IInv, TypeOK
    <3>2. QED BY <1>2, <2>1, <3>1
  <2>3. CASE ~flag[i]
    <3>1. Phase[i] \in Lifecycle!Live /\ Verdict[i] = "undecided"
      BY <2>1, <2>3, PhaseAt, VerdictAt DEF Lifecycle!Live, Live
    <3>2. Phase' = Phase
      BY <2>1 DEF Phase, Pushed
    <3>3. Verdict' = [Verdict EXCEPT ![i] = "cancel"]
      BY <1>1, <2>1 DEF Verdict, IInv, TypeOK
    <3>4. Lifecycle!AcceptCancel(i)
      BY <2>1, <3>1, <3>2, <3>3 DEF Lifecycle!AcceptCancel
    <3>5. QED BY <3>4 DEF Lifecycle!Next
  <2>4. QED BY <2>2, <2>3
<1>10. ASSUME NEW s \in Spawner, SpawnerStep(s)
       PROVE  [Lifecycle!Next]_(Lifecycle!lifecycle)
  BY <1>2, <1>3, <1>4, <1>10 DEF SpawnerStep, AllocateId, StartThread, SpawnReturns
<1>11. ASSUME NEW i \in JobId, ThreadStep(i)
       PROVE  [Lifecycle!Next]_(Lifecycle!lifecycle)
  BY <1>2, <1>5, <1>6, <1>7, <1>8, <1>11 DEF ThreadStep, SetProgress, WorkReturns
<1>12. CASE UNCHANGED vars
  BY <1>2, <1>12 DEF vars
<1>13. QED BY <1>1, <1>2, <1>9, <1>10, <1>11, <1>12
             DEF Next, Deliver, Subscribe, RenderSnapshot

(***************************************************************************)
(* The registry, with its ids, locks, searches, prunes, callbacks and      *)
(* failed thread spawns, implements the documented job lifecycle.          *)
(***************************************************************************)
THEOREM ImplementsLifecycleHolds == Spec => ImplementsLifecycle
<1>1. Init => Lifecycle!Init
  BY DEF Init, Lifecycle!Init, Phase, Verdict, Pushed
<1>2. QED BY <1>1, StepRefines, Invariance, PTL
             DEF Spec, ImplementsLifecycle, Lifecycle!Spec

-----------------------------------------------------------------------------
(* What the subscribers see.                                               *)
(*                                                                         *)
(* An event is captured under the registry's lock and delivered after it,  *)
(* while other threads change the registry and subscribers take snapshots  *)
(* of it.  What keeps the two in step is that a job has one actor at a     *)
(* time, its caller and then its thread, and that the actor delivers an    *)
(* event before it makes the next: while one is on its way, the job is as  *)
(* the event says, or has been pruned.                                     *)

Behind(v, s) == v = s \/ Rank(v) < Rank(s)

(* An event on its way says what the registry says. *)
EventInv(i) ==
  pending[i].to # {} =>
    /\ state[i] \in {pending[i].state, "absent"}
    /\ \A sub \in pending[i].to : Behind(view[sub][i], pending[i].state)

(* No subscriber is ahead of the registry. *)
ViewInv(i) ==
  /\ i \notin Pushed => pending[i].to = {} /\ \A sub \in Subscriber : view[sub][i] = "absent"
  /\ state[i] # "absent" => \A sub \in Subscriber : Behind(view[sub][i], state[i])

CaughtUpWith(i) ==
  state[i] # "absent" =>
    \A sub \in rendered : sub \in pending[i].to \/ view[sub][i] = state[i]

Seen(i) == EventInv(i) /\ ViewInv(i) /\ CaughtUpWith(i)

SeenInv == \A i \in JobId : Seen(i)

-----------------------------------------------------------------------------
(* Lemmas about ranks *)

LEMMA RankOf ==
  /\ Rank("absent") = 0 /\ Rank("Queued") = 1 /\ Rank("Running") = 2
  /\ \A s \in Terminal : Rank(s) = 3
<1>1. Rank("absent") = 0 /\ Rank("Queued") = 1 /\ Rank("Running") = 2
  BY DEF Rank, IsTerminal, Terminal
<1>2. ASSUME NEW s \in Terminal PROVE Rank(s) = 3
  BY DEF Rank, IsTerminal, Terminal
<1>3. QED
  BY <1>1, <1>2

(***************************************************************************)
(* Who is not ahead of a job stays so when the job moves on.               *)
(***************************************************************************)
LEMMA MovesOn ==
  ASSUME NEW v \in JobState \cup {"absent"}, NEW s \in JobState \cup {"absent"},
         NEW t \in JobState, Behind(v, s),
         \/ s = t \/ s = "absent"
         \/ s = "Queued" /\ t = "Running"
         \/ s \in Live /\ t \in Terminal
  PROVE  Behind(v, t)
<1>1. \A r \in JobState \cup {"absent"} : r \in Terminal \/ r \in {"absent", "Queued", "Running"}
  BY DEF JobState
<1>2. QED
  BY <1>1, RankOf DEF Behind, Live, JobState, Terminal

-----------------------------------------------------------------------------
(* What a step does to one job *)

(* The step leaves the job, its event and what is shown of it alone. *)
LEMMA JobRests ==
  ASSUME NEW i \in JobId, Seen(i), UNCHANGED <<view, rendered>>,
         state'[i] = state[i], pending'[i] = pending[i], i \in Pushed' <=> i \in Pushed
  PROVE  Seen(i)'
  BY DEF Seen, EventInv, ViewInv, CaughtUpWith

(* The job is pruned. *)
LEMMA JobForgotten ==
  ASSUME NEW i \in JobId, Seen(i), UNCHANGED <<view, rendered>>,
         state'[i] = "absent", pending'[i] = pending[i], i \in Pushed, i \in Pushed'
  PROVE  Seen(i)'
  BY DEF Seen, EventInv, ViewInv, CaughtUpWith

(* The job's actor, done with its last event, makes the next. *)
LEMMA JobAnnounced ==
  ASSUME IInv, NEW i \in JobId, NEW s \in JobState, Seen(i),
         ~Delivering(i), Publish(i, s), state'[i] = s, UNCHANGED <<view, rendered>>,
         i \in Pushed',
         \/ state[i] = s
         \/ state[i] = "absent" /\ i \notin Pushed
         \/ state[i] = "Queued" /\ s = "Running"
         \/ state[i] \in Live /\ s \in Terminal
  PROVE  Seen(i)'
<1>1. /\ pending'[i].to = subscribers
      /\ subscribers # {} => pending'[i].state = s
  BY DEF Publish, NoEvent, Event, IInv, TypeOK
<1>2. ASSUME NEW sub \in Subscriber PROVE Behind(view[sub][i], s)
  <2>1. view[sub][i] \in JobState \cup {"absent"} /\ state[i] \in JobState \cup {"absent"}
    BY DEF IInv, TypeOK
  <2>2. Behind(view[sub][i], state[i])
    <3>1. CASE state[i] # "absent"
      BY <3>1 DEF Seen, ViewInv
    <3>2. CASE state[i] = "absent" /\ i \notin Pushed
      BY <3>2 DEF Seen, ViewInv, Behind
    <3>3. QED
      BY <3>1, <3>2 DEF JobState, Terminal, Live
  <2>3. QED
    BY <2>1, <2>2, MovesOn
<1>3. EventInv(i)'
  BY <1>1, <1>2 DEF EventInv, IInv, TypeOK
<1>4. ViewInv(i)'
  BY <1>2 DEF ViewInv
<1>5. CaughtUpWith(i)'
  BY <1>1 DEF CaughtUpWith, IInv, TypeOK
<1>6. QED
  BY <1>3, <1>4, <1>5 DEF Seen

(* A publication concerns one job. *)
LEMMA OthersRest ==
  ASSUME IInv, SeenInv, NEW i \in JobId, NEW s, Publish(i, s), UNCHANGED <<view, rendered>>,
         \A j \in JobId \ {i} : state'[j] = state[j] /\ (j \in Pushed' <=> j \in Pushed),
         Seen(i)'
  PROVE  SeenInv'
<1>1. ASSUME NEW j \in JobId \ {i} PROVE Seen(j)'
  <2>1. pending'[j] = pending[j]
    BY DEF Publish, IInv, TypeOK
  <2>2. QED
    BY <2>1, JobRests DEF SeenInv
<1>2. QED
  BY <1>1 DEF SeenInv

LEMMA NothingSeen ==
  ASSUME SeenInv, UNCHANGED <<state, pending, view, rendered, order>>
  PROVE  SeenInv'
  BY JobRests DEF SeenInv, Pushed

-----------------------------------------------------------------------------
(* Every step keeps the invariant *)

LEMMA PushSeen ==
  ASSUME IInv, SeenInv, NEW s \in Spawner, PushQueued(s)
  PROVE  SeenInv'
<1>1. PICK i \in JobId : i = spawner[s].id /\ Untouched(i)
  BY DEF PushQueued, IInv, CallersInv
<1>2. Pushed' = Pushed \cup {i}
  BY <1>1, PushAdds DEF PushQueued, IInv, TypeOK
<1>3. /\ Publish(i, "Queued") /\ UNCHANGED <<view, rendered>>
      /\ state' = [state EXCEPT ![i] = "Queued"]
  BY <1>1 DEF PushQueued
<1>4. state'[i] = "Queued" /\ \A j \in JobId \ {i} : state'[j] = state[j]
  BY <1>1, <1>3 DEF IInv, TypeOK
<1>5. state[i] = "absent" /\ i \notin Pushed /\ ~Delivering(i) /\ Seen(i)
  BY <1>1 DEF Untouched, SeenInv, Seen, ViewInv, Delivering
<1>6. Seen(i)'
  BY <1>1, <1>2, <1>3, <1>4, <1>5, JobAnnounced DEF JobState
<1>7. QED
  BY <1>1, <1>2, <1>3, <1>4, <1>6, OthersRest

LEMMA FinishSeen ==
  ASSUME IInv, SeenInv, NEW i \in JobId, NEW s \in Terminal, Finish(i, s),
         state[i] \in Live, ~Delivering(i), UNCHANGED <<view, rendered, order>>
  PROVE  SeenInv'
<1>1. CASE ~Found(i)
  BY <1>1, NothingSeen DEF Finish
<1>2. CASE Found(i)
  <2>1. clock' = clock + 1 /\ Publish(i, s)
    BY <1>2 DEF Finish
  <2>2. PICK D \in SUBSET JobId : FinishEffect(i, s, D)
    BY <2>1, FinishCases DEF IInv, TypeOK
  <2>3. \A j \in JobId : j \in Pushed' <=> j \in Pushed
    BY DEF Pushed
  <2>4. state'[i] = s /\ i \in Pushed
    BY <2>2 DEF FinishEffect, IInv, ThreadsInv, Live
  <2>5. Seen(i)'
    BY <2>1, <2>3, <2>4, JobAnnounced DEF SeenInv, JobState
  <2>6. ASSUME NEW j \in JobId \ {i} PROVE Seen(j)'
    <3>1. pending'[j] = pending[j]
      BY <2>1 DEF Publish, IInv, TypeOK
    <3>2. CASE j \in D
      <4>1. state'[j] = "absent" /\ j \in Pushed
        BY <2>2, <3>2 DEF FinishEffect, FinishedJobs, IsTerminal, Terminal, IInv, ThreadsInv
      <4>2. QED
        BY <2>3, <3>1, <4>1, JobForgotten DEF SeenInv
    <3>3. CASE j \notin D
      <4>1. state'[j] = state[j]
        BY <2>2, <3>3 DEF FinishEffect
      <4>2. QED
        BY <2>3, <3>1, <4>1, JobRests DEF SeenInv
    <3>4. QED
      BY <3>2, <3>3
  <2>7. QED
    BY <2>5, <2>6 DEF SeenInv
<1>3. QED
  BY <1>1, <1>2

LEMMA SpawnerSeen ==
  ASSUME IInv, SeenInv, NEW s \in Spawner, SpawnerStep(s)
  PROVE  SeenInv'
<1>1. CASE PushQueued(s)
  BY <1>1, PushSeen
<1>2. CASE SpawnFails(s)
  <2>1. spawner[s].id \in JobId /\ state[spawner[s].id] \in Live
    BY <1>2 DEF SpawnFails, IInv, CallersInv, Live
  <2>2. QED
    BY <1>2, <2>1, FinishSeen DEF SpawnFails, Terminal
<1>3. CASE AllocateId(s) \/ StartThread(s) \/ SpawnReturns(s)
  BY <1>3, NothingSeen DEF AllocateId, StartThread, SpawnReturns
<1>4. QED
  BY <1>1, <1>2, <1>3 DEF SpawnerStep

LEMMA ThreadSeen ==
  ASSUME IInv, SeenInv, NEW i \in JobId, ThreadStep(i)
  PROVE  SeenInv'
<1>1. CASE EnterRunning(i) /\ Found(i)
  <2>1. /\ state[i] = "Queued" /\ ~Delivering(i) /\ i \in Pushed
        /\ state' = [state EXCEPT ![i] = "Running"]
        /\ Publish(i, "Running") /\ UNCHANGED <<view, rendered, order>>
    BY <1>1 DEF EnterRunning, At, IInv, ThreadsInv
  <2>2. state'[i] = "Running" /\ \A j \in JobId \ {i} : state'[j] = state[j]
    BY <2>1 DEF IInv, TypeOK
  <2>3. Pushed' = Pushed
    BY <2>1 DEF Pushed
  <2>4. Seen(i)'
    BY <2>1, <2>2, <2>3, JobAnnounced DEF SeenInv, JobState
  <2>5. QED
    BY <2>1, <2>2, <2>3, <2>4, OthersRest
<1>2. CASE (SetProgress(i) \/ TryBeginCommit(i)) /\ Publish(i, state[i])
  <2>1. /\ state[i] \in Live /\ ~Delivering(i) /\ i \in Pushed
        /\ UNCHANGED <<state, view, rendered, order>>
    BY <1>2 DEF SetProgress, TryBeginCommit, At, IInv, ThreadsInv, Live
  <2>2. Pushed' = Pushed /\ state[i] \in JobState
    BY <2>1 DEF Pushed, Live, JobState
  <2>3. Seen(i)'
    BY <1>2, <2>1, <2>2, JobAnnounced DEF SeenInv
  <2>4. QED
    BY <1>2, <2>1, <2>2, <2>3, OthersRest
<1>3. CASE TerminalUpdate(i)
  <2>1. state[i] \in Live /\ thread[i].result \in Result /\ ~Delivering(i)
    BY <1>3 DEF TerminalUpdate, At, IInv, ThreadsInv
  <2>2. Outcome(i) \in Terminal
    BY <2>1 DEF Outcome, Terminal, Result
  <2>3. QED
    BY <1>3, <2>1, <2>2, FinishSeen DEF TerminalUpdate
<1>4. CASE UNCHANGED <<state, pending, view, rendered, order>>
  BY <1>4, NothingSeen
<1>5. QED
  BY <1>1, <1>2, <1>3, <1>4
     DEF ThreadStep, EnterRunning, SetProgress, TryBeginCommit, PublishResult, WorkReturns

LEMMA DeliverSeen ==
  ASSUME IInv, SeenInv, NEW i \in JobId, NEW sub \in Subscriber, Deliver(i, sub)
  PROVE  SeenInv' /\ ViewStep
<1>1. /\ sub \in pending[i].to
      /\ view' = [view EXCEPT ![sub][i] = pending[i].state]
      /\ UNCHANGED <<state, rendered, order>>
  BY DEF Deliver
<1>2. /\ \A t \in Subscriber, j \in JobId : t # sub \/ j # i => view'[t][j] = view[t][j]
      /\ view'[sub][i] = pending[i].state
  BY <1>1 DEF IInv, TypeOK
<1>3. Behind(view[sub][i], view'[sub][i]) /\ state[i] \in {pending[i].state, "absent"}
  BY <1>1, <1>2 DEF SeenInv, Seen, EventInv
<1>4. ViewStep
  BY <1>2, <1>3 DEF ViewStep, Behind
<1>5. /\ pending'[i].to = pending[i].to \ {sub}
      /\ pending'[i].to # {} => pending'[i].state = pending[i].state
      /\ \A j \in JobId \ {i} : pending'[j] = pending[j]
  BY <1>1 DEF Deliver, NoEvent, IInv, TypeOK
<1>6. Pushed' = Pushed
  BY <1>1 DEF Pushed
<1>7. Seen(i)'
  <2>1. EventInv(i)'
    BY <1>1, <1>2, <1>5 DEF SeenInv, Seen, EventInv, IInv, TypeOK
  <2>2. ViewInv(i)'
    BY <1>1, <1>2, <1>3, <1>5, <1>6 DEF SeenInv, Seen, ViewInv, Behind
  <2>3. CaughtUpWith(i)'
    BY <1>1, <1>2, <1>3, <1>5 DEF SeenInv, Seen, CaughtUpWith, IInv, TypeOK
  <2>4. QED
    BY <2>1, <2>2, <2>3 DEF Seen
<1>8. ASSUME NEW j \in JobId \ {i} PROVE Seen(j)'
  <2>1. \A t \in Subscriber : view'[t][j] = view[t][j]
    BY <1>2
  <2>2. pending'[j] = pending[j] /\ rendered \subseteq Subscriber /\ pending[j].to \subseteq Subscriber
    BY <1>5 DEF IInv, TypeOK
  <2>3. QED
    BY <1>1, <1>6, <2>1, <2>2 DEF SeenInv, Seen, EventInv, ViewInv, CaughtUpWith
<1>9. QED
  BY <1>4, <1>7, <1>8 DEF SeenInv

LEMMA RenderSeen ==
  ASSUME IInv, SeenInv, NEW sub \in Subscriber, RenderSnapshot(sub)
  PROVE  SeenInv' /\ ViewStep
<1>1. /\ rendered' = rendered \cup {sub}
      /\ UNCHANGED <<state, pending, order>>
      /\ view' = [view EXCEPT ![sub] = [i \in JobId |-> IF i \in Registered THEN state[i] ELSE @[i]]]
  BY DEF RenderSnapshot
<1>2. ASSUME NEW t \in Subscriber, NEW i \in JobId
      PROVE  view'[t][i] = IF t = sub /\ state[i] # "absent" THEN state[i] ELSE view[t][i]
  BY <1>1 DEF IInv, TypeOK, Registered
<1>3. Pushed' = Pushed /\ rendered' \subseteq Subscriber
  BY <1>1 DEF Pushed, IInv, TypeOK
<1>4. ASSUME NEW i \in JobId PROVE Seen(i)'
  <2>1. Seen(i) /\ pending[i].to \subseteq Subscriber /\ rendered \subseteq Subscriber
    BY DEF SeenInv, IInv, TypeOK
  <2>2. EventInv(i)'
    BY <1>1, <1>2, <2>1 DEF Seen, EventInv, Behind
  <2>3. ViewInv(i)' 
    BY <1>1, <1>2, <1>3, <2>1 DEF Seen, ViewInv, Behind, IInv, ThreadsInv
  <2>4. CaughtUpWith(i)'
    BY <1>1, <1>2, <1>3, <2>1 DEF Seen, CaughtUpWith
  <2>5. QED
    BY <2>2, <2>3, <2>4 DEF Seen
<1>5. ViewStep
  BY <1>2 DEF ViewStep, SeenInv, Seen, ViewInv, Behind
<1>6. QED
  BY <1>4, <1>5 DEF SeenInv

LEMMA StepSeen ==
  ASSUME IInv, SeenInv, [Next]_vars
  PROVE  SeenInv' /\ (ViewStep \/ UNCHANGED vars)
<1>1. UNCHANGED view => ViewStep
  BY DEF ViewStep
<1>2. ASSUME NEW s \in Spawner, SpawnerStep(s) PROVE SeenInv' /\ ViewStep
  BY <1>1, <1>2, SpawnerSeen
     DEF SpawnerStep, AllocateId, PushQueued, StartThread, SpawnFails, SpawnReturns
<1>3. ASSUME NEW i \in JobId, ThreadStep(i) PROVE SeenInv' /\ ViewStep
  BY <1>1, <1>3, ThreadSeen
     DEF ThreadStep, EnterRunning, SetProgress, TryBeginCommit, PublishResult, WorkReturns,
         TerminalUpdate
<1>4. ASSUME NEW i \in JobId, Cancel(i) PROVE SeenInv' /\ ViewStep
  BY <1>1, <1>4, NothingSeen DEF Cancel
<1>5. ASSUME NEW sub \in Subscriber, Subscribe(sub) PROVE SeenInv' /\ ViewStep
  BY <1>1, <1>5, NothingSeen DEF Subscribe
<1>6. CASE UNCHANGED vars
  BY <1>6, NothingSeen DEF vars
<1>7. QED
  BY <1>2, <1>3, <1>4, <1>5, <1>6, DeliverSeen, RenderSeen DEF Next

LEMMA SeenAlways == Spec => [](IInv /\ SeenInv)
<1>1. Init => SeenInv
  BY DEF Init, SeenInv, Seen, EventInv, ViewInv, CaughtUpWith, NoEvent
<1>2. QED
  BY <1>1, Invariance, StepSeen, PTL DEF Spec

-----------------------------------------------------------------------------
(***************************************************************************)
(* A subscriber that has rendered a snapshot shows what the registry says, *)
(* or an event is on its way to it (lib.rs:603), however snapshots,        *)
(* deliveries and prunes interleave.                                       *)
(***************************************************************************)
THEOREM CaughtUpHolds == Spec => []CaughtUp
<1>1. SeenInv => CaughtUp
  BY DEF SeenInv, Seen, CaughtUpWith, CaughtUp, Registered
<1>2. QED
  BY <1>1, SeenAlways, PTL

(***************************************************************************)
(* No subscriber sees a job go back, whether it learns of it from an event *)
(* or from a snapshot that overtakes the event.                            *)
(***************************************************************************)
THEOREM EventsInOrderHolds == Spec => EventsInOrder
<1>1. IInv /\ SeenInv /\ [Next]_vars => [ViewStep]_vars
  BY StepSeen
<1>2. QED
  BY <1>1, SeenAlways, PTL DEF Spec, EventsInOrder
=============================================================================
