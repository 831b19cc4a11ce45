# Cutlass: a TLA+ development

Specifications of the parts of Cutlass whose correctness depends on *order*:
which thread gets to a lock first, which message a drain meets, which edits came
before an undo. Each module is written from the Rust source; TLC checks it on
small instances, and TLAPS proves the theorems listed below for every value of
the constants.

## 1. The system

Cutlass is a video editor. One engine owns a project; hosts (desktop, mobile,
Python, command line) drive it with commands. Paths are relative to `src/`.

| Component | State | Operations | What makes it correct |
|---|---|---|---|
| **Job registry** `crates/cutlass-jobs` | the board of jobs behind one mutex, an id counter, one cancellation flag per job, subscribers | spawn, progress, commit boundary, cancel, end and prune, subscribe, snapshot | cancellation and commit exclude one another; reports agree with effects; every job ends; observers see every job in order |
| **Timeline** `crates/cutlass-models` | lanes in stacking order, clips, transitions, media pool | place, split, trim, move, retime, shift, ripple, reorder lanes, transitions | clips do not overlap; lanes keep their zones and one main lane; transitions join clips that abut |
| **Edits and inverses** `crates/cutlass-engine/src/action` | none of their own | every command returns the action that reverts it | the inverse applies and restores everything the command changed, side effects included |
| **Engine** `crates/cutlass-engine/src/engine.rs` | project, undo and redo stacks, open group, revision, saved revision | apply, undo, redo, group, rollback, save, load, new session, import | undo is exact, a group is one entry, an abandoned group never happened, clean means saved |
| **Preview worker** `apps/cutlass-desktop/src/preview_worker` | the request channel, two deadlines, live overrides, frame cache, the engine | frames, gestures, edits, saves, proxy binding, acknowledged calls, maintenance leases | no edit is dropped, no override outlives its gesture, the preview settles, the draft is saved |
| **Acknowledged calls** `.../preview_worker/rpc.rs`, `cache_registry/coordination.rs` | a claim state, a response channel and a deadline per call; a guard per lease | call, abandon, serve, pause and resume the worker | a caller is told what happened; a held guard pauses the worker, and only it; nobody waits for ever |
| **Agent session** `.../agent` | conversation, running prompt with its sandbox, parked plan, approvals, chats on disk | prompt, stop, dry run, apply, discard, decide, new, select, project switch | the sandbox is what the plan rehearsed, a stop ends the prompt, a press decides only the call whose id it carries |
| **Agent replay** `.../preview_worker/agent_bridge.rs` | id maps from rehearsal to live ids | replay a plan phase by phase | a plan lands in order, at most once, up to the phase that fails |
| **Cache registry** `.../cache_registry` | the layout behind a lock, one operation at a time | measure, clear, relocate | nothing is removed under a user of it; cache, layout and settings agree after a crash; no deadlock |
| **Download cache** `crates/cutlass-cloud/src/cache.rs` | root, protected paths, leases, maintenance | lease, protect, enforce the quota, clear, switch the root | maintenance and leases exclude one another |
| **Drafts** `.../drafts`, `session.rs`, `preview_worker/project.rs`, `crates/cutlass-models/src/persist.rs` | directories with a project file and a sidecar, their backups, the draft the session is bound to | create, import, open, save, replace the session, delete | what was saved survives failures and crashes; a change of session loses nothing silently; a deleted draft stays away |
| **Storage layout** `crates/cutlass-storage` | the directory of each cache | measure, relocate | settings and files agree |
| **Playback** `apps/cutlass-desktop/src/audio.rs`, `ui/store/timeline-actions.slint`, `wire_ui.rs` | the shared atomics, two channels, the mixer's and the callback's locals; transport, playhead, deferred stop | play, pause, shuttle, seek, scrub, loop, end | sound stays in order, the clock is the sound, playback ends |
| **Background workers** (proxies, strips, thumbnails, downloads) | a queue and a thread each | request, cancel, deliver | results are for the medium that asked |
| Renderer, compositor, codecs, text, analysis | GPU and decoder resources | pure functions of a frame | pixels, not order: out of scope |

`PROJECT.json` lists all of them with what is modelled of each.

**How they interact.** The UI thread sends messages to the preview worker and
never waits for it; the worker owns the engine and applies commands to it, and the
engine keeps history over the timeline. Transcription, analysis, export and download
run as jobs, whose subscribers forward every transition to the UI. The agent talks to
the worker through acknowledged calls, and the cache registry pauses it through
maintenance leases.

**Where it is hard.**

* *Interleaving*: two threads in the job registry; the events of one job are
  delivered outside its lock. The UI's queue against the worker's coalescing drains.
* *Long sequences*: an inverse is recorded against one document and run against
  another, after groups, rollbacks, undo and redo; edits have side effects (pruned
  transitions, re-sorted lanes, the main flag) that an inverse must also revert.
* *Partial failure*: a compound edit whose second half is refused; a thread the
  operating system refuses; a file whose replacement fails, or is cut off by a crash, between two renames.
* *Deadlines*: two timers on an idle worker, armed by some turns and cleared by others.
* *Atomics*: the audio callback takes no lock; it reads the flags and the epoch one by one while a seek writes them.
* *Staleness*: caches keyed by a revision that something else than an edit may invalidate.

The hazards, each at its line, are in `PROJECT.json`.

## 2. The modules

```
JobLifecycle  <-- refined by --  JobManager  <-- JobManagerProofs
                                     ^-- MCJobManager
UndoHistory   <-- refined by --  Editor -- EditActions -- Timeline
                                     ^-- EditProofs <-- EditorProofs
                                     ^-- MCEditor
PreviewWorker <-- PreviewWorkerProofs
     ^-- MCPreviewWorker
AcknowledgedCall <-- refined by --  WorkerRpc  <-- PreviewWorkerProofs
                                     ^-- MCWorkerRpc
CacheRegistry -- DownloadCache <-- CacheProofs
     ^-- MCCacheRegistry
AgentSession  -- PromptRun     <-- AgentSessionProofs
     ^-- MCAgentSession
Drafts        -- FileReplace   <-- DraftsProofs
     ^-- MCDrafts
Playback      -- AudioEngine   <-- PlaybackProofs
     ^-- MCPlayback
```

Definitions marked *"A fault"* are plausible bugs of the definition that follows.
No specification uses them: each replaces that definition to show
that a property notices (`PROJECT.json`, "mutants").

### JobManager (`crates/cutlass-jobs/src/lib.rs`)

One action is one critical section of `Shared::inner`, one atomic operation outside
it, or one callback into one subscriber. The caller of `spawn_with_completion` is a
small program: draw the id (`AllocateId`, before the lock), push the queued job
(`PushQueued`), start the thread or fail (`StartThread`, `SpawnFails`). The job's
thread enters, reports progress, asks for the commit boundary, publishes, returns
and writes its terminal state; the terminal write also prunes (`Finish`, `Doomed`).
`Cancel` is anybody's. `Found` is the binary search of `index_of`, executed on the
actual order of the vector: with an unsorted one it misses, as in the code. A thread
delivering events takes no other step (`Delivering`), because delivery is
synchronous; everybody else does.

*Abstracted*: labels, details, progress fractions and outputs. A progress report is
an event that carries the state. *Assumed*: two reads of the clock differ (ties
are broken by id in the code, `lib.rs:743`); work closures return in the end. A
callback that calls back into the manager is some other actor's step at that moment.

`JobLifecycle` says what the crate's documentation promises of one job, with no lock
or lookup: `ImplementsLifecycle` is the refinement.

### Timeline, EditActions, Editor

`Timeline` has the document and the primitives of `cutlass-models` as operators: what
each accepts and what it leaves. `EditActions` has the commands of `cutlass-engine`:
each yields whether it was accepted, the document it leaves (a rejected one may leave
a changed one) and its inverse, a script of steps. A `CompoundAction` runs its parts
last to first; a script is the flattened compound in running order. `Run` is
all-or-nothing, as `CompoundAction::apply` is. `Structural` is `finalize_structural`,
which prunes dead transitions and extends the inverse.

`Editor` is `Engine` and `History`: one action per command, undo, redo, begin,
commit and rollback of a group, save, load, new session, import. Nothing interleaves,
since a host owns its engine: the behaviours are sequences. Undo and redo inside a
group are excluded, which the code asserts.

`past`, `future`, `before`, `baseline`, `made` and `session` are history variables: no
action reads them. They carry whole documents where the engine keeps inverses, so
`UndoHistory`, a history of whole documents, is the abstract specification and
`ImplementsUndo` the refinement: **every undo, redo and rollback restores
exactly the document that was there**, and none is refused.

*Abstracted*: all rates are equal (resampling is the identity), speeds are whole
numbers, media share one length. *Left out of the model*: links, freeze
frames, reversal and curves, keyframes, fades, markers, canvas, the commands that
snapshot one property, `ApplyTemplate`, `Relink`, agent rules. A flattened
compound differs from a nested one only when a step of a *rollback of a
compound* fails too.

### PreviewWorker (`apps/cutlass-desktop/src/preview_worker`)

The UI's actions append a message. The worker's actions are one receive each:
`Handle` (a message on its own), `StartDrain`, then `DrainFrame`, `DrainOverride`,
`DrainTransform`, `DrainOther` as long as the queue holds anything, then `EndDrain`,
which renders once. `Repaint`, `SettleWakes` and `PersistWakes` are the loop top with
an empty queue. `Dispatch` is the routing of `dispatch.rs`, with the overrides that
are in force at that moment, and `Render` the frame cache of `render.rs`. Pixels are
the tuple they depend on: tick, revision, decode source, overrides, exactness.

A user is a set of message kinds, the constant `Habits` lists the users of a run and
`habit` is the one that is there: the properties quantify over users, and `DraftSaved` only speaks
of those who do not scrub.

*Abstracted*: the project is its revision; `"generator"` also stands for
`PreviewShapeSize` and `"styles"` for `PreviewClipLook`, whose arms are the same;
which of two pending deadlines fires first is open; a save succeeds or fails; whether a scrub counts as
dragging is nondeterministic, except that a coalesced one does. *Left out*: the
sprite path of transform gestures, the fit bound, the speculative frame, cache
eviction, commands that fail, project switches (`Drafts`), maintenance (`WorkerRpc`).

### WorkerRpc (`preview_worker/rpc.rs`, `handle/project.rs`, `handle/cache_maintenance.rs`)

A call is made by a thread of its own and served by the worker or by the UI's event
loop. The caller's program is the loop of `project_rpc`, `preview_cache_rpc`,
`begin_project_maintenance_with_timeout` and `wait_for_ui_response`, one action per atomic
operation: look at the channel, look at the cancel flag, look at the clock, look at the
channel again, give up with a compare-and-swap, wait one slice. They differ in whether they look at the
channel or the flag first (`LooksFirst`) and in what they say of an operation whose
executor vanished (`Lost`). The executor claims (`TakeCall`), runs, answers, and after a
lease waits for the guard (`Resume`). `Stop` is a panic of the worker or the end of the event
loop, which drops queued messages with their reply channels.

`AcknowledgedCall` is the promise in the comments: an operation happens at most once, a caller
told "not started" will never see it happen, a caller told its result can rely on
it. *Abstracted*: what an operation does; that deadlines are durations (a deadline passes at some time).
The worker's calls come in the channel `PreviewWorker` takes its messages from; the module's names differ from those there (`RpcSpec`, `RpcNext`), so that one module of proofs can be about both.

### DownloadCache, CacheRegistry (`cutlass-cloud/src/cache.rs`, `cache_registry/`)

`DownloadCache` has the methods of the cache cut at their waits on its condition
variable. `CacheRegistry` has the threads that use it, each a program: a download worker
pins the layout, takes a lease on its path, looks, downloads, hands the file to the importer
or installer, drops the lease and enforces the quota (`cloud.rs`, `sfx.rs`, `templates.rs`); a settings
thread protects what the open project refers to and enforces a new quota; the registry clears the downloads or
relocates them, which takes the layout, then the project lease from the preview worker, then
the cache's maintenance, moves the files, saves the settings, publishes. The preview worker's part is its
inbox of imports and leases (`Grant`, `HandleImport`) and the project's edits of media. `Restart` may come
between any two steps: files, drafts and settings survive.

*Abstracted*: sizes are counted in files; which of the unprotected files go is open; one draft;
the registry's other caches. *Constant* `Undo`: whether the history of the project survives a lease
(it does in the code; the passing runs exclude undo of media removed before one: section 5).

### PromptRun, AgentSession (`cutlass-ai/src/agent.rs`, `agent/`, `agent_bridge.rs`)

`PromptRun` is the tool loop of one prompt over its sandbox: turns, charges, commits of progress, rollback, and
`split_plan_phases`. A step of a plan is a record of the prompt it comes from, its place and the draft it was
rehearsed on. `AgentSession` is the agent thread of `agent_main` with its neighbours: the panel, whose view (`shown`)
lags behind what was `published`; the user, who sends requests, raises Stop and presses Run or Decline on
what is shown; the worker, which snapshots and replays; the chats on disk, each file with what it holds, if it is there, and
the one of each draft that was saved last, whose reads and writes may fail. The approval gate is `authorize` and `wait_for_system_tool_approval` with the id
allocator and the channel of decisions.

*Abstracted*: what the provider answers is open, tools that change nothing are their charge. *Assumed*:
`Autonomy::Ask`, histories short enough not to be trimmed, a worker that is alive (WorkerRpc has its
death), one agent thread for the life of the process.

### FileReplace, Drafts (`persist.rs`, `drafts/`, `session.rs`, `preview_worker/project.rs`)

`FileReplace` is one replacement of a file, one action per system call that matters: `Stage` (create, write and sync the
temporary), `Install` (rename it over the destination), and, where that fails, `MoveAside`, `Swap` and `Restore` with a backup.
Every one may fail. The project file (`install_temp_with_ops`) and the sidecar `meta.json` (`replace_meta_file`) are replaced alike.

`Drafts` has the threads around it. The UI thread's requests are sequences of messages that it sends one at a time (`StartsWith`, `SendNext`):
New is flush, new, save with the path of the draft just created; Open is flush, open; Import publishes a copy first. The template
thread and the agent send theirs in between. The worker takes one message at a time; a save is a job over `FileReplace`
that ends in `Saved` or `SaveFailed` and then writes the sidecar (`Named`). `Delete` moves a directory away, at any
point of a save into it. `SeeSession` is the UI learning, later, that the session changed: the gallery goes and the agent, whose chats live beside the
draft, is moved. `ProcessEnds` leaves the disk as it is.

*Abstracted*: a document is the number of the edit that made it (a template and an empty project are 0, history and undo are `Editor`'s);
backups of equal documents count as one; the auto-save fires whenever the bound document is not saved; a UI that sees a change late may read
the path of a later one. *Left out*: renaming and copying drafts, the checks on names and symbolic links, migration.

### AudioEngine, Playback (`audio.rs`, `timeline-actions.slint`, `wire_ui.rs`, `wire_engine.rs`, `app.slint`)

`AudioEngine` is three threads around the atomics of `AudioShared`. A call of the handle on the UI thread is a list of the atomic
operations still to do (`PlayCall`, `PauseCall`, `ScrubCall`), one action each. The mixer takes a message (`MixerReceives`) or, with none waiting and
room in the ring, mixes a block (`MixerMixes`) and sends it (`MixerSends`), so that a message may arrive while it mixes. The device callback loads
`playing`, `scrubbing` and the epoch one by one and then takes frames from the block at hand, pops the next, or ends (`FillTakes`, `FillPops`,
`FillEnds`). Stores are in release order by one thread and loads acquire, so that interleaving is all the reordering there is.

`Playback` is the transport over it: the keys, the moves of the playhead, `playback-step` with its seek, its wrap and its stop at the end, whose store
to `playing` is deferred by a timer (`RequestStop`, `DeferredStop`), and the watcher that lets a move of the stopped playhead sound (`Watch`). A turn of the event loop starts
when the audio call of the last one has returned.

*Abstracted*: samples; a block is its epoch and its position. `starts` and `heard` are history variables: where the sound of an epoch has to start, and
what the device took last. *Left out*: project snapshots, which only reopen the mixer over other data; the in and out marks, which move the two bounds; other
rates; the wall clock of a machine without a device.

## 3. The runs

| Run | Question | Bounds |
|---|---|---|
| `MCJobManager` | All properties of the registry, its liveness, and the refinement of `JobLifecycle` | 1 caller, 1 subscriber, 2 jobs, 1 progress report each, `KeepFinished` 1 |
| `MCEditor` | Splits, moves, ripples and deletions under a transition; placement, trims and speed around a neighbour, media in and out of the pool; audio and video lanes added, removed and reordered, and whole projects saved, loaded and replaced | three hosts: two joined clips and one tick to edit at; one clip and three lanes, 2 ticks, 2 speeds, 2 media; two joined clips on the main lane and an overlay. 3 clip ids, 3 lane ids, 4 revisions, undo limit 2 |
| `MCPreviewWorker` | The loop under two users: one on the canvas, one at the inspector | 4 messages, 2 ticks |
| `MCDrafts` | Saves, changes of the session, deletions and crashes | 2 drafts, in one of three habits: 2 edits, 2 requests, deletions, chats and an end of the process; 3 changes of session by the UI and the template thread; 3 requests among imports, saves, openings and openings by the agent, with deletions, chats and an end |
| `MCWorkerRpc` | The claim protocol, leases, deadlines and the death of an executor | 2 calls of every combination of kinds |
| `MCCacheRegistry` | Files removed under each other, crashes in a relocation, and the lock order as liveness | 1 download worker that imports or installs, 1 quota check, the registry, 2 directories, quota 0, 2 messages |
| `MCAgentSession` | Plans parked, applied, discarded, continued and switched away from; the approval of system tools against presses and Stop | two kinds of sessions (the constraint `Bounds`), 1 edit a prompt, 2 chats. Without host tools: any four of 2 prompts, 2 other requests and 1 project switch, prompts of 2 turns. With them: 1 prompt of 1 turn, 2 host calls, 2 presses, 1 project switch |
| `MCPlayback` | The clock, the order of sound and the end of playback | 2 inputs, a sequence of 2 ticks of 2 frames, blocks of 2 frames, a ring of 2 blocks, a device that asks for 3 frames; bounds `MaxFrames`, `MaxAt`, `MaxPops` |
| `MCPreviewWorkerMixed`, `MCAgentElsewhere`, `MCAgentPress`, `MCPlaybackSeek` | The findings of section 5 | the smallest that reach them |

*Why the bounds suffice.* Two jobs with room for one finished job make pruning,
out-of-turn ends and the commit race meet; the proofs remove the bound for the
theorems of section 4. Four revisions hold two edits in a group or outside it and
two of undo, redo and rollback, with an undo limit small enough to be hit: every
inverse is run as undo, as redo and as the undo of a redo. Four messages hold a
gesture (two overrides and an end) with one other message in any place, in the queue
or behind a drain. Deadlock checking is off everywhere: the systems stop when the
bounded numbers of jobs, revisions or messages are used up, and the worker may wait
for messages for ever. Text lanes are in no run: they are to the top of the stack what
audio lanes are to its bottom. Two calls are enough for one to hold the worker while the other
waits, times out or finds it dead; the proofs remove that bound. A budget of no file makes everything evictable that
is not protected, and with two directories a relocation can be followed by one back. Two drafts let one be left for another while a save into either fails; three
requests hold one change of session between the messages of another. With two inputs a play is overtaken by a seek, a scrub or
a pause at every point of a callback; a device buffer and a block that do not divide one another end callbacks within blocks and blocks within callbacks. `MaxFrames`, `MaxAt` and `MaxPops` hold
the device and the mixer back far beyond the end of the sequence, where nothing is left to count. Two prompts are
the least with which a plan is continued, or given up by the next; two requests hold an Apply or
a Discard with another one behind it. `Bounds` leaves out only that prompts come on top of approvals, and the fifth of five events; wherever it cuts a step of a
prompt (a host call, a second turn) another step of the prompt is left, so that the fairness of `StopEndsPrompt` is not affected. One prompt with two
calls has a press that is late for the first while the second waits.

*Fairness.* `JobManager`: weak fairness of each thread's own steps, and callbacks
that return; spawning, cancelling and subscribing are never owed. The client owes one
thing: that its work returns. Committing, publishing and reporting progress are not
fair. `PreviewWorker`: weak fairness of the worker thread and of each deadline on an
idle worker (`recv_timeout` wakes it); the UI owes nothing. `WorkerRpc`: callers run, a caller that
looks at its deadline again and again finds it passed (strong fairness of `Overdue`: time goes
by), guards are dropped, a paused worker wakes; the executors owe nothing else, as an operation may hang.
`CacheRegistry`: every thread goes on when it can, and a thread that waits for a lease gets the mutex at last (strong
fairness of `TakeLease`: maintenance ends again and again, and the condition variable wakes everybody); nothing
makes a thread start. `AgentSession`: weak fairness of a running prompt's own steps, providers and tools included; the user owes nothing. `Playback`: weak fairness of each kind of turn of the event loop, of the steps
of a call, of the mixer, which wakes every 4 ms, and of the device, which keeps asking; the user owes nothing. `Editor` has no liveness
property: a host may stop at any time.

*What they show.*

* `OneWinner`, `ReportMatchesEffect`: however `cancel` and `try_begin_commit`
  interleave, one wins, and the terminal state tells which.
* `EventsInOrder`, `CaughtUp`, `SubscribersLearn`: an observer that subscribes,
  then renders a snapshot, never goes backwards and misses nothing.
* `TerminalIsFinal`: pruning keeps the newest, never the job
  that has just ended nor one that runs.
* `EveryJobFinishes`: also when the thread cannot be created.
* `ImplementsUndo`, `InversesApply`: undo restores documents exactly and is never
  refused, in every sequence the run contains.
* `ClipsFit`, `LanesZoned`, `JunctionsLive`: hold after undo, redo and rollback
  too, which put snapshots back without the checks the commands make.
* `RevisionTracksDocument`, `CleanMeansSaved`: observers keyed by revision, and the
  dirty flag, may be trusted across rejected compounds and rollbacks.
* `NothingLost`, `OverridesEnd`: coalescing drops frames and stale overrides only.
* `ScreenSettles`, `DraftSaved`: the deferred repaint, exact frame and auto-save
  happen; the auto-save for a user who does not scrub (section 5), and one that fails is known to have failed for that very revision.
* `KeptSomewhere`: whatever calls fail and wherever the process ends, the file last saved is at its place, or nothing is there and it is in a backup;
  an older file never comes back.
* `SwitchLosesNothing`: when the user's own New, Open or Import replaces the session, the user's edits are in the draft left behind, or an error was
  shown, or the user deleted it.
* `DeletedStaysAway`: no save under way or queued brings a deleted draft back; only a chat stored late does.
* `HeldMeansPaused`, `RefreshPrecedesWork`, `KeepsPromise`: no interleaving of claim, abandon, answer and
  timeout makes a caller believe what is not so, or the worker run under a guard.
* `EveryCallReturns`, `PauseEnds`: also when the executor hangs or dies, and when the caller times out while
  its lease is granted.
* `LeasedFileStays`, `MaintenanceSparesReferences`: eviction, clearing and relocation never remove a file
  somebody holds or the project or a saved draft refers to.
* `RootsAgree`: after any crash in a relocation, settings, layout and cache name one directory.
* `EveryThreadReturns`: the three locks are taken in one order.
* `SandboxMirrorsPlan`, `PrefixLands`, `StepsLandOnce`: what lands in the project is what was rehearsed,
  a prefix by whole phases, in order and never twice, whatever Apply, Discard, failures and switches do.
* `HistoryForgets`: a prompt whose plan was given up is no longer part of the conversation.
* `FirstPressDecides`: a system tool runs only if the first press that carries the id of its call was Run; a press that is read late, or a second one,
  decides nothing. The id is that of the call pending at the press; which card the user pressed it on is the question of `MCAgentPress` (section 5).
* `StopEndsPrompt`: once Stop is raised in a running prompt, the prompt ends.
* `SoundInOrder`: the flush without locks works: nothing of an earlier position is heard after a later one, and within one nothing is skipped or repeated.
* `ClockTracksSound`: a callback that a play overtakes may add its frames to the new clock, or the new sound may be heard uncounted: by no more than one device buffer.
* `PlaybackEnds`: the clock, which only sound advances, is never starved short of the end.

## 4. What is proved

`JobManagerProofs`, for every finite or infinite set of callers and subscribers,
every `MaxJobs`, `MaxProgress` and every positive `KeepFinished` (`JobAssumption`),
in particular for concurrent spawners and their unsorted vector:

| Theorem | Statement |
|---|---|
| `TypeCorrect` | `Spec => []TypeOK`, which no run checks any more |
| `OneWinnerHolds` | `Spec => []OneWinner` |
| `ReportMatchesEffectHolds` | `Spec => []ReportMatchesEffect` |
| `TerminalIsFinalHolds` | `Spec => TerminalIsFinal` |
| `ImplementsLifecycleHolds` | `Spec => ImplementsLifecycle` |

*The argument.* None of these is inductive: that a job ends once depends on its having
one thread, and that on its id being one caller's. The inductive invariant
`IInv == TypeOK /\ CallersInv /\ ThreadsInv /\ WindowInv` says so. `CallersInv`: ids
handed out are distinct, an id not yet pushed is untouched, and a queued job whose
caller has not started it has no thread. `ThreadsInv`: how far the thread is
determines whether the job is queued, live, or ended or pruned. `WindowInv`: the
cancellation window is closed for ended jobs and for those that won, and no finish
time lies ahead of the clock, so the job that ends is the newest. There is one
lemma per action that it keeps `IInv`; both ways of ending share `FinishKeeps`.
`NewestSurvives` and `DoomedAreOldest` are what pruning rests on: the first, that the
job which ends now is never pruned by its own end, and the second, that what goes is
older than what stays. The refinement maps a pruned job to `"forgotten"` by its being
in the push order without a state.

Its last part proves what subscribers see, for the same constants:

| Theorem | Statement |
|---|---|
| `CaughtUpHolds` | `Spec => []CaughtUp` |
| `EventsInOrderHolds` | `Spec => EventsInOrder` |

*The argument.* Events are captured under the lock and delivered after it, while snapshots are taken and jobs pruned. `EventInv`: while an event of a job
is on its way the job is as the event says, or pruned, because its one actor delivers an event before it makes the next. `ViewInv`: no
subscriber is ahead of the registry, so that neither an event nor a snapshot takes it back.

*Model-checked only*: liveness (`EveryJobFinishes`, `SubscribersLearn`: outside
the prover's reach).

`PreviewWorkerProofs`, in its last part, about `WorkerRpc`, for every set of calls, of any kinds:

| Theorem | Statement |
|---|---|
| `RpcTypeCorrect` | `RpcSpec => []RpcTypeOK` |
| `GuardExcludesWorker` | `RpcSpec => []HeldMeansPaused` |
| `RefreshFollowsGuard` | `RpcSpec => []RefreshPrecedesWork` |
| `ClaimProtocolKeepsPromise` | `RpcSpec => KeepsPromise` |

*The argument.* The invariant ties four views of one call together: the caller's step, the claim, the
channels and the executor. A call nobody claimed has not run; a call that is claimed is being served, or has been
answered; an answer in the channel means that it ran; a resume channel that is open belongs to a
caller still in its loop or holding the guard. The refinement maps `ran` and `told` to themselves: what is to
be shown is that "not started" is said only when the claim can never be made any more.

`DraftsProofs`, for every set of drafts and every set of habits (any number of edits, requests and ends of the process):

| Theorem | Statement |
|---|---|
| `TypeCorrect` | `Spec => []TypeOK`, which no run checks |
| `KeptSomewhereHolds` | `Spec => []KeptSomewhere` |
| `DeletedStaysAwayHolds` | `Spec => []DeletedStaysAway` |

*The argument.* `KeptSomewhere` is disturbed where the threads meet: the worker replaces the files of one draft while the UI thread deletes
drafts and publishes imported ones. `PublishInv` says that a draft an import has still to publish is in nobody's queue and not in the worker's
hands, so that the two never write one file at a time; `JobInv` that a backup still there when the worker would move it back is what was last put; `FilesInv`
that only a draft with a directory has files, which with `GoneInv` (nothing but a chat makes a directory again) is why a deleted draft stays away. `ReplaceEffect`
sums up what any step of a replacement may do, and every action has a lemma that it keeps the invariant `IInv`.

Its last part proves `SwitchLosesNothingHolds`: `Spec => SwitchLosesNothing`, for the same constants.

*The argument.* A flush and the change of session it protects are two messages, and those of other threads come between. `CoverInv` follows the UI thread's
own messages through the queue: before each change there is a flush with nothing of the UI thread's after it, or the session is `Safe` already (the
user's edits are stored, being saved, or known not to be), and nothing but an edit of the user's makes a safe session unsafe. A flush of a session without
a draft does nothing; `UnboundInv` says why that is harmless: the message that gives it its draft is the next one of the UI thread's (`BindInv`), or the gallery is
still there and lets nobody edit, so that there is no edit to lose, or an error was shown. `SavingInv` says that a save under way is of the document as it is,
`EditsInv` that edits are numbered in the order in which they are taken, so that a stored document holds every earlier one.

`PlaybackProofs`, for every size of the blocks, the ring, a scrub's burst, the device buffer and the ticks, any length of the timeline and any number of inputs
(the bounds `MaxFrames`, `MaxPops` and `MaxAt` pause the device and the mixer, and may be as large as one likes):

| Theorem | Statement |
|---|---|
| `TypeCorrect` | `Spec => []TypeOK`, which no run checks: with it that the ring never overflows |
| `ClockTracksSoundHolds` | `Spec => []ClockTracksSound` |
| `SoundInOrderHolds` | `Spec => SoundInOrder` |

*The argument.* The clock is compared with a count of what was heard, and the two are written by different threads with several stores between. `ScriptInv` says
what a call has still to do and `StoredInv` what it has stored. `EpochInv`: until the call that made the last epoch has sent its message, no block, no message and no
sound carries that epoch, so that nothing of it is heard before the clock is reset. `FillInv`: a fill that loaded the last epoch while its message was unsent took nothing.
`ClockInv` counts from the reset on: the fill under way then is either the one the call overtook, which adds its frames to the
clock or plays sound without counting it, or a later one, which counts what it plays; either way the two differ by at most the frames of one fill.
`RingInv` is why the mixer's send never waits.

For `SoundInOrder` a second invariant, `SoundInv`, goes with it. `ChainInv`: each block in the ring goes on where the one before it ends, or is of a later epoch; so do the
block the callback holds, before the ring, and the mixer's position, behind it. `SentInv`: the messages that seek are in the order of their epochs, above the mixer's, each with the
tick its epoch starts at, whence `BegunInv`, nothing is mixed from before its start. The hard part is `LinkInv`: the chain has gaps to the device's side, since the callback drops stale blocks, its
rest at an underrun, and whatever it holds when it is silenced. What it drops is either used up, or of an epoch of which nothing more is heard (`Hearable`): the fill under way is for a later
one, or the device is silent, and playing or scrubbing starts again only after a new epoch has been made. That is the order of the stores in a call.

`CacheProofs`, for any set of importers, installers, quota threads and directories, any quota and any number of imports on their way:

| Theorem | Statement |
|---|---|
| `TypeCorrect` | `Spec => []TypeOK`, which no run checks |
| `RootsAgreeHolds` | `Spec => []RootsAgree` |
| `LeasedFileStaysHolds` | `Spec => []LeasedFileStays` |
| `MaintenanceSparesHolds` | if `~Undo`, `Spec => MaintenanceSparesReferences` |

*The argument.* Files are removed by four kinds of step of different threads, and are kept for one of three reasons: a lease, a protected path, or their being outside
the cache. `HoldInv` says by the step of each thread who holds the layout, a lease or the maintenance (`RootInv`, `LeaseInv`, `MaintInv`); it gives the first three theorems.
`ReferenceInv` follows a file on its way into the project. `InboxInv`: what an importer has sent and the worker has not yet taken is protected, if it is in the
cache; what was sent after a lease request is in the directory that the lease may move. `RefInv`: what the project, its history and its drafts mention is protected, outside the cache and there, or the cache is blocked; while the registry works under a
lease nothing is added, and the two directories of a relocation are mentioned by nobody. `VictimInv`: what is listed for removal is mentioned by nobody and on its way
to nobody. `Undo` is excluded at one point, the grant of a lease, where the history would have to be forgotten: section 5.

`AgentSessionProofs`, for any set of drafts and system tools, and any number of chats, prompts, turns, calls, presses and project switches (`PromptAssumption`, `SessionAssumption`):

| Theorem | Statement |
|---|---|
| `TypeCorrect` | `Spec => []TypeOK` |
| `SandboxMirrorsPlanHolds` | `Spec => []SandboxMirrorsPlan` |
| `StepsLandOnceHolds` | `Spec => StepsLandOnce` |
| `PrefixLandsHolds` | `Spec => []PrefixLands` |
| `HistoryForgetsHolds` | `Spec => []HistoryForgets` |
| `FirstPressDecidesHolds` | `Spec => []FirstPressDecides` |

*The argument* follows a prompt by its number. Requests are taken in the order they were sent, so the prompt at work is told of nowhere yet: in no conversation, chat, checkpoint or
parked plan, and it was not over before (`FreshInv`, `NowInv`). What it adds to the sandbox is what it adds to the plan, behind what was parked, and a rollback of its group
leaves what was parked (`MirrorInv`). From then on it is parked, over, or about to be replayed, and one of these only (`LandInv`), which is why it cannot land twice. While its plan
is parked only the open conversation tells of it, and neither the checkpoint nor another chat does (`ForgetInv`), so that giving the plan up restores a conversation that does not. Phase breaks are
counted in the prompt's own edits and the plan's steps from the parked ones on; `PhaseInv` keeps both numberings, and the lemma `PhasesOfPlan` that the phases laid end to end are the plan. `GateInv` says
that no press names a call not made yet, and that none on the call that waits was read before.

`PreviewWorkerProofs`, for any set of ticks and of habits and any number of messages (`PreviewAssumption`):

| Theorem | Statement |
|---|---|
| `TypeCorrect` | `Spec => []TypeOK`, which no run checks |
| `OverridesEndHolds` | `Spec => []OverridesEnd` |
| `NothingLostHolds` | `Spec => NothingLost` |
| `CacheIsTrueHolds` | `Spec => []CacheIsTrue`: what the cache may serve is what a render would deliver |
| `SettledIsCurrentHolds` | `Spec => []SettledIsCurrent`: with nothing queued and no frame owed, the screen is current |
| `DirtyIsOwedHolds` | `Spec => []DirtyIsOwed`: with no auto-save owed the draft is clean, or an error was shown, for a user who does not scrub while editing |

*The argument.* Messages are numbered as they are sent and taken in that order, so everything in the queue is later than every override in force, every end of a gesture and
the override a drain holds back (`OrderInv`); the held one is put in force before anything behind it is executed and so is later than the last end of its gesture (`HeldInv`). `TickInv` says that the
queue leads from where the worker is in the timeline to the playhead, `ScreenInv` that what a turn of the loop does not show it defers. The last two theorems are the safety in `ScreenSettles` and `DraftSaved`:
what stays with TLC is that the deferred work is done, under the fairness of section 3.

`EditorProofs`, for any set of habits, any undo limit and any sets of ids and media (`TimelineAssumption`, `EditorAssumption`: a session begins with a project whose
lanes are zoned and whose clips fit their media):

| Theorem | Statement |
|---|---|
| `TypeCorrect` | `Spec => []TypeOK`, which no run checks: with it that no document, file or recorded inverse names an id not handed out, and that the stacks respect the limit |
| `LanesZonedHolds` | `Spec => []LanesZoned` |
| `FaithfulHolds` | if `Timely` and `Distinct`, `Spec => []Faithful`: the invariant the following rest on |
| `ClipsFitHolds` | if `Timely` and `Distinct`, `Spec => []ClipsFit` |
| `InversesApplyHolds` | if `Timely` and `Distinct`, `Spec => []InversesApply` |
| `CleanMeansSavedHolds` | if `Timely` and `Distinct`, `Spec => []CleanMeansSaved` |
| `RevisionTracksDocumentHolds` | if `Timely` and `Distinct`, `Spec => RevisionTracksDocument` |
| `ImplementsCoreUndoHolds` | if `Timely` and `Distinct`, `Spec => ImplementsCoreUndo`: undo, redo and rollback restore the clips, lanes, transitions and media of the document they return to |
| `ImplementsUndoHolds` | if `Timely`, `Distinct` and `Tidy`, `Spec => ImplementsUndo`: they restore the whole document |
| `JunctionsLiveHolds` | if `Timely`, `Distinct` and `Steady`, `Spec => []JunctionsLive` |

*The argument.* An undone document is made by inverses recorded on other documents, so an invariant about documents alone is not inductive. `TypeOK` says of every script on the stacks and in the
open group that its steps are well formed and name ids that were handed out (`AreSteps`), and of the file what it says of the document. The lemmas of `EditProofs` then show that *any* such step, run on
*any* such document, leaves such a document and an inverse of the same shape (`IsOutcome`), with the lanes zoned if they were: `insert_track` and `move_track` sort the lanes back into their zones
and `designate_main` chooses the main lane again, whatever an inverse asked for. Runs, rollbacks and the flattened script of a group are folds, so what holds of a step is carried
along the sequence (`Climb`, the induction on positions that the library's theorems cannot be used for). Ids only grow (`Issued`), so what a script names stays handed out.

That no clips overlap after an undo needs more: on some other document the same inverse would put a clip on top of another, since `restore_clip` and `insert_clip` do not look. So the second
invariant says where each script leads. A document's `Core` is its clips, its lanes with their kinds and transitions, and its media, and where sessions are `Tidy` the order of the lanes and the main flag
too; no step's acceptance depends on more. It is `Solid` if its clips fit and start at 0 or later. A step `Leads` from one solid core to another if on *every* document with the first it is accepted and
leaves a document with the second. There is one lemma for each of the steps that its inverse leads back (`StepReverts`), and one for each edit that it leaves
a solid core (`Edited`). Then a script is a `Path` of cores, and `Revertible` the invariant: from the document shown the open group leads back to the one it began with (`Descends`), and from there each
stack to the documents its entries were recorded on (`Recalls`, with the history variables `past` and `future`). `Undo` moves one path from one stack to the other, `commit_group` joins those of the group into
one (`FlatPath`), `rollback_group` walks them back, and a history that forgets its oldest entry keeps the rest.

With `Recalls` the stacks of inverses are seen to implement `UndoHistory`, the abstract specification `ImplementsUndo` uses, told with cores (`CoreHistory`): each step of the editor is one of its steps or a
stutter (`Retold`). When sessions are `Tidy` no two documents have the same core (`OneOfACore`), so the same steps are those of `UndoHistory` told with documents, and `ImplementsUndo` follows.

Two more facts rest on what users do and not on what inverses do: `HabitKept`, the last part of `Faithful`, says them of every document the session holds, the one shown, the file, where the open group began, and all that
undo and redo return to (`InHabit`). Each edit keeps them, because it leaves lanes as they were, finishes with `finalize_structural` or only adds (`LeavesInHabit`, `StructuralInHabit`, `GrownInHabit`); undo, redo and rollback return to cores of which they are said already (`CoreInHabit`). For `JunctionsLive` the edits
that take a clip away or move its end finish with `finalize_structural`, which removes exactly the transitions whose clips no longer abut, and undo brings these back together with the clips they joined.

`Timely` says that no habit names a position before 0 or begins with a clip there: otherwise the theorems are false, by the early clip of section 5. TLC evaluates it on the habits of the runs (`HabitsAreTimely`).
`Tidy` says that no habit removes lanes and has sticker lanes, in its kinds or at its start, which is more than is needed. Without any such condition `ImplementsUndo` is false, by the sticker lane of section 5: when the main lane goes a video lane above is made main and sinks
to the main zone, below sticker lanes that were under it (`enforce_lane_zones`), and undo gives the flag back without lifting it again. `Steady` says that habits begin with transitions between clips that abut, and that none both changes speeds and has transitions: `SetClipSpeed` does not
finish with `finalize_structural`, and without the condition `JunctionsLive` is false by the speed gap of section 5. The habits of the runs are both (`HabitsAreTidy`, `HabitsAreSteady`).
`Distinct` says of values of the model that a generated clip's content is not a medium and that `NoGroup`, the code's `None`, is not a list of scripts.

*Model-checked only*: all liveness, `StopEndsPrompt` included.

## 5. Where the code and its words differ

Four runs end with a counterexample.

* **`MCPreviewWorkerMixed`**: a transform override queued behind an override of another
  control reaches `unreachable!` in `dispatch.rs:581` and panics the engine thread.
* **`MCAgentElsewhere`**: the plan of a prompt is replayed on whichever draft is open when the worker handles
  it (`dispatch.rs:577`). A session change raises Stop, but a prompt whose provider has already
  answered does not look at the flag again.
* **`MCAgentPress`** (`ApprovedCardWasShown`): Run and Decline send the id of the call that is pending when they are pressed (`types.rs:120`). While the card of
  call 1 is still on screen and call 2 is pending already, a second press on that card authorizes call 2, whose card nobody has seen, though `types.rs:107-109` says that
  "a delayed duplicate click can never authorize a later call".
* **`MCPlaybackSeek`**: a callback that has loaded the epoch and is then overtaken by a seek takes the blocks mixed after it for older ones
  and drops them (`audio.rs:340`), although those are the sound to be heard: it starts a block after the tick that was played from, and the clock, which
  counts from that tick, stays behind by as much until the next play.

The other disagreements were met while modelling, and the passing runs start where they are not reached. Each names the change
of a configuration that reaches it.

* *An unsorted registry* (`MCJobManager` with two callers: `EveryJobFinishes`): `next_id` is drawn before the lock is taken
  (`cutlass-jobs/src/lib.rs:450`), so two spawners can push out of order although
  `lib.rs:637` says the vector ascends. A binary search then misses a job that is there:
  its updates and its cancellation are lost. The invariants that matter most are
  unharmed (section 4).
* *A sticker lane* (`MCEditor` with lanes `<<1, 3, 2>>`, main, sticker and video, and `RemoveTrack`: `ImplementsUndo`): when lane 1
  goes, lane 2 becomes main and sinks below the sticker lane; undo brings lane 1 back, and the order is then `<<1, 2, 3>>`
  (`timeline.rs:340`, against "restoring the pre-group state", `engine.rs:145-146`).
* *A speed gap* (`MCEditor` with speeds 1 and 2: `JunctionsLive`): `SetClipSpeed` shortens a clip without pruning the
  transition on its end, which then spans a gap (`dispatch.rs:283`, against `transition.rs:11-13`).
* *An early clip* (`MCEditor` with `MoveClip` and the ticks -1, 0 and 3 on `OneClip`: `InversesApply`): `add_clip` accepts a negative start and
  `move_clip` refuses one, so undo of moving such a clip is refused and both stacks are cleared. For the same reason a ripple insert refused beside such a
  clip cannot revert its own shift (`ripple_insert.rs:36`) and leaves the lane shifted at an unchanged revision. The handlers of the worker
  bring positions to 0 (`clip_place.rs:78`) and the agent's validation refuses (`validate/time.rs:278`), so only a project that was loaded has such a clip.
* *Scrubbing delays the auto-save* (`MCPreviewWorker` without the condition on `habit`: `DraftSaved`): an edit received by
  the drain behind a frame request arms no auto-save (`worker_loop.rs:213`); the draft stays dirty until another message comes.
* *Undo of removed media* (`MCCacheRegistry` with `Undo = TRUE` and the invariant `ReferencesKept`): clearing spares what the
  project refers to now, and not what undo can bring back.
* *A path reused* (`sfx.rs:181`): a download removes the file at its path before it fetches again, also when a project refers to it.
* *An import on its way* (`CacheRegistry`, `HandleImport`): a file handed over but not yet imported is referred to by nobody, so a
  relocation after the lease is granted may move it, and the import fails.
* *A Stop too early* (`run.rs:154`): the thread clears the flag when it takes a prompt, so a Stop pressed before that is lost.
* *The checkpoint of an empty plan* (`run.rs:347`): a dry run whose plan is empty leaves its checkpoint, and landed turns after it are forgotten by
  the next New Chat, Select or project switch, though `agent_session.rs:3` says that "project switches preserve context".
* *Quitting with a parked plan* leaves a saved chat that tells of edits that never landed.
* *An early end of a prompt* (no settings, no provider) hides the card of a plan that is still parked.
* *Apply twice*: an Apply pressed before the card is hidden applies the edits of a second, queued dry run that nobody reviewed.
* *An unreadable chat*: switching to a draft whose newest chat cannot be read keeps its id, and the next save overwrites it.
* *A project tool that opens a draft* cancels its own prompt, as any session change does.
* *An edit after the flush* (`SwitchLosesNothing` with `own` set by any sender): an edit of the agent between the flush and the swap is not written,
  though `session.rs:38-40` says the flush "always captures the draft we're leaving"; so is a user's edit between the two messages of a template
  (`templates.rs:819`), whose swap the property leaves out.
* *A play before the deferred stop* (`timeline-actions.slint:458`, `wire_ui.rs:114`): a play key between the end of playback and the deferred store is
  overwritten by it: the engine plays on and background work stays deferred while the transport shows stopped, though
  `timeline-actions.slint:343-344` says that "the audio engine can never disagree with the UI clock".
* *Quitting from the gallery* right after the flush was sent (`session.rs:124`) ends the process with the flush in the queue.
* *A New whose first save fails* stays without a draft: later saves without a path do nothing and say nothing (`project.rs:17`).
* *A crash in the long way of a replacement* leaves a draft with a backup and no project file, which the gallery does not list (`persist.rs`, `fs_ops.rs:207`).
* *A chat stored late* makes the directory of a deleted draft again (`agent_session.rs:226`); a chat begun before New got its path is not kept
  (`wire_engine.rs:472`), though `agent_session.rs:3-4` says that project switches preserve context.

## 6. Not modelled

* *Edits*: links, freeze frames, reversal and curves, keyframes, fades, markers, canvas, the commands that snapshot one property of
  a clip, `ApplyTemplate`, `Relink`, agent rules.
* *Preview worker*: sprite gestures, the fit bound, the speculative frame, cache eviction, failing commands.
* *Drafts*: renaming and copying, symbolic links and the checks on names, migration of old files. *Settings*: one file, renamed into place.
* *Workers that only feed the screen*: proxies, strips, thumbnails; and transcription and analysis, which run as jobs.
* *Playback*: snapshots, in and out marks, other rates, machines without a device.
* *Pure functions of a frame*: rendering, codecs, text, shapes, analysis: floating point and GPU resources, out of TLC's reach.
* *Other hosts of the same engine*: mobile, Python, command line and the platform apps; and GUI glue.
