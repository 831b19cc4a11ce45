---------------------------- MODULE PreviewWorker ----------------------------
(***************************************************************************)
(* The engine thread of the desktop app: the message loop of               *)
(* src/apps/cutlass-desktop/src/preview_worker/worker_loop.rs with the     *)
(* routing of dispatch.rs, the render path of render.rs and its cache.     *)
(*                                                                         *)
(* The UI thread sends messages and never waits.  The worker takes them in *)
(* order; a scrub frame or a live override starts a drain, which keeps     *)
(* receiving until the queue is empty and renders once.  Two deadlines     *)
(* wake an idle worker: the debounced auto-save and the exact frame owed   *)
(* after an approximate one.                                               *)
(*                                                                         *)
(* What a project contains is its revision.  The sprite path of transform  *)
(* gestures, the fit bound and the speculative frame are left out, and so  *)
(* are failing engine commands.                                            *)
(***************************************************************************)
EXTENDS Integers, Sequences, FiniteSets

CONSTANTS
  Tick,      \* playhead positions
  Habits,    \* bound: the sets of kinds of message that one user sends
  MaxSent    \* bound: how many messages a behaviour contains

ASSUME PreviewAssumption ==
  /\ 0 \in Tick
  /\ MaxSent \in Nat

(***************************************************************************)
(* The live overrides.  "generator" also stands for PreviewShapeSize and   *)
(* "styles" for PreviewClipLook, whose arms are the same.                  *)
(***************************************************************************)
Control == {"transform", "generator", "styles"}

VARIABLES
  queue,      \* the request channel
  habit,      \* the kinds of message this user sends, and the controls
  sent,       \* messages sent so far; a message carries its number
  playhead,   \* where the UI's playhead is
  pc,         \* "idle", "drain", or "dead" after a panic
  drain,      \* the drain's locals: what started it, tick, held, coalesced
  rev,        \* Engine::revision
  saved,      \* Engine::saved_revision
  failed,     \* the revision whose save failed last, with an error shown, or 0
  source,     \* which decode source is bound, original or proxy
  live,       \* for each control, the override message in force, or 0
  lastTick,   \* last_tick
  persist,    \* persist_deadline is set
  settle,     \* settle_deadline is set
  redraw,     \* pending_redraw
  cache,      \* FrameCache: the pixels stored under each tick and revision
  screen,     \* the pixels last delivered
  ended       \* for each control, the last message that ended its override

loop == <<pc, drain>>
deadlines == <<persist, settle, redraw>>
engine == <<rev, saved, failed, source, live, ended>>
picture == <<cache, screen>>
vars == <<queue, habit, sent, playhead, loop, engine, lastTick, deadlines, picture>>

NoDrain == [from |-> "none", tick |-> 0, held |-> 0, coalesced |-> FALSE]

-----------------------------------------------------------------------------
(* The UI thread *)

Message(kind, control, at) ==
  [kind |-> kind, control |-> control, at |-> at, seq |-> sent + 1]

Send(kind, control, at) ==
  /\ kind \in habit
  /\ sent < MaxSent
  /\ sent' = sent + 1
  /\ queue' = Append(queue, Message(kind, control, at))
  /\ playhead' = at
  /\ UNCHANGED <<habit, loop, engine, lastTick, deadlines, picture>>

(***************************************************************************)
(* Moving the playhead requests a frame; everything else names the tick    *)
(* the playhead is at.                                                     *)
(***************************************************************************)
Scrub == \E at \in Tick : Send("frame", "none", at)

Gesture ==
  \E kind \in {"override", "commit", "clear"}, control \in Control :
    control \in habit /\ Send(kind, control, playhead)

Other == \E kind \in {"edit", "save", "stats", "proxy"} : Send(kind, "none", playhead)

-----------------------------------------------------------------------------
(* Rendering *)

Pixels(at, exact) ==
  [tick |-> at, rev |-> rev', source |-> source', live |-> live', exact |-> exact]

NoOverrides == live' = [c \in Control |-> 0]

Cached(at) == {e \in cache : e.tick = at /\ e.rev = rev'}

(***************************************************************************)
(* render_frame: a frame without overrides and exact is taken from the     *)
(* cache, or stored there.                                                 *)
(***************************************************************************)
Render(at, exact) ==
  IF exact /\ NoOverrides /\ Cached(at) # {}
  THEN screen' \in Cached(at) /\ UNCHANGED cache
  ELSE /\ screen' = Pixels(at, exact)
       /\ cache' = IF exact /\ NoOverrides THEN cache \cup {Pixels(at, TRUE)} ELSE cache

(***************************************************************************)
(* render_frame_exit_sprite does not look at the cache.                    *)
(***************************************************************************)
RenderUncached(at) == screen' = Pixels(at, TRUE) /\ UNCHANGED cache

-----------------------------------------------------------------------------
(* The engine side of one message, whoever received it *)

KeepRevision == UNCHANGED <<rev, saved, failed, source>>

Live(l, control, value) == [l EXCEPT ![control] = value]

(***************************************************************************)
(* dispatch, with l the overrides in force when it is called.              *)
(***************************************************************************)
Override(m, l) ==
  /\ m.kind = "override" /\ m.control # "transform"
  /\ KeepRevision
  /\ live' = Live(l, m.control, m.seq)
  /\ UNCHANGED ended
  /\ Render(m.at, TRUE)

Commit(m, l) ==
  /\ m.kind = "commit"
  /\ rev' = rev + 1
  /\ UNCHANGED <<saved, failed, source>>
  /\ live' = Live(l, m.control, 0)
  /\ ended' = [ended EXCEPT ![m.control] = m.seq]
  /\ IF m.control = "transform" THEN RenderUncached(m.at) ELSE UNCHANGED picture

Clear(m, l) ==
  /\ m.kind = "clear"
  /\ KeepRevision
  /\ live' = Live(l, m.control, 0)
  /\ ended' = [ended EXCEPT ![m.control] = m.seq]
  /\ IF m.control = "transform" THEN RenderUncached(m.at) ELSE Render(m.at, TRUE)

Edit(m, l) ==
  /\ m.kind = "edit"
  /\ rev' = rev + 1
  /\ live' = l
  /\ UNCHANGED <<saved, failed, source, ended, picture>>

(***************************************************************************)
(* save_project_and_publish: an error is shown when the file is not        *)
(* written, and the document stays dirty.                                  *)
(***************************************************************************)
SaveProject ==
  \/ saved' = rev /\ UNCHANGED failed
  \/ failed' = rev /\ UNCHANGED saved

Save(m, l) ==
  /\ m.kind = "save"
  /\ SaveProject
  /\ live' = l
  /\ UNCHANGED <<rev, source, ended, picture>>

Stats(m, l) ==
  /\ m.kind = "stats"
  /\ live' = l
  /\ UNCHANGED <<rev, saved, failed, source, ended, picture>>

\* A fault: frames decoded from the original stay cached.
BindProxyLazily(m, l) ==
  /\ m.kind = "proxy"
  /\ source' = "proxy"
  /\ live' = l
  /\ UNCHANGED <<rev, saved, failed, ended, picture>>

(***************************************************************************)
(* ProxyReady: another source under the same revision, so the cache goes.  *)
(***************************************************************************)
BindProxy(m, l) ==
  /\ m.kind = "proxy"
  /\ source' = "proxy"
  /\ cache' = {}
  /\ live' = l
  /\ UNCHANGED <<rev, saved, failed, ended, screen>>

Dispatch(m, l) ==
  \/ Override(m, l)
  \/ Commit(m, l)
  \/ Clear(m, l)
  \/ Edit(m, l)
  \/ Save(m, l)
  \/ Stats(m, l)
  \/ BindProxy(m, l)

(***************************************************************************)
(* The arm of dispatch for TransformOverride is unreachable!().            *)
(***************************************************************************)
Unreachable(m) == m.kind = "override" /\ m.control = "transform"

-----------------------------------------------------------------------------
(* The loop *)

Take == queue' = Tail(queue) /\ UNCHANGED <<habit, sent, playhead>>

\* A fault: dirtiness is read before the message is executed.
RearmEarly == persist' = (rev # saved)

(***************************************************************************)
(* After any work but a scrub or a stats read: arm the debounce while the  *)
(* draft is dirty, clear it when it is clean.                              *)
(***************************************************************************)
Rearm == persist' = (rev' # saved')

(***************************************************************************)
(* message_invalidates_preview                                             *)
(***************************************************************************)
Invalidates(m) ==
  \/ m.kind \in {"edit", "proxy"}
  \/ m.kind = "commit" /\ m.control # "transform"

StartsDrain(m) == m.kind \in {"frame", "override"}

(***************************************************************************)
(* A frame or an override: the local copies, then the drain.               *)
(***************************************************************************)
StartDrain ==
  LET m == Head(queue) IN
  /\ pc = "idle"
  /\ queue # << >>
  /\ StartsDrain(m)
  /\ Take
  /\ pc' = "drain"
  /\ drain' = IF m.kind = "frame"
              THEN [NoDrain EXCEPT !.from = "frame", !.tick = m.at]
              ELSE [NoDrain EXCEPT !.from = m.control, !.tick = m.at, !.held = m.seq]
  /\ UNCHANGED <<engine, lastTick, deadlines, picture>>

(***************************************************************************)
(* Any other message, on its own.                                          *)
(***************************************************************************)
Handle ==
  LET m == Head(queue) IN
  /\ pc = "idle"
  /\ queue # << >>
  /\ ~StartsDrain(m)
  /\ Take
  /\ Dispatch(m, live)
  /\ redraw' = (redraw \/ Invalidates(m))
  /\ IF m.kind = "stats" THEN UNCHANGED persist ELSE Rearm
  /\ UNCHANGED <<loop, lastTick, settle>>

(***************************************************************************)
(* A drain takes a newer frame position.                                   *)
(***************************************************************************)
DrainFrame ==
  LET m == Head(queue) IN
  /\ pc = "drain"
  /\ queue # << >>
  /\ m.kind = "frame"
  /\ Take
  /\ drain' = [drain EXCEPT !.tick = m.at, !.coalesced = TRUE]
  /\ UNCHANGED <<pc, engine, lastTick, deadlines, picture>>

(***************************************************************************)
(* A drain takes an override of its own control: only the newest is kept.  *)
(***************************************************************************)
DrainOverride ==
  LET m == Head(queue) IN
  /\ pc = "drain"
  /\ queue # << >>
  /\ m.kind = "override" /\ m.control = drain.from
  /\ Take
  /\ drain' = [drain EXCEPT !.tick = m.at, !.held = m.seq]
  /\ UNCHANGED <<pc, engine, lastTick, deadlines, picture>>

(***************************************************************************)
(* The drain behind a frame applies a transform override at once.          *)
(***************************************************************************)
DrainTransform ==
  LET m == Head(queue) IN
  /\ pc = "drain"
  /\ queue # << >>
  /\ drain.from = "frame"
  /\ m.kind = "override" /\ m.control = "transform"
  /\ Take
  /\ drain' = [drain EXCEPT !.tick = m.at]
  /\ live' = Live(live, "transform", m.seq)
  /\ UNCHANGED <<pc, rev, saved, failed, source, ended, lastTick, deadlines, picture>>

(***************************************************************************)
(* The messages a drain hands to dispatch: those none of its arms match.   *)
(***************************************************************************)
Others(m) ==
  /\ m.kind # "frame"
  /\ ~(m.kind = "override" /\ m.control = drain.from)
  /\ ~(drain.from = "frame" /\ Unreachable(m))

\* A fault: the held override is applied after the drain, whatever came between.
DrainOtherKeeping ==
  LET m == Head(queue) IN
  /\ pc = "drain"
  /\ queue # << >>
  /\ Others(m) /\ ~Unreachable(m)
  /\ Take
  /\ Dispatch(m, live)
  /\ UNCHANGED <<loop, lastTick, deadlines>>

\* A fault: an edit met in a drain is dropped like a stale frame.
DrainOtherDropping ==
  LET m == Head(queue) IN
  /\ pc = "drain"
  /\ queue # << >>
  /\ Others(m) /\ ~Unreachable(m)
  /\ Take
  /\ UNCHANGED <<loop, engine, lastTick, deadlines, picture>>

Held == IF drain.held = 0 THEN live ELSE Live(live, drain.from, drain.held)

(***************************************************************************)
(* A drain meets any other message: the held override is applied before    *)
(* it, never after.                                                        *)
(***************************************************************************)
DrainOther ==
  LET m == Head(queue) IN
  /\ pc = "drain"
  /\ queue # << >>
  /\ Others(m)
  /\ Take
  /\ drain' = [drain EXCEPT !.held = 0]
  /\ IF Unreachable(m)
     THEN pc' = "dead" /\ live' = Held /\ UNCHANGED <<rev, saved, failed, source, ended, picture>>
     ELSE Dispatch(m, Held) /\ UNCHANGED pc
  /\ UNCHANGED <<lastTick, deadlines>>

(***************************************************************************)
(* The queue is empty: one render for everything drained.  A scrub that    *)
(* outpaces the renders gets an approximate frame and owes an exact one.   *)
(***************************************************************************)
EndDrain ==
  /\ pc = "drain"
  /\ queue = << >>
  /\ lastTick' = drain.tick
  /\ live' = Held
  /\ UNCHANGED <<rev, saved, failed, source, ended>>
  /\ \E dragging \in BOOLEAN :
       /\ dragging => drain.from = "frame"
       /\ drain.from = "frame" /\ drain.coalesced => dragging
       /\ Render(drain.tick, ~dragging)
       /\ IF drain.from = "styles" THEN UNCHANGED <<redraw, settle>>
          ELSE redraw' = FALSE /\ settle' = dragging
  /\ IF drain.from = "frame" THEN UNCHANGED persist ELSE Rearm
  /\ pc' = "idle"
  /\ drain' = NoDrain
  /\ UNCHANGED <<queue, habit, sent, playhead>>

(***************************************************************************)
(* The loop top, with nothing queued.                                      *)
(***************************************************************************)
Repaint ==
  /\ pc = "idle"
  /\ queue = << >>
  /\ redraw
  /\ UNCHANGED engine
  /\ Render(lastTick, TRUE)
  /\ redraw' = FALSE
  /\ settle' = FALSE
  /\ UNCHANGED <<queue, habit, sent, playhead, loop, lastTick, persist>>

Waiting == pc = "idle" /\ queue = << >> /\ ~redraw

(***************************************************************************)
(* Wake::Settle.  Which of two deadlines comes first is left open.         *)
(***************************************************************************)
SettleWakes ==
  /\ Waiting
  /\ settle
  /\ UNCHANGED engine
  /\ Render(lastTick, TRUE)
  /\ settle' = FALSE
  /\ UNCHANGED <<queue, habit, sent, playhead, loop, lastTick, persist, redraw>>

(***************************************************************************)
(* Wake::Persist.  The deadline is over, whatever came of the save.        *)
(***************************************************************************)
PersistWakes ==
  /\ Waiting
  /\ persist
  /\ SaveProject
  /\ persist' = FALSE
  /\ UNCHANGED <<queue, habit, sent, playhead, loop, rev, source, live, ended, lastTick,
                 settle, redraw, picture>>

-----------------------------------------------------------------------------

Init ==
  /\ queue = << >>
  /\ habit \in Habits
  /\ sent = 0
  /\ playhead = 0
  /\ pc = "idle"
  /\ drain = NoDrain
  /\ rev = 0
  /\ saved = 0
  /\ failed = 0
  /\ source = "original"
  /\ live = [c \in Control |-> 0]
  /\ lastTick = 0
  /\ persist = FALSE
  /\ settle = FALSE
  /\ redraw = FALSE
  /\ cache = {}
  /\ screen = [tick |-> 0, rev |-> 0, source |-> "original",
               live |-> [c \in Control |-> 0], exact |-> TRUE]
  /\ ended = [c \in Control |-> 0]

UiStep == Scrub \/ Gesture \/ Other

WorkerStep ==
  \/ StartDrain \/ Handle
  \/ DrainFrame \/ DrainOverride \/ DrainTransform \/ DrainOther \/ EndDrain
  \/ Repaint \/ SettleWakes \/ PersistWakes

Next == UiStep \/ WorkerStep

Spec == Init /\ [][Next]_vars

(***************************************************************************)
(* The worker thread runs, and both deadlines pass on an idle worker.  The *)
(* UI owes nothing.                                                        *)
(***************************************************************************)
FairSpec ==
  Spec /\ WF_vars(WorkerStep) /\ WF_vars(SettleWakes) /\ WF_vars(PersistWakes)

-----------------------------------------------------------------------------
(* Type correctness *)

Messages ==
  [kind : {"frame", "edit", "save", "stats", "proxy"}, control : {"none"}, at : Tick, seq : Nat]
    \cup [kind : {"override", "commit", "clear"}, control : Control, at : Tick, seq : Nat]

Frames ==
  [tick : Tick, rev : Nat, source : {"original", "proxy"}, live : [Control -> Nat],
   exact : BOOLEAN]

TypeOK ==
  /\ queue \in Seq(Messages) /\ habit \in Habits /\ sent \in 0 .. MaxSent
  /\ playhead \in Tick /\ lastTick \in Tick
  /\ pc \in {"idle", "drain", "dead"}
  /\ drain \in [from : Control \cup {"none", "frame"}, tick : Tick, held : Nat, coalesced : BOOLEAN]
  /\ rev \in Nat /\ saved \in Nat /\ failed \in Nat /\ source \in {"original", "proxy"}
  /\ live \in [Control -> Nat] /\ ended \in [Control -> Nat]
  /\ persist \in BOOLEAN /\ settle \in BOOLEAN /\ redraw \in BOOLEAN
  /\ screen \in Frames /\ cache \subseteq Frames

-----------------------------------------------------------------------------
(* Safety *)

(***************************************************************************)
(* An override never outlives the commit or the clear that ended its       *)
(* gesture: one in force was sent after the last of them                   *)
(* (worker_loop.rs:326-332).                                               *)
(***************************************************************************)
OverridesEnd == \A c \in Control : live[c] # 0 => live[c] > ended[c]

(* The edits among the messages of a queue. *)
Mutations(q) == {q[k].seq : k \in {i \in DOMAIN q : q[i].kind \in {"edit", "commit"}}}

(***************************************************************************)
(* "Every mutation is executed in order - it must never be discarded by    *)
(* the coalescing drain" (worker_loop.rs:113-115): the edits not yet in    *)
(* the revision are in the queue.                                          *)
(***************************************************************************)
NothingLost ==
  [][rev' + Cardinality(Mutations(queue')) >= rev + Cardinality(Mutations(queue))]_vars

(***************************************************************************)
(* unreachable!("overrides are handled by the drain below")                *)
(* (dispatch.rs:581-583).                                                  *)
(***************************************************************************)
NeverUnreachable == pc # "dead"

-----------------------------------------------------------------------------
(* Liveness *)

ScreenIsCurrent ==
  screen = [tick |-> playhead, rev |-> rev, source |-> source, live |-> live, exact |-> TRUE]

(***************************************************************************)
(* When the UI falls silent the preview shows the exact frame at the       *)
(* playhead, of the current project, decode source and overrides: the      *)
(* deferred repaints and settles all happen and no stale frame comes from  *)
(* the cache.                                                              *)
(***************************************************************************)
ScreenSettles == []<>ScreenIsCurrent

(***************************************************************************)
(* "An edit arms a deadline; once the worker has been idle of further work *)
(* the dirty draft is written" (worker_loop.rs:142-147).  An edit drained  *)
(* behind a frame request arms none: the promise is kept to users who do   *)
(* not scrub or play while they edit.  A save that fails is not tried      *)
(* again before the next message, but the user has been told so of the     *)
(* document as it is.                                                      *)
(***************************************************************************)
DraftSaved ==
  "frame" \notin habit => (rev # saved ~> rev = saved \/ rev = failed)
=============================================================================
