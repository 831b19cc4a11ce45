------------------------- MODULE PreviewWorkerProofs -------------------------
(***************************************************************************)
(* Theorems about PreviewWorker: its types, that no override outlives its  *)
(* gesture, that no edit is dropped by a drain, that a frame served from   *)
(* the cache is the one a render would deliver, and that a worker which    *)
(* owes nothing shows the current frame and has saved.  They hold for      *)
(* every set of ticks and of habits, and any number of messages.           *)
(*                                                                         *)
(* Messages are numbered as they are sent and received in that order: what *)
(* is in the queue was sent after every override in force, every end of a  *)
(* gesture and the override a drain holds back (OrderInv).  That override  *)
(* is put in force before any message behind it is executed, so it was     *)
(* sent after the last end of its gesture (HeldInv).  Where the worker is  *)
(* in the timeline, the queue leads to where the playhead is (TickInv);    *)
(* what a turn of the loop does not show, it defers (ScreenInv), and what  *)
(* it does not save it owes (DirtyIsOwed).                                 *)
(*                                                                         *)
(* The last part is about WorkerRpc, the calls that wait for this thread   *)
(* or for the UI's, for every set of calls and every choice of what they   *)
(* ask for.  The compare-and-swap makes "pending" to "running" and         *)
(* "pending" to "abandoned" exclude each other; the invariant RpcInv       *)
(* follows that decision to the three places it is read back from: the     *)
(* operation's effect, the reply in flight and the caller's verdict.       *)
(***************************************************************************)
EXTENDS PreviewWorker, WorkerRpc, SequenceTheorems, FiniteSetTheorems, TLAPS

-----------------------------------------------------------------------------
(* The inductive invariant *)

(* The worker has met nothing sent at s or later. *)
Ahead(s) == drain.held < s /\ \A c \in Control : live[c] < s /\ ended[c] < s

OrderInv ==
  /\ Ahead(sent + 1)
  /\ \A k \in DOMAIN queue : queue[k].seq <= sent /\ Ahead(queue[k].seq)
  /\ \A j, k \in DOMAIN queue : j < k => queue[j].seq < queue[k].seq

HeldInv ==
  drain.held # 0 => pc # "idle" /\ drain.from \in Control /\ ended[drain.from] < drain.held

(* What is stored is what would be rendered. *)
CacheIsTrue ==
  \A e \in cache :
    /\ e.rev <= rev /\ e.exact /\ e.live = [c \in Control |-> 0]
    /\ e.rev = rev => e.source = source

(* Where the worker is in the timeline. *)
Position == IF pc = "idle" THEN lastTick ELSE drain.tick

(* Only a frame request moves the playhead. *)
TickInv ==
  /\ \A k \in DOMAIN queue :
       queue[k].kind # "frame" => queue[k].at = IF k = 1 THEN Position ELSE queue[k - 1].at
  /\ playhead = IF queue = << >> THEN Position ELSE queue[Len(queue)].at

(* A worker that owes no frame has shown the one it is at. *)
Shown(at) ==
  screen = [tick |-> at, rev |-> rev, source |-> source, live |-> live, exact |-> TRUE]

ScreenInv == pc = "idle" /\ ~redraw /\ ~settle => Shown(Position)

(* The user sends nothing but what this user sends. *)
HabitInv ==
  /\ \A k \in DOMAIN queue : queue[k].kind \in habit
  /\ pc = "drain" /\ drain.from = "frame" => "frame" \in habit

(* A worker that owes no save has saved, or shown an error. *)
DirtyIsOwed == "frame" \notin habit /\ pc = "idle" /\ ~persist => rev = saved \/ rev = failed

IInv ==
  /\ TypeOK
  /\ OrderInv /\ HeldInv /\ OverridesEnd
  /\ CacheIsTrue /\ TickInv /\ ScreenInv
  /\ HabitInv /\ DirtyIsOwed

-----------------------------------------------------------------------------
(* Messages *)

NoOverride == [c \in Control |-> 0]

LEMMA MessageFields ==
  ASSUME NEW m \in Messages
  PROVE  /\ m.at \in Tick /\ m.seq \in Nat
         /\ m.control \in Control \cup {"none"}
         /\ m.kind \in {"override", "commit", "clear"} => m.control \in Control
  BY DEF Messages

LEMMA SentMessage ==
  ASSUME sent \in Nat, NEW at \in Tick, NEW kind, NEW control,
         \/ kind \in {"frame", "edit", "save", "stats", "proxy"} /\ control = "none"
         \/ kind \in {"override", "commit", "clear"} /\ control \in Control
  PROVE  Message(kind, control, at) \in Messages /\ Message(kind, control, at).seq = sent + 1
  BY DEF Message, Messages

(* The UI thread sends something, and that is all it does. *)
Sends(kind, control, at) ==
  /\ Send(kind, control, at)
  /\ IF kind = "frame" THEN at \in Tick ELSE at = playhead
  /\ \/ kind \in {"frame", "edit", "save", "stats", "proxy"} /\ control = "none"
     \/ kind \in {"override", "commit", "clear"} /\ control \in Control

LEMMA UiSends ==
  ASSUME UiStep
  PROVE  \E kind, control, at : Sends(kind, control, at)
<1>1. CASE Scrub
  BY <1>1 DEF Scrub, Sends
<1>2. CASE Gesture
  BY <1>2 DEF Gesture, Sends
<1>3. CASE Other
  BY <1>3 DEF Other, Sends
<1>4. QED
  BY <1>1, <1>2, <1>3 DEF UiStep

LEMMA Taken ==
  ASSUME queue \in Seq(Messages), queue # << >>, Take
  PROVE  /\ Head(queue) \in Messages /\ Head(queue) = queue[1] /\ 1 \in DOMAIN queue
         /\ queue' \in Seq(Messages)
         /\ \A k \in DOMAIN queue' : k + 1 \in DOMAIN queue /\ queue'[k] = queue[k + 1]
         /\ \A k \in DOMAIN queue : k # 1 => k - 1 \in DOMAIN queue' /\ queue[k] = queue'[k - 1]
<1>1. /\ Head(queue) \in Messages /\ queue' \in Seq(Messages)
      /\ Len(queue') = Len(queue) - 1 /\ \A i \in 1 .. Len(queue') : queue'[i] = queue[i + 1]
  BY HeadTailProperties DEF Take
<1>2. Head(queue) = queue[1] /\ Len(queue) \in Nat \ {0}
  BY EmptySeq
<1>3. QED
  BY <1>1, <1>2

(* Who takes a message. *)
Takes ==
  Take /\ queue # << >> /\ (StartDrain \/ Handle \/ DrainFrame \/ DrainOverride \/ DrainTransform \/ DrainOther)

Wakes == EndDrain \/ Repaint \/ SettleWakes \/ PersistWakes

LEMMA WorkerCases == WorkerStep => Takes \/ Wakes
  BY DEF WorkerStep, Takes, Wakes, StartDrain, Handle, DrainFrame, DrainOverride, DrainTransform,
         DrainOther

-----------------------------------------------------------------------------
(* Types *)

LEMMA RenderTypes ==
  ASSUME NEW at \in Tick, NEW exact \in BOOLEAN, rev' \in Nat, source' \in {"original", "proxy"},
         live' \in [Control -> Nat], cache \subseteq Frames, Render(at, exact)
  PROVE  screen' \in Frames /\ cache' \subseteq Frames
<1>1. Pixels(at, exact) \in Frames /\ Pixels(at, TRUE) \in Frames
  BY DEF Pixels, Frames
<1>2. Cached(at) \subseteq Frames
  BY DEF Cached
<1>3. CASE exact /\ NoOverrides /\ Cached(at) # {}
  BY <1>2, <1>3 DEF Render
<1>4. CASE ~(exact /\ NoOverrides /\ Cached(at) # {})
  BY <1>1, <1>4 DEF Render
<1>5. QED
  BY <1>3, <1>4

LEMMA UncachedTypes ==
  ASSUME NEW at \in Tick, rev' \in Nat, source' \in {"original", "proxy"},
         live' \in [Control -> Nat], cache \subseteq Frames, RenderUncached(at)
  PROVE  screen' \in Frames /\ cache' \subseteq Frames
  BY DEF RenderUncached, Pixels, Frames

EngineTypes ==
  /\ rev \in Nat /\ saved \in Nat /\ failed \in Nat /\ source \in {"original", "proxy"}
  /\ live \in [Control -> Nat] /\ ended \in [Control -> Nat]
  /\ screen \in Frames /\ cache \subseteq Frames

LEMMA LiveType ==
  ASSUME NEW l \in [Control -> Nat], NEW c, NEW n \in Nat
  PROVE  Live(l, c, n) \in [Control -> Nat]
  BY DEF Live

LEMMA HeldType == TypeOK => Held \in [Control -> Nat]
  BY LiveType DEF TypeOK, Held

LEMMA DispatchTypes ==
  ASSUME EngineTypes, NEW m \in Messages, NEW l \in [Control -> Nat], Dispatch(m, l)
  PROVE  EngineTypes'
<1>0. m.at \in Tick /\ m.seq \in Nat
  BY MessageFields
<1>1. /\ Live(l, m.control, m.seq) \in [Control -> Nat]
      /\ Live(l, m.control, 0) \in [Control -> Nat]
      /\ [ended EXCEPT ![m.control] = m.seq] \in [Control -> Nat]
  BY <1>0, LiveType DEF EngineTypes
<1>2. CASE Override(m, l)
  BY <1>0, <1>1, <1>2, RenderTypes DEF Override, KeepRevision, EngineTypes
<1>3. CASE Commit(m, l)
  <2>1. rev' \in Nat /\ saved' \in Nat /\ failed' \in Nat /\ source' \in {"original", "proxy"}
        /\ live' \in [Control -> Nat] /\ ended' \in [Control -> Nat]
    BY <1>1, <1>3 DEF Commit, EngineTypes
  <2>2. screen' \in Frames /\ cache' \subseteq Frames
    BY <1>0, <1>3, <2>1, UncachedTypes DEF Commit, EngineTypes, picture
  <2>3. QED
    BY <2>1, <2>2 DEF EngineTypes
<1>4. CASE Clear(m, l)
  <2>1. rev' \in Nat /\ saved' \in Nat /\ failed' \in Nat /\ source' \in {"original", "proxy"}
        /\ live' \in [Control -> Nat] /\ ended' \in [Control -> Nat]
    BY <1>1, <1>4 DEF Clear, KeepRevision, EngineTypes
  <2>2. screen' \in Frames /\ cache' \subseteq Frames
    BY <1>0, <1>4, <2>1, UncachedTypes, RenderTypes DEF Clear, EngineTypes
  <2>3. QED
    BY <2>1, <2>2 DEF EngineTypes
<1>5. CASE Edit(m, l)
  BY <1>5 DEF Edit, EngineTypes, picture
<1>6. CASE Save(m, l)
  BY <1>6 DEF Save, SaveProject, EngineTypes, picture
<1>7. CASE Stats(m, l)
  BY <1>7 DEF Stats, EngineTypes, picture
<1>8. CASE BindProxy(m, l)
  BY <1>8 DEF BindProxy, EngineTypes
<1>9. QED
  BY <1>2, <1>3, <1>4, <1>5, <1>6, <1>7, <1>8 DEF Dispatch

DrainType ==
  [from : Control \cup {"none", "frame"}, tick : Tick, held : Nat, coalesced : BOOLEAN]

(* The rest of the state beside the queue and the engine. *)
LoopTypes ==
  /\ habit \in Habits /\ sent \in 0 .. MaxSent /\ playhead \in Tick /\ lastTick \in Tick
  /\ pc \in {"idle", "drain", "dead"} /\ drain \in DrainType

DeadlineTypes == persist \in BOOLEAN /\ settle \in BOOLEAN /\ redraw \in BOOLEAN

LEMMA TypeParts ==
  /\ TypeOK <=> queue \in Seq(Messages) /\ EngineTypes /\ LoopTypes /\ DeadlineTypes
  /\ TypeOK' <=> queue' \in Seq(Messages) /\ EngineTypes' /\ LoopTypes' /\ DeadlineTypes'
  BY DEF TypeOK, EngineTypes, LoopTypes, DeadlineTypes, DrainType

LEMMA EngineAlone == EngineTypes /\ UNCHANGED <<engine, picture>> => EngineTypes'
  BY DEF EngineTypes, engine, picture

LEMMA RearmType == Rearm => persist' \in BOOLEAN
<1>1. (rev' # saved') \in BOOLEAN
  OBVIOUS
<1>2. QED
  BY <1>1, Zenon DEF Rearm

LEMMA DrainTypes ==
  ASSUME TypeOK, NEW m \in Messages
  PROVE  /\ NoDrain \in DrainType
         /\ [NoDrain EXCEPT !.from = "frame", !.tick = m.at] \in DrainType
         /\ m.kind = "override" =>
              [NoDrain EXCEPT !.from = m.control, !.tick = m.at, !.held = m.seq] \in DrainType
         /\ [drain EXCEPT !.tick = m.at, !.coalesced = TRUE] \in DrainType
         /\ [drain EXCEPT !.tick = m.at, !.held = m.seq] \in DrainType
         /\ [drain EXCEPT !.tick = m.at] \in DrainType
         /\ [drain EXCEPT !.held = 0] \in DrainType
  BY PreviewAssumption, MessageFields DEF TypeOK, DrainType, NoDrain

LEMMA UiTypes == TypeOK /\ UiStep => TypeOK'
<1> SUFFICES ASSUME TypeOK, UiStep PROVE TypeOK'
  OBVIOUS
<1>1. PICK kind, control, at : Sends(kind, control, at)
  BY UiSends
<1>2. at \in Tick /\ sent \in Nat
  BY <1>1, PreviewAssumption DEF Sends, TypeOK
<1>3. queue' \in Seq(Messages)
  BY <1>1, <1>2, SentMessage, AppendProperties DEF Sends, Send, TypeOK
<1>4. LoopTypes'
  BY <1>1, <1>2, PreviewAssumption DEF Sends, Send, LoopTypes, TypeOK, DrainType, loop
<1>5. EngineTypes' /\ DeadlineTypes'
  BY <1>1, EngineAlone, TypeParts DEF Sends, Send, DeadlineTypes, deadlines
<1>6. QED
  BY <1>3, <1>4, <1>5, TypeParts

LEMMA TakesTypes == TypeOK /\ Takes => TypeOK'
<1> SUFFICES ASSUME TypeOK, Takes PROVE TypeOK'
  OBVIOUS
<1>0. /\ EngineTypes /\ LoopTypes /\ DeadlineTypes
      /\ Head(queue) \in Messages /\ queue' \in Seq(Messages)
      /\ habit' \in Habits /\ sent' \in 0 .. MaxSent /\ playhead' \in Tick
  BY TypeParts, Taken DEF Takes, Take, TypeOK
<1>1. CASE StartDrain
  <2>1. drain' \in DrainType
    BY <1>0, <1>1, DrainTypes DEF StartDrain, StartsDrain
  <2>2. EngineTypes' /\ DeadlineTypes'
    BY <1>0, <1>1, EngineAlone DEF StartDrain, DeadlineTypes, deadlines
  <2>3. QED
    BY <1>0, <1>1, <2>1, <2>2, TypeParts DEF StartDrain, LoopTypes
<1>2. CASE Handle
  <2>1. EngineTypes'
    BY <1>0, <1>2, DispatchTypes DEF Handle, TypeOK
  <2>2. redraw' \in BOOLEAN
    <3>1. redraw \in BOOLEAN /\ redraw' = (redraw \/ Invalidates(Head(queue)))
      BY <1>0, <1>2 DEF Handle, DeadlineTypes
    <3>2. QED
      BY <3>1, Zenon
  <2>3. persist' \in BOOLEAN /\ settle' \in BOOLEAN
    BY <1>0, <1>2, RearmType DEF Handle, DeadlineTypes
  <2>4. QED
    BY <1>0, <1>2, <2>1, <2>2, <2>3, TypeParts DEF Handle, LoopTypes, DeadlineTypes, loop
<1>3. CASE DrainFrame
  BY <1>0, <1>3, DrainTypes, EngineAlone, TypeParts
     DEF DrainFrame, LoopTypes, DeadlineTypes, deadlines
<1>4. CASE DrainOverride
  BY <1>0, <1>4, DrainTypes, EngineAlone, TypeParts
     DEF DrainOverride, LoopTypes, DeadlineTypes, deadlines
<1>5. CASE DrainTransform
  <2>1. EngineTypes'
    BY <1>0, <1>5, LiveType, MessageFields DEF DrainTransform, EngineTypes, picture
  <2>2. QED
    BY <1>0, <1>5, <2>1, DrainTypes, TypeParts DEF DrainTransform, LoopTypes, DeadlineTypes, deadlines
<1>6. CASE DrainOther
  <2>1. EngineTypes'
    <3>1. CASE Unreachable(Head(queue))
      BY <1>0, <1>6, <3>1, HeldType DEF DrainOther, EngineTypes, picture
    <3>2. CASE ~Unreachable(Head(queue))
      BY <1>0, <1>6, <3>2, HeldType, DispatchTypes DEF DrainOther
    <3>3. QED
      BY <3>1, <3>2
  <2>2. pc' \in {"idle", "drain", "dead"}
    BY <1>0, <1>6 DEF DrainOther, LoopTypes
  <2>3. QED
    BY <1>0, <1>6, <2>1, <2>2, DrainTypes, TypeParts DEF DrainOther, LoopTypes, DeadlineTypes, deadlines
<1>7. QED
  BY <1>1, <1>2, <1>3, <1>4, <1>5, <1>6 DEF Takes

LEMMA RenderedTypes ==
  ASSUME EngineTypes, NEW at \in Tick, NEW exact \in BOOLEAN, Render(at, exact),
         UNCHANGED <<rev, saved, failed, source, ended>>, live' \in [Control -> Nat]
  PROVE  EngineTypes'
  BY RenderTypes DEF EngineTypes

LEMMA WakesTypes == TypeOK /\ Wakes => TypeOK'
<1> SUFFICES ASSUME TypeOK, Wakes PROVE TypeOK'
  OBVIOUS
<1>0. /\ EngineTypes /\ LoopTypes /\ DeadlineTypes
      /\ queue' \in Seq(Messages) /\ habit' \in Habits /\ sent' \in 0 .. MaxSent /\ playhead' \in Tick
  BY TypeParts DEF Wakes, EndDrain, Repaint, SettleWakes, PersistWakes, LoopTypes
<1>1. CASE EndDrain
  <2>0. drain.tick \in Tick
    BY <1>0 DEF LoopTypes, DrainType
  <2>1. PICK dragging \in BOOLEAN :
          /\ Render(drain.tick, ~dragging)
          /\ IF drain.from = "styles" THEN UNCHANGED <<redraw, settle>>
             ELSE redraw' = FALSE /\ settle' = dragging
    BY <1>1 DEF EndDrain
  <2>2. EngineTypes'
    <3>1. (~dragging) \in BOOLEAN
      OBVIOUS
    <3>2. QED
      BY <1>0, <1>1, <2>0, <2>1, <3>1, RenderedTypes, HeldType DEF EndDrain
  <2>3. redraw' \in BOOLEAN /\ settle' \in BOOLEAN
    BY <1>0, <2>1 DEF DeadlineTypes
  <2>4. persist' \in BOOLEAN
    BY <1>0, <1>1, RearmType DEF EndDrain, DeadlineTypes
  <2>5. NoDrain \in DrainType
    BY PreviewAssumption DEF NoDrain, DrainType
  <2>6. QED
    BY <1>0, <1>1, <2>0, <2>2, <2>3, <2>4, <2>5, TypeParts DEF EndDrain, LoopTypes, DeadlineTypes
<1>2. CASE Repaint \/ SettleWakes
  <2>1. EngineTypes'
    BY <1>0, <1>2, RenderedTypes DEF Repaint, SettleWakes, engine, EngineTypes, LoopTypes
  <2>2. QED
    BY <1>0, <1>2, <2>1, TypeParts DEF Repaint, SettleWakes, LoopTypes, DeadlineTypes, loop
<1>3. CASE PersistWakes
  <2>1. EngineTypes'
    BY <1>0, <1>3 DEF PersistWakes, SaveProject, EngineTypes, picture
  <2>2. QED
    BY <1>0, <1>3, <2>1, TypeParts DEF PersistWakes, LoopTypes, DeadlineTypes, loop
<1>4. QED
  BY <1>1, <1>2, <1>3 DEF Wakes

LEMMA TypesKept == TypeOK /\ [Next]_vars => TypeOK'
<1>1. TypeOK /\ UNCHANGED vars => TypeOK'
  BY DEF TypeOK, vars, loop, engine, deadlines, picture
<1>2. QED
  BY <1>1, UiTypes, TakesTypes, WakesTypes, WorkerCases DEF Next

-----------------------------------------------------------------------------
(* Overrides and the ends of their gestures *)

LEMMA LiveAt ==
  ASSUME NEW l \in [Control -> Nat], NEW c, NEW n \in Nat, NEW d \in Control
  PROVE  Live(l, c, n)[d] = IF d = c THEN n ELSE l[d]
  BY DEF Live

LEMMA DispatchMarks ==
  ASSUME EngineTypes, NEW m \in Messages, NEW l \in [Control -> Nat], Dispatch(m, l),
         NEW c \in Control
  PROVE  /\ live'[c] \in {l[c], 0, m.seq} /\ ended'[c] \in {ended[c], m.seq}
         /\ ended'[c] # ended[c] => live'[c] = 0
<1>0. m.seq \in Nat /\ ended \in [Control -> Nat]
  BY MessageFields DEF EngineTypes
<1>1. CASE Override(m, l)
  BY <1>0, <1>1, LiveAt DEF Override
<1>2. CASE Commit(m, l)
  BY <1>0, <1>2, LiveAt DEF Commit
<1>3. CASE Clear(m, l)
  BY <1>0, <1>3, LiveAt DEF Clear
<1>4. CASE live' = l /\ UNCHANGED ended
  BY <1>4
<1>5. QED
  BY <1>1, <1>2, <1>3, <1>4 DEF Dispatch, Edit, Save, Stats, BindProxy

LEMMA OverridesStay ==
  ASSUME EngineTypes, NEW m \in Messages, NEW l \in [Control -> Nat], Dispatch(m, l),
         \A c \in Control : ended[c] < m.seq /\ (l[c] # 0 => l[c] > ended[c])
  PROVE  OverridesEnd'
<1>1. SUFFICES ASSUME NEW c \in Control, live'[c] # 0 PROVE live'[c] > ended'[c]
  BY DEF OverridesEnd
<1>2. /\ live'[c] \in {l[c], 0, m.seq} /\ ended'[c] \in {ended[c], m.seq}
      /\ ended'[c] # ended[c] => live'[c] = 0
  BY DispatchMarks
<1>3. m.seq \in Nat /\ ended[c] \in Nat /\ l[c] \in Nat
  BY MessageFields DEF EngineTypes
<1>4. QED
  BY <1>1, <1>2, <1>3

LEMMA HeldMarks ==
  ASSUME TypeOK, HeldInv, OverridesEnd, NEW c \in Control
  PROVE  Held[c] \in {live[c], drain.held} /\ (Held[c] # 0 => Held[c] > ended[c])
<1>1. drain.held \in Nat /\ live \in [Control -> Nat]
  BY DEF TypeOK
<1>2. CASE drain.held = 0
  BY <1>2 DEF Held, OverridesEnd
<1>3. CASE drain.held # 0
  BY <1>1, <1>3, LiveAt DEF Held, OverridesEnd, HeldInv
<1>4. QED
  BY <1>2, <1>3

MarkTypes ==
  /\ sent \in Nat /\ drain.held \in Nat
  /\ \A c \in Control : live[c] \in Nat /\ ended[c] \in Nat
  /\ \A k \in DOMAIN queue : queue[k].seq \in Nat

LEMMA Marks == TypeOK => MarkTypes
<1>1. TypeOK => \A k \in DOMAIN queue : queue[k].seq \in Nat
  BY MessageFields, ElementOfSeq DEF TypeOK
<1>2. QED
  BY <1>1 DEF TypeOK, MarkTypes

(* The worker's marks are numbers of messages it has met. *)
LEMMA OrderAsTaken ==
  ASSUME TypeOK, OrderInv, Take, queue # << >>,
         drain'.held \in {drain.held, 0, Head(queue).seq},
         \A c \in Control :
           /\ live'[c] \in {live[c], 0, drain.held, Head(queue).seq}
           /\ ended'[c] \in {ended[c], Head(queue).seq}
  PROVE  OrderInv'
<1> DEFINE s == queue[1].seq
<1>0. /\ Head(queue) = queue[1] /\ 1 \in DOMAIN queue /\ sent' = sent
      /\ \A k \in DOMAIN queue' : k + 1 \in DOMAIN queue /\ queue'[k] = queue[k + 1] /\ k \in Nat \ {0}
  <2>1. queue' \in Seq(Messages) /\ queue \in Seq(Messages)
    BY Taken DEF TypeOK
  <2>2. \A k \in DOMAIN queue' : k \in Nat \ {0}
    BY <2>1
  <2>3. QED
    BY <2>2, Taken DEF TypeOK, Take
<1>1. MarkTypes
  BY Marks
<1>2. s \in Nat /\ s <= sent /\ Ahead(s)
  BY <1>0, <1>1 DEF OrderInv, MarkTypes
<1>3. /\ drain'.held \in Nat /\ drain'.held <= s
      /\ \A c \in Control : live'[c] \in Nat /\ live'[c] <= s /\ ended'[c] \in Nat /\ ended'[c] <= s
  BY <1>0, <1>1, <1>2 DEF Ahead, MarkTypes
<1>4. ASSUME NEW n \in Nat, s < n PROVE Ahead(n)'
  BY <1>2, <1>3, <1>4 DEF Ahead
<1>5. Ahead(sent + 1)'
  <2>1. PICK n \in Nat : n = sent + 1
    BY <1>1 DEF MarkTypes
  <2>2. n' = n /\ Ahead(n)' /\ n = sent' + 1
    BY <1>0, <1>1, <1>2, <1>4, <2>1 DEF MarkTypes
  <2>3. QED
    BY <2>2 DEF Ahead
<1>6. ASSUME NEW k \in DOMAIN queue' PROVE queue'[k].seq <= sent' /\ Ahead(queue[k].seq)'
  <2>1. PICK n \in Nat : n = queue[k + 1].seq
    BY <1>0, <1>1, <1>6 DEF MarkTypes
  <2>2. k + 1 \in DOMAIN queue /\ 1 < k + 1
    BY <1>0, <1>6
  <2>3. s < n /\ n <= sent
    BY <1>0, <2>1, <2>2 DEF OrderInv
  <2>4. queue'[k].seq = n /\ Ahead(n)'
    BY <1>0, <1>4, <1>6, <2>1, <2>3
  <2>5. QED
    BY <1>0, <2>3, <2>4 DEF Ahead
<1>7. ASSUME NEW j \in DOMAIN queue', NEW k \in DOMAIN queue', j < k
      PROVE  queue'[j].seq < queue'[k].seq
  <2>1. j + 1 \in DOMAIN queue /\ k + 1 \in DOMAIN queue /\ j + 1 < k + 1
    BY <1>0, <1>7
  <2>2. QED
    BY <1>0, <1>7, <2>1 DEF OrderInv
<1>8. QED
  BY <1>5, <1>6, <1>7 DEF OrderInv

LEMMA OrderAsSent ==
  ASSUME TypeOK, OrderInv, UiStep
  PROVE  OrderInv'
<1>1. PICK kind, control, at : Sends(kind, control, at)
  BY UiSends
<1> DEFINE m == Message(kind, control, at)
<1>2. m \in Messages /\ m.seq = sent + 1 /\ queue \in Seq(Messages)
  BY <1>1, SentMessage DEF Sends, TypeOK
<1>3. queue' = Append(queue, m) /\ sent' = sent + 1 /\ UNCHANGED <<drain, live, ended>>
  BY <1>1 DEF Sends, Send, loop, engine
<1> HIDE DEF m
<1>4. MarkTypes
  BY Marks
<1>5. ASSUME NEW n PROVE Ahead(n)' <=> Ahead(n)
  BY <1>3 DEF Ahead
<1>6. /\ Len(queue) \in Nat /\ DOMAIN queue = 1 .. Len(queue)
      /\ DOMAIN queue' = 1 .. Len(queue) + 1
      /\ queue'[Len(queue) + 1] = m /\ \A k \in DOMAIN queue : queue'[k] = queue[k]
  BY <1>2, <1>3, AppendProperties
<1>7. Ahead(sent + 1)'
  <2>1. PICK n \in Nat : n = sent + 1
    BY <1>4 DEF MarkTypes
  <2>2. Ahead(n + 1)
    BY <1>4, <2>1 DEF OrderInv, Ahead, MarkTypes
  <2>3. QED
    BY <1>3, <2>1, <2>2 DEF Ahead
<1>8. ASSUME NEW k \in DOMAIN queue' PROVE queue'[k].seq <= sent' /\ Ahead(queue[k].seq)'
  <2>1. CASE k \in DOMAIN queue
    <3>1. queue'[k].seq = queue[k].seq /\ queue[k].seq <= sent /\ Ahead(queue[k].seq)
      BY <1>6, <2>1 DEF OrderInv
    <3>2. QED
      BY <1>3, <1>4, <2>1, <3>1 DEF Ahead, MarkTypes
  <2>2. CASE k = Len(queue) + 1
    <3>1. queue'[k].seq = sent + 1 /\ Ahead(sent + 1)
      BY <1>2, <1>6, <2>2 DEF OrderInv
    <3>2. QED
      BY <1>3, <1>4, <3>1 DEF Ahead, MarkTypes
  <2>3. QED
    BY <1>6, <1>8, <2>1, <2>2
<1>9. ASSUME NEW j \in DOMAIN queue', NEW k \in DOMAIN queue', j < k
      PROVE  queue'[j].seq < queue'[k].seq
  <2>1. j \in DOMAIN queue /\ queue'[j].seq = queue[j].seq
    BY <1>6, <1>9
  <2>2. CASE k \in DOMAIN queue
    BY <1>6, <1>9, <2>1, <2>2 DEF OrderInv
  <2>3. CASE k = Len(queue) + 1
    <3>1. queue[j].seq <= sent /\ queue[j].seq \in Nat /\ queue'[k].seq = sent + 1
      BY <1>2, <1>4, <1>6, <2>1, <2>3 DEF OrderInv, MarkTypes
    <3>2. QED
      BY <1>4, <2>1, <3>1 DEF MarkTypes
  <2>4. QED
    BY <1>6, <1>9, <2>2, <2>3
<1>10. QED
  BY <1>7, <1>8, <1>9 DEF OrderInv

(* With nothing to receive, only the held override can come into force. *)
LEMMA OrderAtRest ==
  ASSUME TypeOK, OrderInv, UNCHANGED <<queue, sent, ended>>, drain'.held \in {drain.held, 0},
         \A c \in Control : live'[c] \in {live[c], 0, drain.held}
  PROVE  OrderInv'
<1>1. MarkTypes
  BY Marks
<1>2. ASSUME NEW n \in Nat, Ahead(n) PROVE Ahead(n)'
  BY <1>1, <1>2 DEF Ahead, MarkTypes
<1>3. Ahead(sent + 1)'
  <2>1. PICK n \in Nat : n = sent + 1
    BY <1>1 DEF MarkTypes
  <2>2. Ahead(n)'
    BY <1>2, <2>1 DEF OrderInv
  <2>3. QED
    BY <2>1, <2>2 DEF Ahead
<1>4. ASSUME NEW k \in DOMAIN queue PROVE Ahead(queue[k].seq)'
  <2>1. PICK n \in Nat : n = queue[k].seq
    BY <1>1, <1>4 DEF MarkTypes
  <2>2. Ahead(n)'
    BY <1>2, <1>4, <2>1 DEF OrderInv
  <2>3. QED
    BY <2>1, <2>2 DEF Ahead
<1>5. QED
  BY <1>3, <1>4 DEF OrderInv

MarksInv == OrderInv /\ HeldInv /\ OverridesEnd

LEMMA NoneHeld == NoDrain.held = 0
  BY DEF NoDrain

LEMMA MarksAsTaken == TypeOK /\ MarksInv /\ Takes => MarksInv'
<1> SUFFICES ASSUME TypeOK, MarksInv, Takes PROVE MarksInv'
  OBVIOUS
<1> DEFINE m == Head(queue)
<1>0. /\ m \in Messages /\ m.seq \in Nat /\ m.seq = queue[1].seq /\ Ahead(m.seq)
      /\ m.kind = "override" => m.control \in Control
      /\ Take /\ queue # << >>
  BY Taken, MessageFields DEF Takes, TypeOK, MarksInv, OrderInv
<1>1. MarkTypes /\ EngineTypes /\ live \in [Control -> Nat]
  BY Marks, TypeParts DEF TypeOK
<1>2. \A c \in Control : ended[c] < m.seq /\ (live[c] # 0 => live[c] > ended[c])
  BY <1>0 DEF Ahead, MarksInv, OverridesEnd
<1>3. CASE StartDrain \/ DrainFrame \/ DrainOverride
  <2>1. UNCHANGED <<live, ended>>
    BY <1>3 DEF StartDrain, DrainFrame, DrainOverride, engine
  <2>2. drain'.held \in {drain.held, 0, m.seq}
    BY <1>3, NoneHeld DEF StartDrain, DrainFrame, DrainOverride, TypeOK, NoDrain
  <2>3. HeldInv'
    <3>1. CASE StartDrain
      BY <1>0, <1>2, <2>1, <3>1 DEF StartDrain, StartsDrain, HeldInv, NoDrain
    <3>2. CASE DrainFrame
      BY <2>1, <3>2 DEF DrainFrame, HeldInv, MarksInv, TypeOK
    <3>3. CASE DrainOverride
      BY <1>0, <1>2, <2>1, <3>3 DEF DrainOverride, HeldInv, TypeOK
    <3>4. QED
      BY <1>3, <3>1, <3>2, <3>3
  <2>4. QED
    BY <1>0, <2>1, <2>2, <2>3, OrderAsTaken DEF MarksInv, OverridesEnd
<1>4. CASE Handle
  <2>1. Dispatch(m, live) /\ drain' = drain
    BY <1>4 DEF Handle, loop
  <2>2. OverridesEnd'
    BY <1>0, <1>1, <1>2, <2>1, OverridesStay
  <2>3. \A c \in Control : live'[c] \in {live[c], 0, m.seq} /\ ended'[c] \in {ended[c], m.seq}
    BY <1>0, <1>1, <2>1, DispatchMarks
  <2>4. drain.held = 0
    BY <1>4 DEF Handle, MarksInv, HeldInv
  <2>5. QED
    BY <1>0, <2>1, <2>2, <2>3, <2>4, OrderAsTaken DEF MarksInv, HeldInv
<1>5. CASE DrainTransform
  <2>1. live' = Live(live, "transform", m.seq) /\ ended' = ended /\ drain'.held = drain.held
        /\ drain.from = "frame" /\ drain'.from = drain.from /\ pc' = pc
    BY <1>5 DEF DrainTransform, TypeOK
  <2>2. \A c \in Control : live'[c] = IF c = "transform" THEN m.seq ELSE live[c]
    BY <1>0, <1>1, <2>1, LiveAt
  <2>3. OverridesEnd'
    BY <1>1, <1>2, <2>1, <2>2 DEF OverridesEnd
  <2>4. HeldInv'
    BY <2>1 DEF HeldInv, MarksInv
  <2>5. OrderInv'
    BY <1>0, <2>1, <2>2, OrderAsTaken DEF MarksInv
  <2>6. QED
    BY <2>3, <2>4, <2>5 DEF MarksInv
<1>6. CASE DrainOther
  <2>1. drain'.held = 0
    BY <1>6 DEF DrainOther, TypeOK
  <2>2. \A c \in Control : Held[c] \in {live[c], drain.held} /\ (Held[c] # 0 => Held[c] > ended[c])
    BY HeldMarks DEF MarksInv
  <2>3. Held \in [Control -> Nat]
    BY HeldType
  <2>4. CASE Unreachable(m)
    <3>1. live' = Held /\ ended' = ended
      BY <1>6, <2>4 DEF DrainOther
    <3>2. OrderInv'
      BY <1>0, <2>1, <2>2, <3>1, OrderAsTaken DEF MarksInv
    <3>3. QED
      BY <2>1, <2>2, <3>1, <3>2 DEF MarksInv, HeldInv, OverridesEnd
  <2>5. CASE ~Unreachable(m)
    <3>1. Dispatch(m, Held)
      BY <1>6, <2>5 DEF DrainOther
    <3>2. OverridesEnd'
      BY <1>0, <1>1, <1>2, <2>2, <2>3, <3>1, OverridesStay
    <3>3. \A c \in Control : live'[c] \in {Held[c], 0, m.seq} /\ ended'[c] \in {ended[c], m.seq}
      BY <1>0, <1>1, <2>3, <3>1, DispatchMarks
    <3>4. OrderInv'
      BY <1>0, <2>1, <2>2, <3>3, OrderAsTaken DEF MarksInv
    <3>5. QED
      BY <2>1, <3>2, <3>4 DEF MarksInv, HeldInv
  <2>6. QED
    BY <2>4, <2>5
<1>7. QED
  BY <1>3, <1>4, <1>5, <1>6 DEF Takes

LEMMA MarksAtRest == TypeOK /\ MarksInv /\ Wakes => MarksInv'
<1> SUFFICES ASSUME TypeOK, MarksInv, Wakes PROVE MarksInv'
  OBVIOUS
<1>1. UNCHANGED <<queue, sent, ended>>
  BY DEF Wakes, EndDrain, Repaint, SettleWakes, PersistWakes, engine
<1>2. CASE EndDrain
  <2>1. live' = Held /\ drain'.held = 0
    BY <1>2, NoneHeld DEF EndDrain
  <2>2. \A c \in Control : Held[c] \in {live[c], drain.held} /\ (Held[c] # 0 => Held[c] > ended[c])
    BY HeldMarks DEF MarksInv
  <2>3. QED
    BY <1>1, <2>1, <2>2, OrderAtRest DEF MarksInv, HeldInv, OverridesEnd
<1>3. CASE Repaint \/ SettleWakes \/ PersistWakes
  <2>1. UNCHANGED <<live, drain, pc>>
    BY <1>3 DEF Repaint, SettleWakes, PersistWakes, engine, loop
  <2>2. QED
    BY <1>1, <2>1, OrderAtRest DEF MarksInv, HeldInv, OverridesEnd
<1>4. QED
  BY <1>2, <1>3 DEF Wakes

LEMMA MarksAsSent == TypeOK /\ MarksInv /\ UiStep => MarksInv'
<1> SUFFICES ASSUME TypeOK, MarksInv, UiStep PROVE MarksInv'
  OBVIOUS
<1>1. UNCHANGED <<live, ended, drain, pc>>
  BY UiSends DEF Sends, Send, engine, loop
<1>2. QED
  BY <1>1, OrderAsSent DEF MarksInv, HeldInv, OverridesEnd

LEMMA MarksKept == TypeOK /\ MarksInv /\ [Next]_vars => MarksInv'
<1>1. TypeOK /\ MarksInv /\ UNCHANGED vars => MarksInv'
  BY DEF MarksInv, OrderInv, HeldInv, OverridesEnd, Ahead, vars, loop, engine
<1>2. QED
  BY <1>1, MarksAsTaken, MarksAtRest, MarksAsSent, WorkerCases DEF Next

-----------------------------------------------------------------------------
(* The frame cache *)

(* A frame drawn or stored by a render is as the document is now. *)
LEMMA CacheAsRendered ==
  ASSUME TypeOK, CacheIsTrue, NEW at, NEW exact \in BOOLEAN, Render(at, exact),
         UNCHANGED <<rev, source>>
  PROVE  CacheIsTrue'
<1>1. ASSUME NEW e \in cache' PROVE e \in cache \/ (exact /\ NoOverrides /\ e = Pixels(at, TRUE))
  BY <1>1 DEF Render
<1>2. rev \in Nat
  BY DEF TypeOK
<1>3. ASSUME NEW e \in cache'
      PROVE  /\ e.rev <= rev' /\ e.exact /\ e.live = [c \in Control |-> 0]
             /\ e.rev = rev' => e.source = source'
  <2>1. CASE e \in cache
    BY <2>1 DEF CacheIsTrue
  <2>2. CASE NoOverrides /\ e = Pixels(at, TRUE)
    BY <1>2, <2>2 DEF NoOverrides, Pixels
  <2>3. QED
    BY <1>1, <1>3, <2>1, <2>2
<1>4. QED
  BY <1>3 DEF CacheIsTrue

(* An edit makes another revision, and what was stored belongs to the old. *)
LEMMA CacheAsEdited ==
  ASSUME TypeOK, CacheIsTrue, UNCHANGED <<cache, source>>, rev' \in {rev, rev + 1}
  PROVE  CacheIsTrue'
<1>1. rev \in Nat /\ cache \subseteq Frames
  BY DEF TypeOK
<1>2. \A e \in cache : e.rev \in Nat
  BY <1>1 DEF Frames
<1>3. QED
  BY <1>1, <1>2 DEF CacheIsTrue

LEMMA CacheAsDispatched ==
  ASSUME TypeOK, CacheIsTrue, NEW m, NEW l, Dispatch(m, l)
  PROVE  CacheIsTrue'
<1>1. CASE Override(m, l)
  BY <1>1, CacheAsRendered DEF Override, KeepRevision
<1>2. CASE Commit(m, l)
  BY <1>2, CacheAsEdited DEF Commit, RenderUncached, picture
<1>3. CASE Clear(m, l)
  <2>1. UNCHANGED <<rev, source>>
    BY <1>3 DEF Clear, KeepRevision
  <2>2. CASE m.control = "transform"
    BY <1>3, <2>1, <2>2, CacheAsEdited DEF Clear, RenderUncached
  <2>3. CASE m.control # "transform"
    BY <1>3, <2>1, <2>3, CacheAsRendered DEF Clear
  <2>4. QED
    BY <2>2, <2>3
<1>4. CASE Edit(m, l) \/ Save(m, l) \/ Stats(m, l)
  BY <1>4, CacheAsEdited DEF Edit, Save, Stats, picture
<1>5. CASE BindProxy(m, l)
  BY <1>5 DEF BindProxy, CacheIsTrue
<1>6. QED
  BY <1>1, <1>2, <1>3, <1>4, <1>5 DEF Dispatch

LEMMA CacheKept == TypeOK /\ CacheIsTrue /\ [Next]_vars => CacheIsTrue'
<1> SUFFICES ASSUME TypeOK, CacheIsTrue, [Next]_vars PROVE CacheIsTrue'
  OBVIOUS
<1>1. CASE UNCHANGED <<rev, source, cache>>
  BY <1>1 DEF CacheIsTrue
<1>2. CASE UiStep
  BY <1>1, <1>2, UiSends DEF Sends, Send, engine, picture
<1>3. CASE StartDrain \/ DrainFrame \/ DrainOverride \/ DrainTransform \/ PersistWakes \/ UNCHANGED vars
  BY <1>1, <1>3
     DEF StartDrain, DrainFrame, DrainOverride, DrainTransform, PersistWakes, vars, engine, picture
<1>4. CASE Handle
  BY <1>4, CacheAsDispatched DEF Handle
<1>5. CASE DrainOther
  <2>1. CASE Unreachable(Head(queue))
    BY <1>1, <1>5, <2>1 DEF DrainOther, picture
  <2>2. CASE ~Unreachable(Head(queue))
    BY <1>5, <2>2, CacheAsDispatched DEF DrainOther
  <2>3. QED
    BY <2>1, <2>2
<1>6. CASE EndDrain
  <2>1. PICK dragging \in BOOLEAN : Render(drain.tick, ~dragging)
    BY <1>6 DEF EndDrain
  <2>2. (~dragging) \in BOOLEAN /\ UNCHANGED <<rev, source>>
    BY <1>6 DEF EndDrain
  <2>3. QED
    BY <2>1, <2>2, CacheAsRendered
<1>7. CASE Repaint \/ SettleWakes
  BY <1>7, CacheAsRendered DEF Repaint, SettleWakes, engine
<1>8. QED
  BY <1>2, <1>3, <1>4, <1>5, <1>6, <1>7 DEF Next, WorkerStep

-----------------------------------------------------------------------------
(* The edits in the queue *)

LEMMA MutationsFinite ==
  ASSUME NEW q \in Seq(Messages), NEW n \in Nat, \A k \in DOMAIN q : q[k].seq <= n
  PROVE  IsFiniteSet(Mutations(q)) /\ Cardinality(Mutations(q)) \in Nat
<1>1. \A k \in DOMAIN q : q[k].seq \in Nat
  BY MessageFields, ElementOfSeq
<1>2. Mutations(q) \in SUBSET Nat /\ \A i \in Mutations(q) : i <= n
  BY <1>1 DEF Mutations
<1>3. QED
  BY <1>2, FS_BoundedSetOfNaturals, FS_CardinalityType

(* A message is taken only to be executed. *)
LEMMA MutationExecuted ==
  ASSUME TypeOK, Takes
  PROVE  /\ rev' \in Nat /\ rev' >= rev
         /\ Head(queue).kind \in {"edit", "commit"} => rev' = rev + 1
<1> DEFINE m == Head(queue)
<1>0. rev \in Nat
  BY DEF TypeOK
<1>1. ASSUME NEW l, Dispatch(m, l)
      PROVE  rev' = rev \/ rev' = rev + 1
  BY <1>1 DEF Dispatch, Override, Commit, Clear, Edit, Save, Stats, BindProxy, KeepRevision
<1>2. ASSUME NEW l, Dispatch(m, l), m.kind \in {"edit", "commit"}
      PROVE  rev' = rev + 1
  BY <1>2 DEF Dispatch, Override, Commit, Clear, Edit, Save, Stats, BindProxy
<1>3. CASE StartDrain \/ DrainFrame \/ DrainOverride \/ DrainTransform
  BY <1>0, <1>3 DEF StartDrain, DrainFrame, DrainOverride, DrainTransform, StartsDrain, engine
<1>4. CASE Handle
  BY <1>0, <1>1, <1>2, <1>4 DEF Handle
<1>5. CASE DrainOther
  <2>1. CASE Unreachable(m)
    BY <1>0, <1>5, <2>1 DEF DrainOther, Unreachable
  <2>2. CASE ~Unreachable(m)
    BY <1>0, <1>1, <1>2, <1>5, <2>2 DEF DrainOther
  <2>3. QED
    BY <2>1, <2>2
<1>6. QED
  BY <1>3, <1>4, <1>5 DEF Takes

LEMMA NoneDropped ==
  ASSUME TypeOK, OrderInv, TypeOK', OrderInv', [Next]_vars
  PROVE  rev' + Cardinality(Mutations(queue')) >= rev + Cardinality(Mutations(queue))
<1> DEFINE M == Mutations(queue)
           N == Mutations(queue')
<1>0. /\ IsFiniteSet(M) /\ Cardinality(M) \in Nat /\ rev \in Nat
      /\ IsFiniteSet(N) /\ Cardinality(N) \in Nat
  <2>1. /\ queue \in Seq(Messages) /\ sent \in Nat /\ \A k \in DOMAIN queue : queue[k].seq <= sent
        /\ queue' \in Seq(Messages) /\ sent' \in Nat /\ \A k \in DOMAIN queue' : queue'[k].seq <= sent'
    <3>1. queue \in Seq(Messages) /\ sent \in Nat /\ \A k \in DOMAIN queue : queue[k].seq <= sent
      BY DEF TypeOK, OrderInv
    <3>2. queue' \in Seq(Messages) /\ sent' \in Nat /\ \A k \in DOMAIN queue' : queue'[k].seq <= sent'
      BY DEF TypeOK, OrderInv
    <3>3. QED
      BY <3>1, <3>2
  <2>2. rev \in Nat
    BY DEF TypeOK
  <2>3. QED
    BY <2>1, <2>2, MutationsFinite
<1>1. CASE rev' = rev /\ M \subseteq N
  BY <1>0, <1>1, FS_Subset
<1>2. CASE rev' = rev /\ queue' = queue
  BY <1>1, <1>2
<1>3. CASE UiStep
  <2>1. PICK kind, control, at : Sends(kind, control, at)
    BY <1>3, UiSends
  <2>2. /\ rev' = rev /\ queue' = Append(queue, Message(kind, control, at))
        /\ Message(kind, control, at) \in Messages /\ queue \in Seq(Messages)
    <3>1. at \in Tick /\ sent \in Nat
      BY <2>1 DEF Sends, TypeOK
    <3>2. QED
      BY <2>1, <3>1, SentMessage DEF Sends, Send, engine, TypeOK
  <2>3. \A k \in DOMAIN queue : k \in DOMAIN queue' /\ queue'[k] = queue[k]
    BY <2>2, AppendProperties
  <2>4. M \subseteq N
    BY <2>3 DEF Mutations
  <2>5. QED
    BY <1>1, <2>2, <2>4
<1>4. CASE Takes
  <2>1. \A k \in DOMAIN queue : k # 1 => k - 1 \in DOMAIN queue' /\ queue[k] = queue'[k - 1]
    BY <1>4, Taken DEF Takes, TypeOK
  <2>2. Head(queue) = queue[1]
    BY <1>4, Taken DEF Takes, TypeOK
  <2>3. CASE Head(queue).kind \in {"edit", "commit"}
    <3>1. rev' = rev + 1
      BY <1>4, <2>3, MutationExecuted
    <3>2. M \subseteq N \cup {queue[1].seq}
      BY <2>1 DEF Mutations
    <3>3. /\ IsFiniteSet(N \cup {queue[1].seq})
          /\ Cardinality(N \cup {queue[1].seq}) \in Nat
          /\ Cardinality(N \cup {queue[1].seq}) <= Cardinality(N) + 1
      <4>1. /\ IsFiniteSet(N \cup {queue[1].seq})
            /\ Cardinality(N \cup {queue[1].seq}) \in {Cardinality(N), Cardinality(N) + 1}
        BY <1>0, FS_AddElement
      <4>2. QED
        BY <1>0, <4>1
    <3>4. Cardinality(M) <= Cardinality(N \cup {queue[1].seq})
      BY <3>2, <3>3, FS_Subset
    <3>5. QED
      BY <1>0, <3>1, <3>3, <3>4
  <2>4. CASE Head(queue).kind \notin {"edit", "commit"}
    <3>1. rev' \in Nat /\ rev' >= rev
      BY <1>4, MutationExecuted
    <3>2. M \subseteq N
      BY <2>1, <2>2, <2>4 DEF Mutations
    <3>3. Cardinality(M) <= Cardinality(N)
      BY <1>0, <3>2, FS_Subset
    <3>4. QED
      BY <1>0, <3>1, <3>3
  <2>5. QED
    BY <2>3, <2>4
<1>5. CASE Wakes
  BY <1>2, <1>5 DEF Wakes, EndDrain, Repaint, SettleWakes, PersistWakes, engine
<1>6. CASE UNCHANGED vars
  BY <1>2, <1>6 DEF vars, engine
<1>7. QED
  BY <1>3, <1>4, <1>5, <1>6, WorkerCases DEF Next

-----------------------------------------------------------------------------
(* The frame on the screen *)

LEMMA ExactIsTrue ==
  ASSUME TypeOK, CacheIsTrue, NEW at, Render(at, TRUE), UNCHANGED <<rev, source>>
  PROVE  screen' = [tick |-> at, rev |-> rev', source |-> source', live |-> live', exact |-> TRUE]
<1>1. CASE NoOverrides /\ Cached(at) # {}
  <2>1. PICK e \in cache : e.tick = at /\ e.rev = rev' /\ screen' = e
    BY <1>1 DEF Render, Cached
  <2>2. e \in Frames
    BY DEF TypeOK
  <2>3. e = [tick |-> e.tick, rev |-> e.rev, source |-> e.source, live |-> e.live, exact |-> e.exact]
    BY <2>2 DEF Frames
  <2>4. e.source = source' /\ e.live = live' /\ e.exact = TRUE
    BY <1>1, <2>1, <2>2 DEF CacheIsTrue, NoOverrides, Frames
  <2>5. QED
    BY <2>1, <2>3, <2>4
<1>2. CASE ~(NoOverrides /\ Cached(at) # {})
  BY <1>2 DEF Render, Pixels
<1>3. QED
  BY <1>1, <1>2

LEMMA HeadIsAtTick ==
  ASSUME TypeOK, TickInv, queue # << >>, Head(queue).kind # "frame"
  PROVE  Head(queue).at = Position
<1>1. Head(queue) = queue[1] /\ 1 \in DOMAIN queue
  <2>1. queue \in Seq(Messages)
    BY DEF TypeOK
  <2>2. QED
    BY <2>1
<1>2. QED
  BY <1>1 DEF TickInv

LEMMA TicksAsTaken ==
  ASSUME TypeOK, TickInv, Take, queue # << >>, Position' = Head(queue).at
  PROVE  TickInv'
<1>0. /\ queue \in Seq(Messages) /\ queue' \in Seq(Messages)
      /\ Head(queue) = queue[1] /\ 1 \in DOMAIN queue /\ playhead' = playhead
      /\ \A k \in DOMAIN queue' : k + 1 \in DOMAIN queue /\ queue'[k] = queue[k + 1]
  BY Taken DEF TypeOK, Take
<1>1. Len(queue') = Len(queue) - 1 /\ Len(queue) \in Nat \ {0}
  BY <1>0, HeadTailProperties, EmptySeq DEF Take
<1>2. ASSUME NEW k \in DOMAIN queue', queue'[k].kind # "frame"
      PROVE  queue'[k].at = IF k = 1 THEN Position' ELSE queue'[k - 1].at
  <2>1. /\ k \in Nat \ {0} /\ k + 1 \in DOMAIN queue /\ queue'[k] = queue[k + 1]
    BY <1>0, <1>2
  <2>2. queue[k + 1].at = queue[k].at
    BY <1>2, <2>1 DEF TickInv
  <2>3. CASE k = 1
    BY <1>0, <2>1, <2>2, <2>3
  <2>4. CASE k # 1
    <3>1. k - 1 \in DOMAIN queue' /\ (k - 1) + 1 = k
      BY <1>0, <1>2, <2>1, <2>4
    <3>2. queue'[k - 1] = queue[k]
      BY <1>0, <3>1
    <3>3. QED
      BY <2>1, <2>2, <2>4, <3>2
  <2>5. QED
    BY <2>3, <2>4
<1>3. playhead' = IF queue' = << >> THEN Position' ELSE queue'[Len(queue')].at
  <2>1. playhead = queue[Len(queue)].at
    BY DEF TickInv
  <2>2. CASE queue' = << >>
    <3>1. Len(queue) = 1
      BY <1>1, <2>2
    <3>2. QED
      BY <1>0, <2>1, <2>2, <3>1
  <2>3. CASE queue' # << >>
    <3>1. Len(queue') \in DOMAIN queue' /\ Len(queue') + 1 = Len(queue)
      BY <1>0, <1>1, <2>3, EmptySeq
    <3>2. QED
      BY <1>0, <2>1, <2>3, <3>1
  <2>4. QED
    BY <2>2, <2>3
<1>4. QED
  BY <1>2, <1>3 DEF TickInv

LEMMA TicksAsSent ==
  ASSUME TypeOK, TickInv, UiStep
  PROVE  TickInv'
<1>1. PICK kind, control, at : Sends(kind, control, at)
  BY UiSends
<1> DEFINE m == Message(kind, control, at)
<1>2. m \in Messages /\ m.kind = kind /\ m.at = at /\ queue \in Seq(Messages)
  <2>1. at \in Tick /\ sent \in Nat
    BY <1>1 DEF Sends, TypeOK
  <2>2. QED
    BY <1>1, <2>1, SentMessage DEF Sends, TypeOK, Message
<1>3. /\ queue' = Append(queue, m) /\ playhead' = at /\ Position' = Position
      /\ kind # "frame" => at = playhead
  BY <1>1 DEF Sends, Send, loop, Position
<1> HIDE DEF m
<1>4. /\ Len(queue) \in Nat /\ DOMAIN queue = 1 .. Len(queue)
      /\ DOMAIN queue' = 1 .. Len(queue) + 1 /\ queue' # << >>
      /\ Len(queue') = Len(queue) + 1
      /\ queue'[Len(queue) + 1] = m /\ \A k \in DOMAIN queue : queue'[k] = queue[k]
  BY <1>2, <1>3, AppendProperties
<1>5. ASSUME NEW k \in DOMAIN queue', queue'[k].kind # "frame"
      PROVE  queue'[k].at = IF k = 1 THEN Position' ELSE queue'[k - 1].at
  <2>1. CASE k \in DOMAIN queue
    <3>1. k = 1 \/ k - 1 \in DOMAIN queue
      BY <1>4, <2>1
    <3>2. QED
      BY <1>3, <1>4, <1>5, <2>1, <3>1 DEF TickInv
  <2>2. CASE k = Len(queue) + 1
    <3>1. queue'[k].at = playhead
      BY <1>2, <1>3, <1>4, <1>5, <2>2
    <3>2. CASE queue = << >>
      <4>1. k = 1
        BY <1>4, <2>2, <3>2
      <4>2. QED
        BY <1>3, <3>1, <3>2, <4>1 DEF TickInv
    <3>3. CASE queue # << >>
      <4>1. Len(queue) \in DOMAIN queue /\ k # 1 /\ k - 1 = Len(queue)
        BY <1>2, <1>4, <2>2, <3>3, EmptySeq
      <4>2. QED
        BY <1>4, <3>1, <3>3, <4>1 DEF TickInv
    <3>4. QED
      BY <3>2, <3>3
  <2>3. QED
    BY <1>4, <1>5, <2>1, <2>2
<1>6. QED
  BY <1>2, <1>3, <1>4, <1>5 DEF TickInv

ViewInv == TickInv /\ ScreenInv

LEMMA ViewAsTaken == TypeOK /\ MarksInv /\ CacheIsTrue /\ ViewInv /\ Takes => ViewInv'
<1> SUFFICES ASSUME TypeOK, MarksInv, CacheIsTrue, ViewInv, Takes PROVE ViewInv'
  OBVIOUS
<1> DEFINE m == Head(queue)
<1>0. m \in Messages /\ Take /\ queue # << >>
  BY Taken DEF Takes, TypeOK
<1>1. m.kind # "frame" => m.at = Position
  BY <1>0, HeadIsAtTick DEF ViewInv
<1>2. SUFFICES Position' = m.at /\ ScreenInv'
  BY <1>0, TicksAsTaken DEF ViewInv
<1>3. CASE StartDrain \/ DrainFrame \/ DrainOverride \/ DrainTransform
  <2>1. pc' = "drain" /\ drain'.tick = m.at
    BY <1>3 DEF StartDrain, DrainFrame, DrainOverride, DrainTransform, NoDrain, TypeOK
  <2>2. QED
    BY <2>1 DEF Position, ScreenInv
<1>4. CASE DrainOther
  <2>1. pc' # "idle" /\ pc # "idle" /\ drain'.tick = drain.tick /\ m.kind # "frame"
    BY <1>4 DEF DrainOther, Others, TypeOK
  <2>2. QED
    BY <1>1, <2>1 DEF Position, ScreenInv
<1>5. CASE Handle
  <2>1. /\ m.kind \notin {"frame", "override"} /\ Dispatch(m, live)
        /\ pc = "idle" /\ pc' = "idle" /\ lastTick' = lastTick /\ settle' = settle
        /\ redraw' = (redraw \/ Invalidates(m))
    BY <1>5 DEF Handle, StartsDrain, loop
  <2>2. m.at = Position /\ Position' = Position
    BY <1>1, <2>1 DEF Position
  <2>3. SUFFICES ASSUME ~redraw, ~Invalidates(m), ~settle PROVE Shown(Position)'
    BY <2>1, <2>2, Zenon DEF ScreenInv
  <2>4. Shown(Position)
    BY <2>1, <2>3 DEF ViewInv, ScreenInv
  <2>5. CASE Save(m, live) \/ Stats(m, live)
    BY <2>2, <2>4, <2>5 DEF Save, Stats, picture, Shown
  <2>6. CASE Commit(m, live)
    BY <2>2, <2>3, <2>6 DEF Commit, Invalidates, RenderUncached, Pixels, Shown
  <2>7. CASE Clear(m, live)
    <3>1. CASE m.control = "transform"
      BY <2>2, <2>7, <3>1 DEF Clear, RenderUncached, Pixels, Shown
    <3>2. CASE m.control # "transform"
      BY <2>2, <2>7, <3>2, ExactIsTrue DEF Clear, KeepRevision, Shown
    <3>3. QED
      BY <3>1, <3>2
  <2>8. QED
    BY <2>1, <2>3, <2>5, <2>6, <2>7 DEF Dispatch, Override, Edit, BindProxy, Invalidates
<1>6. QED
  BY <1>3, <1>4, <1>5 DEF Takes

LEMMA ViewAtRest == TypeOK /\ CacheIsTrue /\ ViewInv /\ Wakes => ViewInv'
<1> SUFFICES ASSUME TypeOK, CacheIsTrue, ViewInv, Wakes PROVE ViewInv'
  OBVIOUS
<1>1. UNCHANGED <<queue, playhead>>
  BY DEF Wakes, EndDrain, Repaint, SettleWakes, PersistWakes
<1>2. Position' = Position => TickInv'
  BY <1>1 DEF ViewInv, TickInv
<1>3. CASE EndDrain
  <2>1. pc = "drain" /\ pc' = "idle" /\ lastTick' = drain.tick
    BY <1>3 DEF EndDrain
  <2>2. Position' = drain.tick /\ Position' = Position
    BY <2>1 DEF Position
  <2>3. PICK dragging \in BOOLEAN :
          /\ dragging => drain.from = "frame"
          /\ Render(drain.tick, ~dragging)
          /\ IF drain.from = "styles" THEN UNCHANGED <<redraw, settle>>
             ELSE redraw' = FALSE /\ settle' = dragging
    BY <1>3 DEF EndDrain
  <2>4. ASSUME ~settle' PROVE Shown(Position)'
    <3>1. ~dragging
      BY <2>3, <2>4
    <3>2. Render(drain.tick, TRUE)
      BY <2>3, <3>1
    <3>3. UNCHANGED <<rev, source>>
      BY <1>3 DEF EndDrain
    <3>4. QED
      BY <2>2, <3>2, <3>3, ExactIsTrue DEF Shown
  <2>5. QED
    BY <1>2, <2>2, <2>4 DEF ViewInv, ScreenInv
<1>4. CASE Repaint \/ SettleWakes
  <2>1. /\ pc = "idle" /\ pc' = "idle" /\ lastTick' = lastTick /\ UNCHANGED <<rev, source>>
        /\ Render(lastTick, TRUE)
    BY <1>4 DEF Repaint, SettleWakes, Waiting, loop, engine
  <2>2. Position' = lastTick /\ Position' = Position
    BY <2>1 DEF Position
  <2>3. Shown(Position)'
    BY <2>1, <2>2, ExactIsTrue DEF Shown
  <2>4. QED
    BY <1>2, <2>2, <2>3 DEF ViewInv, ScreenInv
<1>5. CASE PersistWakes
  <2>1. UNCHANGED <<pc, drain, lastTick, screen, rev, source, live, redraw, settle>>
    BY <1>5 DEF PersistWakes, loop, picture
  <2>2. Position' = Position
    BY <2>1 DEF Position
  <2>3. QED
    BY <1>2, <2>1, <2>2 DEF ViewInv, ScreenInv, Shown
<1>6. QED
  BY <1>3, <1>4, <1>5 DEF Wakes

LEMMA ViewKept == TypeOK /\ MarksInv /\ CacheIsTrue /\ ViewInv /\ [Next]_vars => ViewInv'
<1>1. ASSUME ViewInv, UNCHANGED <<pc, drain, lastTick, screen, rev, source, live, redraw, settle>>
      PROVE  Position' = Position /\ ScreenInv'
  BY <1>1 DEF ViewInv, ScreenInv, Shown, Position
<1>2. TypeOK /\ ViewInv /\ UiStep => ViewInv'
  BY <1>1, TicksAsSent, UiSends DEF ViewInv, Sends, Send, loop, engine, picture, deadlines
<1>3. ViewInv /\ UNCHANGED vars => ViewInv'
  BY <1>1 DEF ViewInv, TickInv, vars, loop, engine, picture, deadlines
<1>4. QED
  BY <1>2, <1>3, ViewAsTaken, ViewAtRest, WorkerCases DEF Next

-----------------------------------------------------------------------------
(* The draft *)

LEMMA HabitKept == TypeOK /\ HabitInv /\ [Next]_vars => HabitInv'
<1> SUFFICES ASSUME TypeOK, HabitInv, [Next]_vars PROVE HabitInv'
  OBVIOUS
<1>0. habit' = habit
  BY UiSends
     DEF Next, WorkerStep, Sends, Send, Take, StartDrain, Handle, DrainFrame, DrainOverride,
         DrainTransform, DrainOther, EndDrain, Repaint, SettleWakes, PersistWakes, vars
<1>1. CASE UiStep
  <2>1. PICK kind, control, at : Sends(kind, control, at)
    BY <1>1, UiSends
  <2>2. at \in Tick /\ sent \in Nat
    BY <2>1 DEF Sends, TypeOK
  <2>3. /\ Message(kind, control, at) \in Messages /\ Message(kind, control, at).kind = kind
        /\ queue \in Seq(Messages) /\ queue' = Append(queue, Message(kind, control, at))
    BY <2>1, <2>2, SentMessage DEF Sends, Send, Message, TypeOK
  <2>4. \A k \in DOMAIN queue' :
          (k \in DOMAIN queue /\ queue'[k] = queue[k]) \/ queue'[k].kind = kind
    BY <2>3, AppendProperties
  <2>5. kind \in habit /\ UNCHANGED <<pc, drain>>
    BY <2>1 DEF Sends, Send, loop
  <2>6. QED
    BY <1>0, <2>4, <2>5 DEF HabitInv
<1>2. CASE Takes
  <2>1. /\ \A k \in DOMAIN queue' : k + 1 \in DOMAIN queue /\ queue'[k] = queue[k + 1]
        /\ Head(queue) = queue[1] /\ 1 \in DOMAIN queue
    BY <1>2, Taken DEF Takes, TypeOK
  <2>2. \A k \in DOMAIN queue' : queue'[k].kind \in habit
    BY <2>1 DEF HabitInv
  <2>3. ASSUME pc' = "drain", drain'.from = "frame" PROVE "frame" \in habit
    <3>1. CASE StartDrain
      <4>1. Head(queue).kind = "frame"
        <5>1. CASE Head(queue).kind = "override"
          <6>1. drain' = [NoDrain EXCEPT !.from = Head(queue).control, !.tick = Head(queue).at,
                                         !.held = Head(queue).seq]
            BY <3>1, <5>1 DEF StartDrain
          <6>2. drain'.from = Head(queue).control
            BY <6>1 DEF NoDrain
          <6>3. Head(queue).control \in Control
            BY <1>2, <5>1, Taken, MessageFields DEF Takes, TypeOK
          <6>4. QED
            BY <2>3, <6>2, <6>3 DEF Control
        <5>2. QED
          BY <3>1, <5>1 DEF StartDrain, StartsDrain
      <4>2. QED
        BY <2>1, <4>1 DEF HabitInv
    <3>2. CASE DrainFrame \/ DrainOverride \/ DrainTransform \/ DrainOther
      <4>1. pc = "drain" /\ drain.from = "frame"
        BY <2>3, <3>2 DEF DrainFrame, DrainOverride, DrainTransform, DrainOther, TypeOK
      <4>2. QED
        BY <4>1 DEF HabitInv
    <3>3. CASE Handle
      BY <2>3, <3>3 DEF Handle, loop
    <3>4. QED
      BY <1>2, <3>1, <3>2, <3>3 DEF Takes
  <2>4. QED
    BY <1>0, <2>2, <2>3 DEF HabitInv
<1>3. CASE Wakes
  <2>1. queue' = queue /\ pc' = "idle"
    BY <1>3 DEF Wakes, EndDrain, Repaint, SettleWakes, PersistWakes, Waiting, loop
  <2>2. QED
    BY <1>0, <2>1 DEF HabitInv
<1>4. CASE UNCHANGED vars
  BY <1>4 DEF HabitInv, vars, loop
<1>5. QED
  BY <1>1, <1>2, <1>3, <1>4, WorkerCases DEF Next

LEMMA RearmShows == Rearm /\ ~persist' => rev' = saved'
  BY Zenon DEF Rearm

LEMMA SaveKept == TypeOK /\ HabitInv /\ DirtyIsOwed /\ [Next]_vars => DirtyIsOwed'
<1> SUFFICES ASSUME TypeOK, HabitInv, DirtyIsOwed, [Next]_vars PROVE DirtyIsOwed'
  OBVIOUS
<1>0. habit' = habit
  BY UiSends
     DEF Next, WorkerStep, Sends, Send, Take, StartDrain, Handle, DrainFrame, DrainOverride,
         DrainTransform, DrainOther, EndDrain, Repaint, SettleWakes, PersistWakes, vars
<1>1. CASE UNCHANGED <<pc, persist, rev, saved, failed>>
  BY <1>0, <1>1 DEF DirtyIsOwed
<1>2. CASE UiStep \/ Repaint \/ SettleWakes \/ UNCHANGED vars
  BY <1>1, <1>2, UiSends
     DEF Sends, Send, Repaint, SettleWakes, vars, loop, engine, deadlines
<1>3. CASE StartDrain \/ DrainFrame \/ DrainOverride \/ DrainTransform \/ DrainOther
  <2>1. pc' # "idle"
    BY <1>3 DEF StartDrain, DrainFrame, DrainOverride, DrainTransform, DrainOther
  <2>2. QED
    BY <2>1 DEF DirtyIsOwed
<1>4. CASE Handle
  <2>1. CASE Head(queue).kind = "stats"
    <3>1. UNCHANGED <<pc, persist, rev, saved, failed>>
      BY <1>4, <2>1
         DEF Handle, loop, Dispatch, Override, Commit, Clear, Edit, Save, Stats, BindProxy
    <3>2. QED
      BY <1>1, <3>1
  <2>2. CASE Head(queue).kind # "stats"
    BY <1>4, <2>2, RearmShows DEF Handle, DirtyIsOwed
  <2>3. QED
    BY <2>1, <2>2
<1>5. CASE EndDrain
  <2>1. CASE drain.from = "frame"
    BY <1>0, <1>5, <2>1 DEF EndDrain, HabitInv, DirtyIsOwed
  <2>2. CASE drain.from # "frame"
    BY <1>5, <2>2, RearmShows DEF EndDrain, DirtyIsOwed
  <2>3. QED
    BY <2>1, <2>2
<1>6. CASE PersistWakes
  BY <1>6 DEF PersistWakes, SaveProject, DirtyIsOwed
<1>7. QED
  BY <1>2, <1>3, <1>4, <1>5, <1>6 DEF Next, WorkerStep

-----------------------------------------------------------------------------
(* Theorems *)

LEMMA Initially == Init => IInv
<1> SUFFICES ASSUME Init PROVE IInv
  OBVIOUS
<1>1. queue = << >> /\ << >> \in Seq(Messages) /\ DOMAIN queue = {}
  BY EmptySeq DEF Init
<1>2. TypeOK
  <2>1. screen \in Frames
    BY PreviewAssumption DEF Init, Frames
  <2>2. QED
    <3>1. queue \in Seq(Messages) /\ EngineTypes
      BY <1>1, <2>1 DEF Init, EngineTypes
    <3>2. LoopTypes /\ DeadlineTypes
      <4>1. NoDrain \in DrainType
        BY PreviewAssumption DEF DrainType, NoDrain
      <4>2. LoopTypes
        BY <4>1, PreviewAssumption DEF Init, LoopTypes
      <4>3. QED
        BY <4>2 DEF Init, DeadlineTypes
    <3>3. QED
      BY <3>1, <3>2, TypeParts
<1>3. OrderInv /\ HeldInv /\ OverridesEnd
  BY <1>1 DEF Init, OrderInv, HeldInv, OverridesEnd, Ahead, NoDrain
<1>4. CacheIsTrue
  BY DEF Init, CacheIsTrue
<1>5. TickInv /\ ScreenInv
  BY <1>1 DEF Init, TickInv, ScreenInv, Shown, Position
<1>6. HabitInv /\ DirtyIsOwed
  BY <1>1 DEF Init, HabitInv, DirtyIsOwed
<1>7. QED
  BY <1>2, <1>3, <1>4, <1>5, <1>6 DEF IInv

LEMMA InvariantKept == IInv /\ [Next]_vars => IInv'
  BY TypesKept, MarksKept, CacheKept, ViewKept, HabitKept, SaveKept DEF IInv, MarksInv, ViewInv

LEMMA InvariantHolds == Spec => []IInv
  BY Initially, InvariantKept, PTL DEF Spec

(***************************************************************************)
(* Every variable keeps its type: the queue, the drain's locals, the       *)
(* deadlines, the engine as the worker sees it, and the frames.            *)
(***************************************************************************)
THEOREM TypeCorrect == Spec => []TypeOK
<1>1. IInv => TypeOK
  BY DEF IInv
<1>2. QED
  BY <1>1, InvariantHolds, PTL

(***************************************************************************)
(* No live override outlives the commit or the clear of its gesture, in    *)
(* whatever order a drain meets overrides, frames and other messages       *)
(* (worker_loop.rs:326-332).                                               *)
(***************************************************************************)
THEOREM OverridesEndHolds == Spec => []OverridesEnd
<1>1. IInv => OverridesEnd
  BY DEF IInv
<1>2. QED
  BY <1>1, InvariantHolds, PTL

(***************************************************************************)
(* An edit leaves the queue only into the revision, also when a drain      *)
(* meets it (worker_loop.rs:113-115).                                      *)
(***************************************************************************)
THEOREM NothingLostHolds == Spec => NothingLost
<1>1. IInv /\ IInv' /\ [Next]_vars =>
        [rev' + Cardinality(Mutations(queue')) >= rev + Cardinality(Mutations(queue))]_vars
  BY NoneDropped DEF IInv
<1>2. QED
  BY <1>1, InvariantHolds, PTL DEF Spec, NothingLost

(***************************************************************************)
(* A frame of the cache that could be served is exact, without overrides   *)
(* and from the source that is bound: the one a render would deliver       *)
(* (frame_cache.rs, and ProxyReady in dispatch.rs, which empties it).      *)
(***************************************************************************)
THEOREM CacheIsTrueHolds == Spec => []CacheIsTrue
<1>1. IInv => CacheIsTrue
  BY DEF IInv
<1>2. QED
  BY <1>1, InvariantHolds, PTL

(***************************************************************************)
(* A worker with nothing queued and no frame owed shows the exact frame at *)
(* the playhead, of the current revision, source and overrides: what is    *)
(* left to the fairness of ScreenSettles is that it gets there.            *)
(***************************************************************************)
SettledIsCurrent == pc = "idle" /\ queue = << >> /\ ~redraw /\ ~settle => ScreenIsCurrent

THEOREM SettledIsCurrentHolds == Spec => []SettledIsCurrent
<1>1. IInv => SettledIsCurrent
  BY DEF IInv, TickInv, ScreenInv, Shown, Position, SettledIsCurrent, ScreenIsCurrent
<1>2. QED
  BY <1>1, InvariantHolds, PTL

(***************************************************************************)
(* A worker that owes no auto-save has a clean draft, or has shown that    *)
(* saving this revision failed, unless the user scrubs while editing       *)
(* (worker_loop.rs:142-147): the safety in DraftSaved.                     *)
(***************************************************************************)
THEOREM DirtyIsOwedHolds == Spec => []DirtyIsOwed
<1>1. IInv => DirtyIsOwed
  BY DEF IInv
<1>2. QED
  BY <1>1, InvariantHolds, PTL

-----------------------------------------------------------------------------
(* The invariant of a call *)

Busy == {"claimed", "ran", "paused"}

(* The executor holds the claim of c and has not started the operation. *)
InHand(c) == \E e \in Executor : step[e] = "claimed" /\ serving[e] = c

Queued(c) == \E e \in Executor : \E i \in DOMAIN inbox[e] : inbox[e][i] = c

(* Only a claimed operation runs, and it runs on the executor it is for. *)
ClaimInv ==
  /\ \A c \in ran : op[c] = "running"
  /\ \A e \in Executor : step[e] \in Busy =>
       /\ serving[e] \in Call
       /\ On(serving[e]) = e
       /\ op[serving[e]] = "running"
  /\ \A e \in Executor : step[e] = "claimed" => serving[e] \notin ran
  /\ \A e \in Executor : step[e] \in {"ran", "paused"} => serving[e] \in ran

(* Nobody else knows a call that was not sent yet. *)
QueueInv ==
  \A c \in Call : phase[c] \in {"start", "send"} => op[c] = "pending" /\ ~Queued(c)

(* A call is queued only where it belongs. *)
RouteInv ==
  \A e \in Executor : \A i \in DOMAIN inbox[e] : On(inbox[e][i]) = e

(* An answer says what happened to the operation. *)
ReplyInv ==
  \A c \in Call :
    /\ reply[c] = "value" => c \in ran
    /\ reply[c] = "refused" =>
         asks[c] = "ui" /\ op[c] = "running" /\ c \notin ran /\ ~InHand(c)

(* A verdict is given as the caller returns, and is true from then on. *)
ToldInv ==
  \A c \in Call :
    /\ phase[c] \notin {"held", "done"} => told[c] = "nothing"
    /\ told[c] = "result" => c \in ran
    /\ told[c] = "notStarted" =>
         /\ c \notin ran
         /\ ~InHand(c)
         /\ op[c] = "pending" => ~Queued(c)

(* A grant is on its way, or has become a guard. *)
Granted(c) == asks[c] = "lease" /\ phase[c] # "done" /\ reply[c] = "value"

LeaseInv ==
  \A c \in Call :
    /\ phase[c] = "held" => asks[c] = "lease" /\ reply[c] = "value"
    /\ Granted(c) => step["worker"] = "paused" /\ serving["worker"] = c
    /\ asks[c] = "lease" /\ resume[c] # "open" => phase[c] = "done"

RpcInv ==
  /\ RpcTypeOK
  /\ ClaimInv
  /\ QueueInv
  /\ RouteInv
  /\ ReplyInv
  /\ ToldInv
  /\ LeaseInv
  /\ RefreshPrecedesWork
-----------------------------------------------------------------------------
(* Single steps of callers and executors *)

(* A caller's step is one of four: it moves on, sends, fails or gets its   *)
(* reply.                                                                  *)
Moves(c) == \E next \in {"send", "poll", "cancel", "deadline", "last", "giveUp", "wait"} :
  Goto(c, next) /\ phase[c] # "send" /\ (phase[c] = "start" <=> next = "send")

SendsCall(c) ==
  /\ phase[c] = "send"
  /\ inbox' = [inbox EXCEPT ![On(c)] = Append(@, c)]
  /\ \E next \in {"poll", "cancel"} : Goto(c, next)

Fails(c) == \E verdict \in {"notStarted", "unknown"}, claim \in {"pending", "running", "abandoned"} :
  /\ Fail(c, verdict, claim)
  /\ claim = "running" <=> op[c] = "running"
  /\ op[c] = "abandoned" => claim = "abandoned"
  /\ verdict = "notStarted" => op[c] # "running"
  /\ verdict = "notStarted" /\ claim = "pending" => phase[c] = "start"

LEMMA CallerSteps ==
  ASSUME NEW c \in Call, RpcTypeOK, QueueInv, Caller(c)
  PROVE  /\ phase[c] \notin {"held", "done"}
         /\ UNCHANGED quiet
         /\ \/ (Moves(c) \/ Fails(c) \/ (reply[c] \in {"value", "refused"} /\ Deliver(c)))
               /\ UNCHANGED inbox
            \/ SendsCall(c)
<1> USE DEF Caller, RpcTypeOK
<1>1. CASE Start(c)
  BY <1>1 DEF Start, QueueInv, Moves, Fails, Goto, quiet, executors
<1>2. CASE SendCall(c)
  BY <1>2 DEF SendCall, SendsCall, Fails, Fail, QueueInv, LoopHead, quiet, executors
<1>3. CASE Poll(c)
  BY <1>3 DEF Poll, Receive, Lost, Abandoned, Moves, Fails, Goto, quiet, executors
<1>4. CASE Cancel(c)
  BY <1>4 DEF Cancel, Moves, Fails, Goto, quiet, executors
<1>5. CASE Overdue(c)
  BY <1>5 DEF Overdue, Moves, Goto, quiet, executors
<1>6. CASE InTime(c)
  BY <1>6 DEF InTime, Moves, Goto, quiet, executors
<1>7. CASE LastLook(c)
  BY <1>7 DEF LastLook, Receive, Lost, Abandoned, Moves, Fails, Goto, quiet, executors
<1>8. CASE GiveUp(c)
  BY <1>8 DEF GiveUp, Fails, Abandoned, quiet, executors
<1>9. CASE Wait(c)
  BY <1>9 DEF Wait, Receive, Lost, Abandoned, LoopHead, Moves, Fails, Goto, quiet, executors
<1> QED
  BY <1>1, <1>2, <1>3, <1>4, <1>5, <1>6, <1>7, <1>8, <1>9

(* What the queues contain after a send, a receive and a stop. *)
LEMMA QueueAfterSend ==
  ASSUME NEW c \in Call, RpcTypeOK, RouteInv, SendsCall(c), UNCHANGED asks
  PROVE  /\ inbox' \in [Executor -> Seq(Call)]
         /\ RouteInv'
         /\ \A d \in Call : Queued(d)' => Queued(d) \/ d = c
<1>1. On(c) \in Executor
  BY DEF On, Executor
<1>2. inbox' = [inbox EXCEPT ![On(c)] = Append(@, c)]
  BY DEF SendsCall
<1>3. inbox' \in [Executor -> Seq(Call)]
  BY <1>1, <1>2 DEF RpcTypeOK
<1>4. ASSUME NEW d \in Call, d # c,
             NEW e \in Executor, NEW i \in DOMAIN inbox'[e], inbox'[e][i] = d
      PROVE  i \in DOMAIN inbox[e] /\ inbox[e][i] = d
  BY <1>1, <1>2, <1>4 DEF RpcTypeOK
<1>5. ASSUME NEW e \in Executor, NEW i \in DOMAIN inbox'[e] PROVE On(inbox'[e][i]) = e
  <2>1. CASE e = On(c) /\ i = Len(inbox[e]) + 1
    <3>1. inbox'[e][i] = c
      BY <1>1, <1>2, <2>1 DEF RpcTypeOK
    <3> QED
      BY <2>1, <3>1 DEF On
  <2>2. CASE ~(e = On(c) /\ i = Len(inbox[e]) + 1)
    <3>1. i \in DOMAIN inbox[e] /\ inbox'[e][i] = inbox[e][i]
      BY <1>1, <1>2, <1>5, <2>2 DEF RpcTypeOK
    <3> QED
      BY <3>1 DEF On, RouteInv
  <2> QED
    BY <2>1, <2>2
<1> QED
  BY <1>3, <1>4, <1>5 DEF Queued, RouteInv, On

LEMMA TailElements ==
  ASSUME NEW q \in Seq(Call), q # <<>>
  PROVE  \A i \in DOMAIN Tail(q) : i + 1 \in DOMAIN q /\ Tail(q)[i] = q[i + 1]
<1>1. Tail(q) \in Seq(Call) /\ Len(Tail(q)) = Len(q) - 1
  BY HeadTailProperties
<1>2. \A i \in 1 .. Len(Tail(q)) : Tail(q)[i] = q[i + 1]
  BY HeadTailProperties
<1> QED
  BY <1>1, <1>2

LEMMA QueueAfterTake ==
  ASSUME NEW e \in Executor, RpcTypeOK, RouteInv, TakeCall(e)
  PROVE  /\ inbox' \in [Executor -> Seq(Call)]
         /\ RouteInv'
         /\ Head(inbox[e]) \in Call
         /\ Queued(Head(inbox[e]))
         /\ On(Head(inbox[e])) = e
         /\ \A d \in Call : Queued(d)' => Queued(d)
<1>1. inbox[e] # <<>> /\ inbox[e] \in Seq(Call) /\ inbox' = [inbox EXCEPT ![e] = Tail(@)]
  BY DEF TakeCall, RpcTypeOK
<1>2. 1 \in DOMAIN inbox[e] /\ Head(inbox[e]) = inbox[e][1] /\ inbox[e][1] \in Call
  BY <1>1
<1>3. inbox' \in [Executor -> Seq(Call)]
  BY <1>1 DEF RpcTypeOK
<1>4. ASSUME NEW f \in Executor, NEW i \in DOMAIN inbox'[f]
      PROVE  \E j \in DOMAIN inbox[f] : inbox[f][j] = inbox'[f][i]
  <2>1. CASE f # e
    BY <1>1, <1>4, <2>1 DEF RpcTypeOK
  <2>2. CASE f = e
    <3>1. inbox'[f] = Tail(inbox[e])
      BY <1>1, <2>2 DEF RpcTypeOK
    <3> QED
      BY <1>1, <1>4, <2>2, <3>1, TailElements
  <2> QED
    BY <2>1, <2>2
<1>5. RouteInv'
  <2>1. UNCHANGED asks
    BY DEF TakeCall, callers
  <2> QED
    BY <1>4, <2>1 DEF RouteInv, On
<1>6. \A d \in Call : Queued(d)' => Queued(d)
  BY <1>4 DEF Queued
<1> QED
  BY <1>2, <1>3, <1>5, <1>6 DEF Queued, RouteInv

LEMMA QueueAfterStop ==
  ASSUME NEW e \in Executor, RpcTypeOK, RouteInv, Stop(e)
  PROVE  /\ inbox' \in [Executor -> Seq(Call)]
         /\ RouteInv'
         /\ \A d \in Call : Queued(d)' => Queued(d)
  BY DEF Stop, RpcTypeOK, Queued, RouteInv, On, callers

-----------------------------------------------------------------------------
(* The invariant of a call is inductive *)

LEMMA RpcInvariance == RpcInv /\ [RpcNext]_rpcVars => RpcInv'
<1> SUFFICES ASSUME RpcInv, [RpcNext]_rpcVars PROVE RpcInv'
  OBVIOUS
<1> USE DEF RpcInv
<1>1. ASSUME NEW c \in Call, Caller(c) PROVE RpcInv'
  <2>1. phase[c] \notin {"held", "done"} /\ UNCHANGED quiet
    BY <1>1, CallerSteps
  <2>2. CASE Moves(c) /\ UNCHANGED inbox
    BY <2>1, <2>2 DEF Moves, Goto, quiet, executors, RpcTypeOK, ClaimInv, QueueInv, ReplyInv,
      ToldInv, LeaseInv, RefreshPrecedesWork, RouteInv, InHand, Queued, Granted, Busy, On
  <2>3. CASE SendsCall(c)
    <3>0. /\ inbox' \in [Executor -> Seq(Call)]
          /\ RouteInv'
          /\ \A d \in Call : Queued(d)' => Queued(d) \/ d = c
      BY <2>1, <2>3, QueueAfterSend DEF quiet
      <3>1. RpcTypeOK'
        BY <2>1, <2>3, <3>0 DEF SendsCall, Goto, quiet, executors, RpcTypeOK
      <3>2. ClaimInv'
        BY <2>1, <2>3, <3>0 DEF SendsCall, Goto, quiet, executors, RpcTypeOK, ClaimInv, QueueInv, On, Busy
      <3>3. QueueInv'
        BY <2>1, <2>3, <3>0 DEF SendsCall, Goto, quiet, executors, RpcTypeOK, ClaimInv, QueueInv, On
      <3>4. ReplyInv'
        BY <2>1, <2>3, <3>0 DEF SendsCall, Goto, quiet, executors, RpcTypeOK, ClaimInv, QueueInv, ReplyInv, InHand, Busy, On
      <3>5. ToldInv'
        BY <2>1, <2>3, <3>0 DEF SendsCall, Goto, quiet, executors, RpcTypeOK, ClaimInv, QueueInv, ReplyInv, ToldInv, InHand, Busy, On
      <3>6. LeaseInv'
        BY <2>1, <2>3, <3>0 DEF SendsCall, Goto, quiet, executors, RpcTypeOK, ClaimInv, ReplyInv, LeaseInv, Granted, Busy, On
      <3>7. RefreshPrecedesWork'
        BY <2>1, <2>3, <3>0 DEF SendsCall, Goto, quiet, executors, RpcTypeOK, ClaimInv, LeaseInv, RefreshPrecedesWork, Granted, Busy, On
      <3> QED
        BY <3>0, <3>1, <3>2, <3>3, <3>4, <3>5, <3>6, <3>7
  <2>4. CASE Fails(c) /\ UNCHANGED inbox
    BY <2>1, <2>4 DEF Fails, Fail, quiet, executors, RpcTypeOK, ClaimInv, QueueInv, ReplyInv,
      ToldInv, LeaseInv, RefreshPrecedesWork, RouteInv, InHand, Queued, Granted, Busy, On
  <2>5. CASE reply[c] \in {"value", "refused"} /\ Deliver(c) /\ UNCHANGED inbox
      <3>1. RpcTypeOK'
        BY <2>1, <2>5 DEF Deliver, quiet, executors, RpcTypeOK
      <3>2. ClaimInv'
        BY <2>1, <2>5 DEF Deliver, quiet, executors, RpcTypeOK, ClaimInv, QueueInv, On, Busy
      <3>3. QueueInv'
        BY <2>1, <2>5 DEF Deliver, quiet, executors, RpcTypeOK, ClaimInv, QueueInv, Queued, On
      <3>8. RouteInv'
        BY <2>1, <2>5 DEF Deliver, quiet, RouteInv, On
      <3>4. ReplyInv'
        BY <2>1, <2>5 DEF Deliver, quiet, executors, RpcTypeOK, ClaimInv, QueueInv, ReplyInv, InHand, Busy, On
      <3>5. ToldInv'
        BY <2>1, <2>5 DEF Deliver, quiet, executors, RpcTypeOK, ClaimInv, QueueInv, ReplyInv, ToldInv, InHand, Queued, Busy, On
      <3>6. LeaseInv'
        BY <2>1, <2>5 DEF Deliver, quiet, executors, RpcTypeOK, ClaimInv, ReplyInv, LeaseInv, Granted, Busy, On
      <3>7. RefreshPrecedesWork'
        BY <2>1, <2>5 DEF Deliver, quiet, executors, RpcTypeOK, ClaimInv, LeaseInv, RefreshPrecedesWork, Granted, Busy, On
      <3> QED
        BY <3>1, <3>2, <3>3, <3>4, <3>5, <3>6, <3>7, <3>8
  <2> QED
    BY <1>1, <2>2, <2>3, <2>4, <2>5, CallerSteps
<1>2. ASSUME NEW c \in Call, RefreshProxiesOnResume(c) PROVE RpcInv'
  BY <1>2 DEF RefreshProxiesOnResume, executors, RpcTypeOK, ClaimInv, QueueInv, ReplyInv,
      ToldInv, LeaseInv, RefreshPrecedesWork, RouteInv, InHand, Queued, Granted, Busy, On
<1>3. ASSUME NEW c \in Call, DropGuard(c) PROVE RpcInv'
  BY <1>3 DEF DropGuard, executors, RpcTypeOK, ClaimInv, QueueInv, ReplyInv,
      ToldInv, LeaseInv, RefreshPrecedesWork, RouteInv, InHand, Queued, Granted, Busy, On
<1>4. ASSUME NEW e \in Executor, TakeCall(e) PROVE RpcInv'
  <2>0. /\ inbox' \in [Executor -> Seq(Call)]
        /\ Head(inbox[e]) \in Call
        /\ RouteInv'
        /\ Queued(Head(inbox[e]))
        /\ On(Head(inbox[e])) = e
        /\ \A d \in Call : Queued(d)' => Queued(d)
    BY <1>4, QueueAfterTake
    <2>1. RpcTypeOK'
      BY <1>4, <2>0 DEF TakeCall, At, callers, RpcTypeOK
    <2>2. ClaimInv'
      BY <1>4, <2>0 DEF TakeCall, At, callers, RpcTypeOK, ClaimInv, QueueInv, On, Busy
    <2>3. QueueInv'
      BY <1>4, <2>0 DEF TakeCall, At, callers, RpcTypeOK, ClaimInv, QueueInv, On
    <2>4. ReplyInv'
      BY <1>4, <2>0 DEF TakeCall, At, callers, RpcTypeOK, ClaimInv, QueueInv, ReplyInv, InHand, Busy, On
    <2>5. ToldInv'
      BY <1>4, <2>0 DEF TakeCall, At, callers, RpcTypeOK, ClaimInv, QueueInv, ReplyInv, ToldInv, InHand, Busy, On
    <2>6. LeaseInv'
      BY <1>4, <2>0 DEF TakeCall, At, callers, Executor, RpcTypeOK, LeaseInv, Granted, On
    <2>7. RefreshPrecedesWork'
      BY <1>4, <2>0 DEF TakeCall, At, callers, Executor, RpcTypeOK, RefreshPrecedesWork
    <2> QED
      BY <2>0, <2>1, <2>2, <2>3, <2>4, <2>5, <2>6, <2>7
<1>5. ASSUME NEW e \in Executor, Run(e) PROVE RpcInv'
  BY <1>5 DEF Run, At, callers, RpcTypeOK, ClaimInv, QueueInv, ReplyInv,
      ToldInv, LeaseInv, RefreshPrecedesWork, RouteInv, InHand, Queued, Granted, Busy, On, Executor
<1>6. ASSUME NEW e \in Executor, Refuse(e) PROVE RpcInv'
  BY <1>6 DEF Refuse, At, callers, RpcTypeOK, ClaimInv, QueueInv, ReplyInv,
      ToldInv, LeaseInv, RefreshPrecedesWork, RouteInv, InHand, Queued, Granted, Busy, On, Executor
<1>7. ASSUME NEW e \in Executor, Answer(e) PROVE RpcInv'
  BY <1>7 DEF Answer, At, callers, RpcTypeOK, ClaimInv, QueueInv, ReplyInv,
      ToldInv, LeaseInv, RefreshPrecedesWork, RouteInv, InHand, Queued, Granted, Busy, On, Executor
<1>8. ASSUME NEW e \in Executor, Resume(e) PROVE RpcInv'
  BY <1>8 DEF Resume, At, callers, RpcTypeOK, ClaimInv, QueueInv, ReplyInv,
      ToldInv, LeaseInv, RefreshPrecedesWork, RouteInv, InHand, Queued, Granted, Busy, On, Executor
<1>9. ASSUME NEW e \in Executor, Stop(e) PROVE RpcInv'
  <2>0. /\ inbox' \in [Executor -> Seq(Call)]
        /\ RouteInv'
        /\ \A d \in Call : Queued(d)' => Queued(d)
    BY <1>9, QueueAfterStop
    <2>1. RpcTypeOK'
      BY <1>9, <2>0 DEF Stop, At, callers, Executor, RpcTypeOK
    <2>2. ClaimInv'
      BY <1>9, <2>0 DEF Stop, At, callers, Executor, RpcTypeOK, ClaimInv, QueueInv, On, Busy
    <2>3. QueueInv'
      BY <1>9, <2>0 DEF Stop, At, callers, Executor, RpcTypeOK, ClaimInv, QueueInv, On
    <2>4. ReplyInv'
      BY <1>9, <2>0 DEF Stop, At, callers, Executor, RpcTypeOK, ClaimInv, QueueInv, ReplyInv, InHand, Busy, On
    <2>5. ToldInv'
      BY <1>9, <2>0 DEF Stop, At, callers, Executor, RpcTypeOK, ClaimInv, QueueInv, ReplyInv, ToldInv, InHand, Busy, On
    <2>6. LeaseInv'
      BY <1>9, <2>0 DEF Stop, At, callers, Executor, RpcTypeOK, ClaimInv, RouteInv, LeaseInv, Granted, Busy, On
    <2>7. RefreshPrecedesWork'
      BY <1>9, <2>0 DEF Stop, At, callers, Executor, RpcTypeOK, ClaimInv, LeaseInv, RefreshPrecedesWork, Granted, Busy, On
    <2> QED
      BY <2>0, <2>1, <2>2, <2>3, <2>4, <2>5, <2>6, <2>7
<1>10. CASE UNCHANGED rpcVars
    <2>1. RpcTypeOK'
      BY <1>10 DEF rpcVars, callers, executors, RpcTypeOK
    <2>2. ClaimInv'
      BY <1>10 DEF rpcVars, callers, executors, RpcTypeOK, ClaimInv, QueueInv, On, Busy
    <2>3. QueueInv'
      BY <1>10 DEF rpcVars, callers, executors, RpcTypeOK, ClaimInv, QueueInv, Queued, On
    <2>4. ReplyInv'
      BY <1>10 DEF rpcVars, callers, executors, RpcTypeOK, ClaimInv, QueueInv, ReplyInv, InHand, Busy, On
    <2>5. ToldInv'
      BY <1>10 DEF rpcVars, callers, executors, RpcTypeOK, ClaimInv, QueueInv, ReplyInv, ToldInv, InHand, Queued, Busy, On
    <2>6. LeaseInv'
      BY <1>10 DEF rpcVars, callers, executors, RpcTypeOK, ClaimInv, ReplyInv, LeaseInv, Granted, Busy, On
    <2>7. RefreshPrecedesWork'
      BY <1>10 DEF rpcVars, callers, executors, RpcTypeOK, ClaimInv, LeaseInv, RefreshPrecedesWork, Granted, Busy, On
    <2>8. RouteInv'
      BY <1>10 DEF rpcVars, callers, executors, RouteInv, On
    <2> QED
      BY <2>1, <2>2, <2>3, <2>4, <2>5, <2>6, <2>7, <2>8
<1> QED
  BY <1>1, <1>2, <1>3, <1>4, <1>5, <1>6, <1>7, <1>8, <1>9, <1>10 DEF RpcNext, Serve

LEMMA RpcInitially == RpcInit => RpcInv
<1> SUFFICES ASSUME RpcInit PROVE RpcInv
  OBVIOUS
<1>1. RpcTypeOK
  <2>1. inbox \in [Executor -> Seq(Call)]
    BY DEF RpcInit
  <2> QED
    BY <2>1 DEF RpcInit, RpcTypeOK, Executor
<1>2. ClaimInv /\ QueueInv /\ RouteInv
  BY DEF RpcInit, ClaimInv, QueueInv, RouteInv, Queued, Busy
<1>3. ReplyInv /\ ToldInv /\ LeaseInv /\ RefreshPrecedesWork
  BY DEF RpcInit, ReplyInv, ToldInv, LeaseInv, RefreshPrecedesWork, Granted, InHand
<1> QED
  BY <1>1, <1>2, <1>3 DEF RpcInv

LEMMA RpcInductive == RpcSpec => []RpcInv
BY RpcInitially, RpcInvariance, PTL DEF RpcSpec

-----------------------------------------------------------------------------
(* Theorems about calls *)

(* The variables keep their types: a caller's step, a claim state and an   *)
(* executor's step are always among those the code has.                    *)
THEOREM RpcTypeCorrect == RpcSpec => []RpcTypeOK
<1>1. RpcInv => RpcTypeOK
  BY DEF RpcInv
<1> QED
  BY <1>1, RpcInductive, PTL

(* A maintenance guard is exclusive: while its owner holds it the worker   *)
(* waits for that guard and for no other, so no project change and no      *)
(* second guard can happen under it.                                       *)
THEOREM GuardExcludesWorker == RpcSpec => []HeldMeansPaused
<1>1. RpcInv => HeldMeansPaused
  BY DEF RpcInv, LeaseInv, HeldMeansPaused, Granted, RpcTypeOK
<1> QED
  BY <1>1, RpcInductive, PTL

(* A guard that was told to refresh the proxies is followed by the refresh *)
(* before the worker takes another message.                                *)
THEOREM RefreshFollowsGuard == RpcSpec => []RefreshPrecedesWork
<1>1. RpcInv => RefreshPrecedesWork
  BY DEF RpcInv
<1> QED
  BY <1>1, RpcInductive, PTL

(* A caller's step maps to an answer of the abstract call, or to nothing.  *)
LEMMA CallerKeepsPromise ==
  ASSUME NEW c \in Call, RpcInv, Caller(c)
  PROVE  Promise!Next \/ UNCHANGED <<ran, told>>
<1> USE DEF RpcInv
<1>1. UNCHANGED ran /\ told[c] = "nothing" /\ phase[c] \notin {"held", "done"}
  BY CallerSteps DEF quiet, executors, ToldInv
<1>2. CASE UNCHANGED told
  BY <1>1, <1>2
<1>3. CASE Fails(c)
  <2>1. PICK v \in {"notStarted", "unknown"} :
          /\ told' = [told EXCEPT ![c] = v]
          /\ v = "notStarted" => op[c] # "running"
    BY <1>3 DEF Fails, Fail
  <2>2. v = "notStarted" => c \notin ran
    BY <2>1 DEF ClaimInv
  <2>3. Promise!Answer(c, v)
    BY <1>1, <2>1, <2>2 DEF Promise!Answer
  <2> QED
    BY <2>3 DEF Promise!Next, Promise!Verdict
<1>4. CASE reply[c] \in {"value", "refused"} /\ Deliver(c)
  <2>1. PICK v \in {"result", "notStarted"} :
          /\ told' = [told EXCEPT ![c] = v]
          /\ v = "result" <=> reply[c] = "value"
    BY <1>4 DEF Deliver
  <2>2. v = "result" <=> c \in ran
    BY <1>4, <2>1 DEF ReplyInv
  <2>3. Promise!Answer(c, v)
    BY <1>1, <2>1, <2>2 DEF Promise!Answer
  <2> QED
    BY <2>3 DEF Promise!Next, Promise!Verdict
<1>5. Moves(c) => UNCHANGED told
  BY DEF Moves, Goto
<1>6. SendsCall(c) => UNCHANGED told
  BY DEF SendsCall, Goto
<1> QED
  BY <1>2, <1>3, <1>4, <1>5, <1>6, CallerSteps

(* The claim protocol implements the abstract call: an operation runs at   *)
(* most once, a caller told its result can rely on it, and one told that   *)
(* nothing was started is never contradicted, whoever wins the race        *)
(* between the worker's claim and the caller's deadline.                   *)
THEOREM ClaimProtocolKeepsPromise == RpcSpec => KeepsPromise
<1>1. RpcInit => Promise!Init
  BY DEF RpcInit, Promise!Init
<1>2. RpcInv /\ [RpcNext]_rpcVars => [Promise!Next]_<<ran, told>>
  <2> SUFFICES ASSUME RpcInv, [RpcNext]_rpcVars
               PROVE  Promise!Next \/ UNCHANGED <<ran, told>>
    OBVIOUS
  <2>1. CASE \E c \in Call : Caller(c)
    BY <2>1, CallerKeepsPromise
  <2>2. CASE \E c \in Call : RefreshProxiesOnResume(c) \/ DropGuard(c)
    BY <2>2 DEF RefreshProxiesOnResume, DropGuard, executors
  <2>3. ASSUME NEW e \in Executor, Run(e) PROVE Promise!Next
    <3>1. serving[e] \in Call \ ran /\ told[serving[e]] \in {"nothing", "unknown"}
      <4>1. serving[e] \in Call /\ serving[e] \notin ran /\ InHand(serving[e])
        BY <2>3 DEF Run, RpcInv, ClaimInv, Busy, InHand
      <4> QED
        BY <4>1 DEF RpcInv, RpcTypeOK, ToldInv
    <3>2. Promise!Run(serving[e])
      BY <2>3, <3>1 DEF Run, callers, Promise!Run
    <3> QED
      BY <3>1, <3>2 DEF Promise!Next
  <2>4. CASE \E e \in Executor : TakeCall(e) \/ Refuse(e) \/ Answer(e) \/ Resume(e) \/ Stop(e)
    BY <2>4 DEF TakeCall, Refuse, Answer, Resume, Stop, callers
  <2>5. CASE UNCHANGED rpcVars
    BY <2>5 DEF rpcVars, callers, executors
  <2> QED
    BY <2>1, <2>2, <2>3, <2>4, <2>5 DEF RpcNext, Serve
<1> QED
  BY <1>1, <1>2, RpcInductive, PTL DEF RpcSpec, KeepsPromise, Promise!Spec
=============================================================================
