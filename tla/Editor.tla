------------------------------- MODULE Editor -------------------------------
(***************************************************************************)
(* The editing session of crates/cutlass-engine: Engine (src/engine.rs)    *)
(* and its History of inverse actions (src/action/mod.rs), over the edits  *)
(* of EditActions.                                                         *)
(*                                                                         *)
(* The caller owns the engine, so operations do not interleave; what is    *)
(* hard is the long sequences: edits, groups, rollbacks, undo, redo, saves *)
(* and reloads in any order.                                               *)
(***************************************************************************)
EXTENDS EditActions

CONSTANTS
  Habits,       \* bound: the sessions a run looks at, see below
  UndoLimit,    \* EngineConfig::undo_limit
  NoGroup,      \* History::pending when no group is open
  NoFile,       \* the project file before the first save
  MaxRevision   \* bound: how many mutations a behaviour contains

(***************************************************************************)
(* A habit: the project a session begins with, the commands its user gives *)
(* and the lane kinds, timeline positions, durations and speeds they name. *)
(***************************************************************************)
ASSUME EditorAssumption ==
  /\ \A h \in Habits :
       /\ IsDocument(h.start) /\ IsFiniteSet(Placed(h.start)) /\ IsZoned(h.start)
       /\ \A c \in Placed(h.start) : Fits(h.start, c)
       /\ h.kinds \subseteq Kind
       /\ h.ticks \cup h.lengths \cup h.speeds \subseteq Int
  /\ UndoLimit \in Nat
  /\ MaxRevision \in Nat

(***************************************************************************)
(* No session names a position before the start of the timeline, or begins *)
(* with a clip there.  add_clip, add_generated and trim_clip would accept  *)
(* one (project/placement.rs:34-66), but move_clip and shift_clips refuse  *)
(* it (project/layout.rs:39), and with it the inverses that return there.  *)
(* The theorems about undo assume it (EditorProofs).                       *)
(***************************************************************************)
Timely ==
  \A h \in Habits : h.ticks \subseteq Nat /\ \A c \in Placed(h.start) : h.start.clips[c].start >= 0

StickerLanes(d) == {t \in Lanes(d) : d.tracks[t].kind = "sticker"}

(***************************************************************************)
(* No session removes lanes and has sticker lanes.  When the main lane     *)
(* goes, the video lane that becomes main sinks below the sticker lanes    *)
(* under it, and stays below them when undo takes the flag back            *)
(* (enforce_lane_zones, timeline.rs:340).                                  *)
(***************************************************************************)
Tidy ==
  \A h \in Habits :
    "RemoveTrack" \in h.commands => "sticker" \notin h.kinds /\ StickerLanes(h.start) = {}

(***************************************************************************)
(* No session retimes clips and has transitions.  SetClipSpeed moves the   *)
(* end of a clip away from its neighbour and leaves their transition there *)
(* (dispatch.rs:278); the other edits that take a clip away or move its    *)
(* end finish with finalize_structural (dispatch.rs:23), which removes it. *)
(***************************************************************************)
Steady ==
  \A h \in Habits :
    /\ IsJoined(h.start)
    /\ "SetClipSpeed" \in h.commands => "AddTransition" \notin h.commands /\ ~HasTransitions(h.start)

VARIABLES
  habit,          \* the habit of this session's user
  doc,            \* Engine::project
  undo,           \* History::undo, scripts, newest last
  redo,           \* History::redo
  pending,        \* History::pending: the open group's scripts, or NoGroup
  revision,       \* Engine::revision
  savedRevision,  \* Engine::saved_revision
  file,           \* the project file last written
  nextClip,       \* the clip id allocator
  nextTrack,      \* the track id allocator
  imported,       \* the media ids handed out so far
  made,           \* how many undo entries edits have made
  session,        \* how many times another project replaced this one
  past,           \* the document each undo entry was recorded on
  future,         \* the document each redo entry was recorded on
  before,         \* the document the open group began with, or NoGroup
  baseline        \* the document when savedRevision was last set

stacks == <<undo, redo, past, future>>
group == <<pending, before>>
disk == <<savedRevision, file, baseline>>
ids == <<nextClip, nextTrack, imported>>

(***************************************************************************)
(* past, future, before, baseline, made and session are history variables: *)
(* no action depends on them, they remember whole documents where the      *)
(* engine keeps inverse actions, for the properties to compare with.       *)
(***************************************************************************)
vars == <<habit, doc, revision, made, session, stacks, group, disk, ids>>

InGroup == pending # NoGroup

-----------------------------------------------------------------------------
(* History *)

(***************************************************************************)
(* History::new clamps the limit to at least one entry.                    *)
(***************************************************************************)
Limit == Max({1, UndoLimit})

Pushed(stack, entry) ==
  Append(IF Len(stack) >= Limit THEN Tail(stack) ELSE stack, entry)

(***************************************************************************)
(* History::record_do outside a group, of an entry made on document d.     *)
(***************************************************************************)
Record(script, d) ==
  /\ undo' = Pushed(undo, script)
  /\ past' = Pushed(past, d)
  /\ redo' = << >>
  /\ future' = << >>
  /\ made' = made + 1

(***************************************************************************)
(* History::record_do: held aside while a group is open.                   *)
(***************************************************************************)
RecordDo(script) ==
  \/ /\ InGroup
     /\ pending' = Append(pending, script)
     /\ UNCHANGED <<stacks, made, before>>
  \/ /\ ~InGroup
     /\ Record(script, doc)
     /\ UNCHANGED group

ClearStacks ==
  /\ undo' = << >>
  /\ redo' = << >>
  /\ past' = << >>
  /\ future' = << >>

CloseGroup ==
  /\ pending' = NoGroup
  /\ before' = NoGroup

-----------------------------------------------------------------------------
(* Commands *)

Enabled(name) == name \in habit.commands /\ revision < MaxRevision

FreshClip ==
  /\ nextClip \in ClipId
  /\ nextClip' = nextClip + 1
  /\ UNCHANGED <<nextTrack, imported>>

FreshTrack ==
  /\ nextTrack \in TrackId
  /\ nextTrack' = nextTrack + 1
  /\ UNCHANGED <<nextClip, imported>>

NoFreshId == UNCHANGED ids

(***************************************************************************)
(* Engine::apply of an edit: an accepted one bumps the revision and        *)
(* records its inverse, a rejected one keeps whatever document it left.    *)
(***************************************************************************)
Apply(r) ==
  /\ doc' = r.doc
  /\ IF r.ok
     THEN revision' = revision + 1 /\ RecordDo(r.inverse)
     ELSE UNCHANGED <<revision, made, stacks, group>>
  /\ UNCHANGED <<disk, habit, session>>

ApplyStructural(r) == Apply(Structural(doc, r))

DoAddTrack ==
  /\ Enabled("AddTrack")
  /\ FreshTrack
  /\ \E kind \in habit.kinds, index \in 1 .. Len(doc.order) + 1 :
       Apply(AddTrack(doc, nextTrack, kind, index))

DoRemoveTrack ==
  /\ Enabled("RemoveTrack")
  /\ NoFreshId
  /\ \E t \in Lanes(doc) : ApplyStructural(RemoveTrack(doc, t))

DoMoveTrack ==
  /\ Enabled("MoveTrack")
  /\ NoFreshId
  /\ \E t \in Lanes(doc), index \in 1 .. Len(doc.order) :
       Apply(MoveTrack(doc, t, index))

DoAddClip ==
  /\ Enabled("AddClip")
  /\ FreshClip
  /\ \E t \in Lanes(doc), m \in Media, in \in habit.ticks, len \in habit.lengths, at \in habit.ticks :
       Apply(AddClip(doc, nextClip, t, m, in, len, at))

DoAddGenerated ==
  /\ Enabled("AddGenerated")
  /\ FreshClip
  /\ \E t \in Lanes(doc), content \in Generated, at \in habit.ticks, dur \in habit.lengths :
       Apply(AddGenerated(doc, nextClip, t, content, at, dur))

DoDuplicateClip ==
  /\ Enabled("DuplicateClip")
  /\ FreshClip
  /\ \E of \in Placed(doc), t \in Lanes(doc), at \in habit.ticks :
       ApplyStructural(DuplicateClip(doc, nextClip, of, t, at))

DoSplitClip ==
  /\ Enabled("SplitClip")
  /\ FreshClip
  /\ \E c \in Placed(doc), at \in habit.ticks :
       ApplyStructural(SplitClip(doc, nextClip, c, at))

DoTrimClip ==
  /\ Enabled("TrimClip")
  /\ NoFreshId
  /\ \E c \in Placed(doc), at \in habit.ticks, dur \in habit.lengths :
       ApplyStructural(TrimClip(doc, c, at, dur))

DoMoveClip ==
  /\ Enabled("MoveClip")
  /\ NoFreshId
  /\ \E c \in Placed(doc), t \in Lanes(doc), at \in habit.ticks :
       ApplyStructural(MoveClip(doc, c, t, at))

DoRemoveClip ==
  /\ Enabled("RemoveClip")
  /\ NoFreshId
  /\ \E c \in Placed(doc) : ApplyStructural(RemoveClip(doc, c))

DoRippleDelete ==
  /\ Enabled("RippleDelete")
  /\ NoFreshId
  /\ \E c \in Placed(doc) : ApplyStructural(RippleDelete(doc, c))

DoShiftClips ==
  /\ Enabled("ShiftClips")
  /\ NoFreshId
  /\ \E t \in Lanes(doc), from \in habit.ticks, by \in habit.lengths, sign \in {1, -1} :
       ApplyStructural(ShiftClips(doc, t, from, sign * by))

DoRippleInsert ==
  /\ Enabled("RippleInsert")
  /\ FreshClip
  /\ \E t \in Lanes(doc), m \in Media, in \in habit.ticks, len \in habit.lengths, at \in habit.ticks :
       ApplyStructural(RippleInsert(doc, nextClip, t, m, in, len, at))

DoSetClipSpeed ==
  /\ Enabled("SetClipSpeed")
  /\ NoFreshId
  /\ \E c \in Placed(doc), speed \in habit.speeds : Apply(SetClipSpeed(doc, c, speed))

DoAddTransition ==
  /\ Enabled("AddTransition")
  /\ NoFreshId
  /\ \E c \in Placed(doc) : Apply(AddTransition(doc, c))

DoRemoveTransition ==
  /\ Enabled("RemoveTransition")
  /\ NoFreshId
  /\ \E c \in Placed(doc) : Apply(RemoveTransition(doc, c))

DoSetTransition ==
  /\ Enabled("SetTransition")
  /\ NoFreshId
  /\ \E c \in Placed(doc), window \in habit.lengths : Apply(SetTransition(doc, c, window))

DoRemoveMedia ==
  /\ Enabled("RemoveMedia")
  /\ NoFreshId
  /\ \E m \in Media : Apply(RemoveMedia(doc, m))

(***************************************************************************)
(* Import of a medium already in the pool bumps the revision and records   *)
(* nothing.                                                                *)
(***************************************************************************)
DoImport ==
  /\ Enabled("Import")
  /\ UNCHANGED <<nextClip, nextTrack>>
  /\ \E m \in Media \ imported :
       /\ imported' = imported \cup {m}
       /\ Apply(InsertMedia(doc, m))

DoImportAgain ==
  /\ Enabled("Import")
  /\ doc.pool # {}
  /\ revision' = revision + 1
  /\ UNCHANGED <<doc, made, habit, session, stacks, group, disk, ids>>

-----------------------------------------------------------------------------
(* Undo, redo and groups *)

(***************************************************************************)
(* An inverse that fails means project and history diverged: both stacks   *)
(* are dropped.                                                            *)
(***************************************************************************)
Undo ==
  /\ Enabled("Undo")
  /\ ~InGroup
  /\ undo # << >>
  /\ \E r \in {Run(doc, Last(undo))} :
       /\ doc' = r.doc
       /\ IF r.ok
          THEN /\ undo' = Front(undo)
               /\ past' = Front(past)
               /\ redo' = Pushed(redo, r.inverse)
               /\ future' = Pushed(future, doc)
          ELSE ClearStacks
  /\ revision' = revision + 1
  /\ UNCHANGED <<made, habit, session, group, disk, ids>>

Redo ==
  /\ Enabled("Redo")
  /\ ~InGroup
  /\ redo # << >>
  /\ \E r \in {Run(doc, Last(redo))} :
       /\ doc' = r.doc
       /\ IF r.ok
          THEN /\ redo' = Front(redo)
               /\ future' = Front(future)
               /\ undo' = Pushed(undo, r.inverse)
               /\ past' = Pushed(past, doc)
          ELSE ClearStacks
  /\ revision' = revision + 1
  /\ UNCHANGED <<made, habit, session, group, disk, ids>>

BeginGroup ==
  /\ Enabled("Group")
  /\ ~InGroup
  /\ pending' = << >>
  /\ before' = doc
  /\ UNCHANGED <<doc, revision, made, habit, session, stacks, disk, ids>>

\* A fault: the group is reverted in the order it was made.
CommitGroupInOrder ==
  /\ InGroup
  /\ CloseGroup
  /\ IF pending = << >> THEN UNCHANGED <<stacks, made>> ELSE Record(FlattenSeq(pending), before)
  /\ UNCHANGED <<doc, revision, habit, session, disk, ids>>

(***************************************************************************)
(* The group's inverses as one entry, the last command reverted first.     *)
(***************************************************************************)
CommitGroup ==
  /\ InGroup
  /\ CloseGroup
  /\ IF pending = << >> THEN UNCHANGED <<stacks, made>>
     ELSE Record(FlattenSeq(Reverse(pending)), before)
  /\ UNCHANGED <<doc, revision, habit, session, disk, ids>>

(***************************************************************************)
(* Engine::rollback_group: the inverses last to first, stopping at the     *)
(* first that fails.                                                       *)
(***************************************************************************)
RolledBack(d, scripts) ==
  LET back(r, script) == IF r.ok THEN Run(r.doc, script) ELSE r
  IN  FoldLeft(back, Accepted(d, << >>), Reverse(scripts))

\* A fault: the revision does not move.
RollbackGroupQuietly ==
  /\ InGroup
  /\ CloseGroup
  /\ doc' = RolledBack(doc, pending).doc
  /\ UNCHANGED <<revision, made, habit, session, stacks, disk, ids>>

RollbackGroup ==
  /\ InGroup
  /\ CloseGroup
  /\ doc' = RolledBack(doc, pending).doc
  /\ revision' = IF pending = << >> THEN revision ELSE revision + 1
  /\ UNCHANGED <<made, habit, session, stacks, disk, ids>>

-----------------------------------------------------------------------------
(* Whole projects *)

Save ==
  /\ Enabled("Save")
  /\ file' = doc
  /\ savedRevision' = revision
  /\ baseline' = doc
  /\ UNCHANGED <<doc, revision, made, habit, session, stacks, group, ids>>

(***************************************************************************)
(* Replace the project: history cleared, the session reads clean.          *)
(***************************************************************************)
Replaced(d) ==
  /\ doc' = d
  /\ ClearStacks
  /\ CloseGroup
  /\ revision' = revision + 1
  /\ savedRevision' = revision + 1
  /\ session' = session + 1
  /\ baseline' = d
  /\ UNCHANGED <<habit, made, file>>

WithMain(d, t) == InsertTrack(d, t, NewTrack("video"), Len(d.order) + 1)

(***************************************************************************)
(* Open or Load of the project file; a project without a video lane gains  *)
(* an empty main one on the way in.                                        *)
(***************************************************************************)
Load ==
  /\ Enabled("Load")
  /\ file # NoFile
  /\ LET d == NormalizeLanes(file) IN
     \/ MainTracks(d) # {} /\ Replaced(d) /\ NoFreshId
     \/ MainTracks(d) = {} /\ Replaced(WithMain(d, nextTrack)) /\ FreshTrack

NewSession ==
  /\ Enabled("NewSession")
  /\ FreshTrack
  /\ Replaced(WithMain(EmptyDocument, nextTrack))

-----------------------------------------------------------------------------

Init ==
  /\ habit \in Habits
  /\ doc = habit.start
  /\ undo = << >> /\ past = << >>
  /\ redo = << >> /\ future = << >>
  /\ pending = NoGroup /\ before = NoGroup
  /\ revision = 0
  /\ savedRevision = 0 /\ baseline = doc
  /\ file = NoFile
  /\ nextClip = Max({0} \cup Placed(doc)) + 1
  /\ nextTrack = Max({0} \cup Lanes(doc)) + 1
  /\ imported = doc.pool
  /\ made = 0
  /\ session = 0

TrackCommand == DoAddTrack \/ DoRemoveTrack \/ DoMoveTrack

PlacementCommand ==
  \/ DoAddClip \/ DoAddGenerated \/ DoDuplicateClip \/ DoMoveClip \/ DoRemoveClip

ShapeCommand == DoSplitClip \/ DoTrimClip \/ DoSetClipSpeed

RippleCommand == DoRippleDelete \/ DoShiftClips \/ DoRippleInsert

TransitionCommand == DoAddTransition \/ DoRemoveTransition \/ DoSetTransition

MediaCommand == DoRemoveMedia \/ DoImport \/ DoImportAgain

Next ==
  \/ TrackCommand
  \/ PlacementCommand
  \/ ShapeCommand
  \/ RippleCommand
  \/ TransitionCommand
  \/ MediaCommand
  \/ Undo \/ Redo
  \/ BeginGroup \/ CommitGroup \/ RollbackGroup
  \/ Save \/ Load \/ NewSession

Spec == Init /\ [][Next]_vars

-----------------------------------------------------------------------------
(* Type correctness *)

Clips == {c \in ClipId : c < nextClip}

Tracks == {t \in TrackId : t < nextTrack}

IsScripts(scripts, C, T, M) ==
  /\ scripts \in Seq(ToSet(scripts))
  /\ \A script \in ToSet(scripts) : script # << >> /\ AreSteps(script, C, T, M)

IsStack(stack, C, T, M) == Len(stack) <= Limit /\ IsScripts(stack, C, T, M)

(***************************************************************************)
(* The document, the file on disk and every inverse on the stacks or in    *)
(* the open group are well formed and name only ids the allocators have    *)
(* handed out; the stacks respect the limit.                               *)
(***************************************************************************)
TypeOK ==
  /\ habit \in Habits
  /\ nextClip \in Nat /\ nextTrack \in Nat /\ imported \subseteq Media
  /\ Within(doc, Clips, Tracks, imported)
  /\ file # NoFile => Within(file, Clips, Tracks, imported)
  /\ IsStack(undo, Clips, Tracks, imported) /\ IsStack(redo, Clips, Tracks, imported)
  /\ InGroup => IsScripts(pending, Clips, Tracks, imported)
  /\ revision \in Nat /\ savedRevision \in Nat /\ savedRevision <= revision

-----------------------------------------------------------------------------
(* Safety of the document, after any command, undo, redo and rollback *)

(***************************************************************************)
(* The checks are made by the commands; undo puts snapshots back without   *)
(* any (restore_clip.rs:11-27), and still every clip fits in its lane.     *)
(***************************************************************************)
ClipsFit == \A c \in Placed(doc) : Fits(doc, c)

(***************************************************************************)
(* Every lane stays in its zone and the main flag on one video lane        *)
(* (timeline.rs:192-202), whatever inserts, removes or moves a lane.       *)
(***************************************************************************)
LanesZoned == IsZoned(doc)

(***************************************************************************)
(* A transition joins two clips of its lane that abut (track.rs:127-128).  *)
(***************************************************************************)
JunctionsLive == IsJoined(doc)

-----------------------------------------------------------------------------
(* Safety of the history *)

(***************************************************************************)
(* Inverses are "infallible once recorded" (engine.rs:456): every entry on *)
(* either stack applies when its turn comes, an open group reverted first. *)
(***************************************************************************)
InversesApply ==
  LET open == IF InGroup THEN pending ELSE << >>
  IN  \A stack \in {undo, redo} : RolledBack(doc, stack \o open).ok

(***************************************************************************)
(* A session that reads clean shows exactly the document it last saved,    *)
(* loaded or created (engine.rs:120-124).                                  *)
(***************************************************************************)
CleanMeansSaved == revision = savedRevision => doc = baseline

RevisionStep == doc' # doc => revision' # revision

(***************************************************************************)
(* Observers key their caches by the revision: the document never changes  *)
(* under the same revision, not by a rejected command (ripple_insert.rs:9, *)
(* "Atomic") and not by a rollback.                                        *)
(***************************************************************************)
RevisionTracksDocument == [][RevisionStep]_vars

-----------------------------------------------------------------------------
(* Undo as documents *)

Abstract == INSTANCE UndoHistory WITH base <- IF InGroup THEN before ELSE doc

(***************************************************************************)
(* The stacks of inverse actions implement a history of whole documents:   *)
(* undo, redo and an aborted group restore exactly what was there.         *)
(***************************************************************************)
ImplementsUndo == Abstract!Spec
=============================================================================
