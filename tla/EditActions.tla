---------------------------- MODULE EditActions -----------------------------
(***************************************************************************)
(* The edits of crates/cutlass-engine/src/action: every edit returns the   *)
(* document it leaves and, when accepted, the action that reverts it.      *)
(*                                                                         *)
(* An inverse action is a script, the sequence of steps to run in order;   *)
(* a CompoundAction, which runs its parts last to first, is the script of  *)
(* its last part, then of the one before, and so on.                       *)
(***************************************************************************)
EXTENDS Timeline

Accepted(d, inverse) == [ok |-> TRUE, doc |-> d, inverse |-> inverse]

(***************************************************************************)
(* An edit that fails usually leaves the document alone; d is what it left.*)
(***************************************************************************)
Rejected(d) == [ok |-> FALSE, doc |-> d, inverse |-> << >>]

Try(guard, d, edited, step) ==
  IF guard THEN Accepted(edited, <<step>>) ELSE Rejected(d)

-----------------------------------------------------------------------------
(* Steps that edits and inverses share *)

RemoveClip(d, c) ==
  Try(c \in Placed(d), d, WithoutClip(d, c),
      [op |-> "InsertClip", id |-> c, clip |-> d.clips[c]])

InsertClip(d, c, k) ==
  Try(CanAdd(d, c, k), d, WithClip(d, c, k), [op |-> "RemoveClip", id |-> c])

(***************************************************************************)
(* Overwrite a clip with a snapshot, unchecked; the lane is not part of it.*)
(***************************************************************************)
RestoreClip(d, c, k) ==
  Try(c \in Placed(d), d, WithClip(d, c, [k EXCEPT !.track = d.clips[c].track]),
      [op |-> "RestoreClip", id |-> c, clip |-> d.clips[c]])

RemoveTrack(d, t) ==
  Try(t \in Lanes(d), d, DropTrack(d, t),
      [op |-> "InsertTrack", id |-> t, track |-> d.tracks[t],
       index |-> IndexOf(d, t), held |-> Restrict(d.clips, ClipsOn(d, t))])

(***************************************************************************)
(* InsertTrackAction: Timeline::restore_track with the lane's own clips.   *)
(***************************************************************************)
RestoreTrack(d, t, track, index, held) ==
  LET back == InsertTrack(d, t, track, index)
      kept == Placed(d)
  IN  Try(t \notin Lanes(d) /\ DOMAIN held \cap kept = {}, d,
          [back EXCEPT !.clips =
             [c \in kept \cup DOMAIN held |->
                IF c \in kept THEN d.clips[c] ELSE held[c]]],
          [op |-> "RemoveTrack", id |-> t])

MoveTrack(d, t, index) ==
  Try(t \in Lanes(d), d, Reorder(d, t, index),
      [op |-> "MoveTrack", id |-> t, from |-> IndexOf(d, t), to |-> index])

\* A fault: the reverse move is recorded with its ends unswapped.
UnmoveTrackUnswapped(d, t, from, to) ==
  Try(t \in Lanes(d), d, Reorder(d, t, from),
      [op |-> "MoveTrack", id |-> t, from |-> from, to |-> to])

(***************************************************************************)
(* Undo of a move goes back to the recorded index and swaps the two.       *)
(***************************************************************************)
UnmoveTrack(d, t, from, to) ==
  Try(t \in Lanes(d), d, Reorder(d, t, from),
      [op |-> "MoveTrack", id |-> t, from |-> to, to |-> from])

\* A fault: overlap is not checked.
MoveClipBlindly(d, c, t, start) ==
  LET k == [d.clips[c] EXCEPT !.track = t, !.start = start] IN
  Try(start >= 0 /\ c \in Placed(d) /\ t \in Lanes(d) /\ Accepts(d.tracks[t].kind, k.content),
      d, WithClip(d, c, k),
      [op |-> "MoveClip", id |-> c, lane |-> d.clips[c].track, start |-> d.clips[c].start])

MoveClip(d, c, t, start) ==
  LET k == [d.clips[c] EXCEPT !.track = t, !.start = start] IN
  Try(/\ start >= 0
      /\ c \in Placed(d)
      /\ t \in Lanes(d)
      /\ Accepts(d.tracks[t].kind, k.content)
      /\ ~HasOverlap(d, t, k, {c}),
      d, WithClip(d, c, k),
      [op |-> "MoveClip", id |-> c, lane |-> d.clips[c].track,
       start |-> d.clips[c].start])

(***************************************************************************)
(* The inverse starts at the first clip moved, so it selects the same set. *)
(***************************************************************************)
ShiftClips(d, t, from, delta) ==
  LET moving == AtOrAfter(d, t, from) IN
  Try(CanShift(d, t, from, delta), d, Shifted(d, t, from, delta),
      [op |-> "ShiftClips", lane |-> t, delta |-> -delta,
       from |-> IF moving = {} THEN from ELSE FirstStart(d, moving) + delta])

RippleDelete(d, c) ==
  LET k == d.clips[c] IN
  Try(c \in Placed(d), d, Shifted(WithoutClip(d, c), k.track, k.start, -k.dur),
      [op |-> "RestoreRipple", id |-> c, clip |-> k])

(***************************************************************************)
(* RestoreRippleAction opens the gap before it knows the clip fits.        *)
(***************************************************************************)
RestoreRipple(d, c, k) ==
  LET opened == Shifted(d, k.track, k.start, k.dur) IN
  IF k.track \notin Lanes(d) THEN Rejected(d)
  ELSE Try(CanAdd(opened, c, k), opened, WithClip(opened, c, k),
           [op |-> "RippleDelete", id |-> c])

MergeSplit(d, left, whole, right) ==
  IF right \notin Placed(d) THEN Rejected(d)
  ELSE LET merged == WithoutClip(d, right) IN
       Try(left \in Placed(merged), merged,
           WithClip(merged, left, [whole EXCEPT !.track = d.clips[left].track]),
           [op |-> "ReapplySplit", id |-> left, clip |-> d.clips[left],
            tail |-> right, rest |-> d.clips[right]])

ReapplySplit(d, left, half, tail, rest) ==
  IF left \notin Placed(d) THEN Rejected(d)
  ELSE LET cut == WithClip(d, left, [half EXCEPT !.track = d.clips[left].track]) IN
       Try(CanAdd(cut, tail, rest), cut, WithClip(cut, tail, rest),
           [op |-> "MergeSplit", id |-> left, clip |-> d.clips[left], tail |-> tail])

RestoreTransitions(d, snapshot) ==
  Accepted(WithTransitions(d, snapshot),
           <<[op |-> "RestoreTransitions", snapshot |-> Transitions(d)]>>)

IsReferenced(d, m) == \E c \in Placed(d) : d.clips[c].content = m

RemoveMedia(d, m) ==
  Try(m \in d.pool /\ ~IsReferenced(d, m), d, [d EXCEPT !.pool = @ \ {m}],
      [op |-> "InsertMedia", medium |-> m])

InsertMedia(d, m) ==
  Accepted([d EXCEPT !.pool = @ \cup {m}], <<[op |-> "RemoveMedia", medium |-> m]>>)

-----------------------------------------------------------------------------
(* Running inverses *)

RunStep(d, s) ==
  CASE s.op = "RemoveClip" -> RemoveClip(d, s.id)
    [] s.op = "InsertClip" -> InsertClip(d, s.id, s.clip)
    [] s.op = "RestoreClip" -> RestoreClip(d, s.id, s.clip)
    [] s.op = "RemoveTrack" -> RemoveTrack(d, s.id)
    [] s.op = "InsertTrack" -> RestoreTrack(d, s.id, s.track, s.index, s.held)
    [] s.op = "MoveTrack" -> UnmoveTrack(d, s.id, s.from, s.to)
    [] s.op = "MoveClip" -> MoveClip(d, s.id, s.lane, s.start)
    [] s.op = "ShiftClips" -> ShiftClips(d, s.lane, s.from, s.delta)
    [] s.op = "RippleDelete" -> RippleDelete(d, s.id)
    [] s.op = "RestoreRipple" -> RestoreRipple(d, s.id, s.clip)
    [] s.op = "MergeSplit" -> MergeSplit(d, s.id, s.clip, s.tail)
    [] s.op = "ReapplySplit" -> ReapplySplit(d, s.id, s.clip, s.tail, s.rest)
    [] s.op = "RestoreTransitions" -> RestoreTransitions(d, s.snapshot)
    [] s.op = "RemoveMedia" -> RemoveMedia(d, s.medium)
    [] s.op = "InsertMedia" -> InsertMedia(d, s.medium)

(***************************************************************************)
(* Steps in order until one fails; the inverse so far is kept either way.  *)
(***************************************************************************)
RunUntilFailure(d, script) ==
  LET after(r, done) == [ok |-> r.ok, doc |-> r.doc, inverse |-> r.inverse \o done.inverse]
      step(done, s)  == IF done.ok THEN after(RunStep(done.doc, s), done) ELSE done
  IN  FoldLeft(step, Accepted(d, << >>), script)

(***************************************************************************)
(* CompoundAction::apply, all or nothing: a failing step reverts the ones  *)
(* before it.                                                              *)
(***************************************************************************)
Run(d, script) ==
  LET settled(r) == IF r.ok THEN r ELSE Rejected(RunUntilFailure(r.doc, r.inverse).doc)
  IN  settled(RunUntilFailure(d, script))

\* A fault: junctions are never pruned.
StructuralUnpruned(d, r) == r

\* A fault: the inverse does not bring pruned junctions back.
StructuralForgetful(d, r) == [r EXCEPT !.doc = Prune(@)]

(***************************************************************************)
(* finalize_structural: prune the junctions the edit broke, and let undo   *)
(* bring them back.                                                        *)
(***************************************************************************)
Structural(d, r) ==
  LET pruned  == Prune(r.doc)
      restore == [op |-> "RestoreTransitions", snapshot |-> Transitions(d)]
  IN  IF ~r.ok \/ ~HasTransitions(d) \/ pruned = r.doc THEN r
      ELSE Accepted(pruned, <<restore>> \o r.inverse)

-----------------------------------------------------------------------------
(* Edits that are not steps.  c is the id a new clip gets.                 *)

AddTrack(d, t, kind, index) ==
  Accepted(InsertTrack(d, t, NewTrack(kind), index), <<[op |-> "RemoveTrack", id |-> t]>>)

AddClip(d, c, t, m, in, len, start) ==
  LET k == MediaClip(t, m, in, len, start) IN
  IF m \in d.pool /\ WindowFits(in, len) THEN InsertClip(d, c, k) ELSE Rejected(d)

AddGenerated(d, c, t, content, start, dur) ==
  IF dur > 0 THEN InsertClip(d, c, GeneratedClip(t, content, start, dur)) ELSE Rejected(d)

DuplicateClip(d, c, of, t, start) ==
  IF start >= 0 /\ of \in Placed(d)
  THEN InsertClip(d, c, [d.clips[of] EXCEPT !.track = t, !.start = start])
  ELSE Rejected(d)

SplitClip(d, c, of, at) ==
  LET k == d.clips[of] IN
  Try(of \in Placed(d) /\ CanSplit(k, at), d,
      WithClip(WithClip(d, of, LeftHalf(k, at)), c, RightHalf(k, at)),
      [op |-> "MergeSplit", id |-> of, clip |-> k, tail |-> c])

(***************************************************************************)
(* The clip stays on its lane and must not run into a neighbour.           *)
(***************************************************************************)
Replace(d, c, k) ==
  IF HasOverlap(d, k.track, k, {c}) THEN Rejected(d) ELSE RestoreClip(d, c, k)

TrimClip(d, c, start, dur) ==
  LET k == Trimmed(d.clips[c], start, dur) IN
  IF c \in Placed(d) /\ dur > 0 /\ (IsMedia(k) => WindowFits(k.in, k.len))
  THEN Replace(d, c, k) ELSE Rejected(d)

SetClipSpeed(d, c, speed) ==
  IF c \in Placed(d) /\ speed > 0 /\ IsMedia(d.clips[c])
  THEN Replace(d, c, Retimed(d.clips[c], speed)) ELSE Rejected(d)

(***************************************************************************)
(* RippleInsert: open a hole as wide as the clip, then place it; when the  *)
(* placement is rejected the shift's inverse runs, and whatever it leaves  *)
(* is the document.                                                        *)
(***************************************************************************)
RippleInsert(d, c, t, m, in, len, at) ==
  LET hole == ShiftClips(d, t, at, Max({1, len}))
      add  == AddClip(hole.doc, c, t, m, in, len, at)
  IN  CASE ~hole.ok -> Rejected(d)
        [] hole.ok /\ add.ok -> Accepted(add.doc, add.inverse \o hole.inverse)
        [] hole.ok /\ ~add.ok -> Rejected(Run(hole.doc, hole.inverse).doc)

(***************************************************************************)
(* The transition edits snapshot every lane's junctions first.             *)
(***************************************************************************)
SetJunctions(d, t, js) ==
  Accepted(WithJunctions(d, t, js),
           <<[op |-> "RestoreTransitions", snapshot |-> Transitions(d)]>>)

DefaultWindow == 2

AddTransition(d, left) ==
  IF left \notin Placed(d) THEN Rejected(d)
  ELSE LET t  == d.clips[left].track
           js == d.tracks[t].junctions
       IN  IF SupportsTransitions(d.tracks[t].kind) /\ RightNeighbors(d, left) # {}
           THEN SetJunctions(d, t,
                  [x \in DOMAIN js \cup {left} |->
                     IF x = left
                     THEN [right |-> CHOOSE c \in RightNeighbors(d, left) : TRUE,
                           window |-> DefaultWindow]
                     ELSE js[x]])
           ELSE Rejected(d)

HasJunction(d, left) ==
  left \in Placed(d) /\ left \in DOMAIN d.tracks[d.clips[left].track].junctions

RemoveTransition(d, left) ==
  IF ~HasJunction(d, left) THEN Rejected(d)
  ELSE LET t  == d.clips[left].track
           js == d.tracks[t].junctions
       IN  SetJunctions(d, t, Restrict(js, DOMAIN js \ {left}))

SetTransition(d, left, window) ==
  IF ~HasJunction(d, left) THEN Rejected(d)
  ELSE LET t  == d.clips[left].track
           js == d.tracks[t].junctions
       IN  SetJunctions(d, t,
             [js EXCEPT ![left].window = IF window < 1 THEN 1 ELSE window])

-----------------------------------------------------------------------------
(* The shape of scripts.  C, T and M are the clips, lanes and media whose   *)
(* ids have been handed out.                                               *)

Within(d, C, T, M) ==
  IsDocument(d) /\ Placed(d) \subseteq C /\ Lanes(d) \subseteq T /\ d.pool \subseteq M

IsStep(s, C, T, M) ==
  \/ s.op \in {"RemoveClip", "RemoveTrack", "RippleDelete", "RemoveMedia"}
  \/ s.op \in {"InsertClip", "RestoreRipple"} /\ s.id \in C /\ s.clip \in Clip
  \/ s.op \in {"RestoreClip", "MergeSplit"} /\ s.clip \in Clip
  \/ s.op = "ReapplySplit" /\ s.clip \in Clip /\ s.tail \in C /\ s.rest \in Clip
  \/ /\ s.op = "InsertTrack" /\ s.id \in T /\ IsTrack(s.track) /\ s.index \in Nat \ {0}
     /\ IsPartial(s.held, C)
     /\ \A c \in DOMAIN s.held : s.held[c] \in Clip /\ s.held[c].track = s.id
  \/ s.op = "MoveTrack" /\ s.from \in Nat \ {0} /\ s.to \in Nat \ {0}
  \/ s.op = "MoveClip" /\ s.start \in Int
  \/ s.op = "ShiftClips" /\ s.from \in Int /\ s.delta \in Int
  \/ s.op = "RestoreTransitions" /\ \A t \in DOMAIN s.snapshot : IsJunctions(s.snapshot[t])
  \/ s.op = "InsertMedia" /\ s.medium \in M

AreSteps(q, C, T, M) == q \in Seq(ToSet(q)) /\ \A s \in ToSet(q) : IsStep(s, C, T, M)
=============================================================================
