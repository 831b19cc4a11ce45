------------------------------ MODULE Timeline ------------------------------
(***************************************************************************)
(* Project documents and the editing primitives of crates/cutlass-models   *)
(* (timeline.rs, track.rs, project/{edit,placement,layout,transitions,     *)
(* media}.rs) as operators: what each primitive accepts, and the document  *)
(* it leaves.                                                              *)
(*                                                                         *)
(* A document is                                                           *)
(*   order   the stack of lanes, bottom to top                             *)
(*   tracks  for each lane: kind, the main flag, and its transitions,      *)
(*           keyed by the outgoing clip                                    *)
(*   clips   for each placed clip: its lane, content, timeline extent      *)
(*           (start, dur), source window (in, len) and speed               *)
(*   pool    the imported media                                            *)
(*                                                                         *)
(* Every rate is equal, so resampling is the identity; speeds are whole    *)
(* numbers.  Reversal, speed curves, freeze frames, fades, animations,     *)
(* links, markers, canvas and names are left out.  Positions in `order`    *)
(* count from 1 where the code counts from 0.                              *)
(***************************************************************************)
EXTENDS Integers, FiniteSets, SequencesExt

CONSTANTS
  TrackId,   \* lane ids, allocated once and never reused
  ClipId,    \* clip ids, allocated once and never reused
  Media,     \* importable media
  MediaLen   \* length in ticks of every medium

ASSUME TimelineAssumption ==
  /\ TrackId \subseteq Nat
  /\ ClipId \subseteq Nat
  /\ MediaLen \in Nat \ {0}

Kind == {"audio", "video", "sticker", "text"}
Generated == {"shape", "title"}
Content == Media \cup Generated

-----------------------------------------------------------------------------
(* Lanes and clips *)

Accepts(kind, content) ==
  \/ kind \in {"audio", "video"} /\ content \in Media
  \/ kind = "sticker" /\ content = "shape"
  \/ kind = "text" /\ content = "title"

SupportsTransitions(kind) == kind \in {"video", "sticker", "text"}

Placed(d) == DOMAIN d.clips
Lanes(d) == DOMAIN d.tracks
ClipsOn(d, t) == {c \in Placed(d) : d.clips[c].track = t}

End(k) == k.start + k.dur

Overlaps(k, l) == k.start < End(l) /\ l.start < End(k)

(***************************************************************************)
(* Track::has_overlap, ignoring the clips of `ignore`.                     *)
(***************************************************************************)
HasOverlap(d, t, span, ignore) ==
  \E c \in ClipsOn(d, t) \ ignore : Overlaps(d.clips[c], span)

WithClip(d, c, k) ==
  [d EXCEPT !.clips = [x \in DOMAIN @ \cup {c} |-> IF x = c THEN k ELSE @[x]]]

WithoutClip(d, c) == [d EXCEPT !.clips = Restrict(@, DOMAIN @ \ {c})]

(***************************************************************************)
(* What Timeline::add_clip requires of a clip k arriving under id c.       *)
(***************************************************************************)
CanAdd(d, c, k) ==
  /\ c \notin Placed(d)
  /\ k.track \in Lanes(d)
  /\ Accepts(d.tracks[k.track].kind, k.content)
  /\ ~HasOverlap(d, k.track, k, {})

-----------------------------------------------------------------------------
(* The stack of lanes *)

Zone(d, t) ==
  LET r == d.tracks[t] IN
  CASE r.kind = "audio" -> 0
    [] r.kind # "audio" /\ r.main -> 1
    [] r.kind = "text" /\ ~r.main -> 3
    [] r.kind \notin {"audio", "text"} /\ ~r.main -> 2

(* The elements of seq that are in S, in their order: Vec::retain. *)
Among(seq, S) ==
  LET kept[i \in 0 .. Len(seq)] ==
        IF i = 0 THEN << >>
        ELSE IF seq[i] \in S THEN Append(kept[i - 1], seq[i]) ELSE kept[i - 1]
  IN  kept[Len(seq)]

InZone(d, z) == {t \in Lanes(d) : Zone(d, t) = z}

(***************************************************************************)
(* Timeline::enforce_lane_zones, a stable sort by zone.                    *)
(***************************************************************************)
EnforceLaneZones(d) ==
  LET lanes(z) == Among(d.order, InZone(d, z))
  IN  [d EXCEPT !.order = lanes(0) \o lanes(1) \o lanes(2) \o lanes(3)]

VideoLanes(d) == {t \in Lanes(d) : d.tracks[t].kind = "video"}

MainTracks(d) == {t \in Lanes(d) : d.tracks[t].main}

(***************************************************************************)
(* Timeline::designate_main: the bottom-most video lane that claims the    *)
(* flag keeps it, or the bottom-most video lane gets it.                   *)
(***************************************************************************)
DesignateMain(d) ==
  LET videos == Among(d.order, VideoLanes(d))
      claims == Among(videos, MainTracks(d))
      IsElected(t) == t \in VideoLanes(d) /\ t = Head(claims \o videos)
  IN  [d EXCEPT !.tracks = [t \in DOMAIN @ |-> [@[t] EXCEPT !.main = IsElected(t)]]]

NormalizeLanes(d) == EnforceLaneZones(DesignateMain(d))

IndexOf(d, t) == CHOOSE i \in DOMAIN d.order : d.order[i] = t

InsertedAt(seq, index, t) ==
  InsertAt(seq, IF index > Len(seq) THEN Len(seq) + 1 ELSE index, t)

NewTrack(kind) == [kind |-> kind, main |-> FALSE, junctions |-> << >>]

(***************************************************************************)
(* Timeline::insert_track; add_track is the insertion on top.              *)
(***************************************************************************)
InsertTrack(d, t, track, index) ==
  NormalizeLanes(
    [d EXCEPT !.order = InsertedAt(@, index, t),
              !.tracks = [x \in DOMAIN @ \cup {t} |-> IF x = t THEN track ELSE @[x]]])

(***************************************************************************)
(* Timeline::remove_track                                                  *)
(***************************************************************************)
DropTrack(d, t) ==
  LET rest == [d EXCEPT
                 !.order = Among(@, Lanes(d) \ {t}),
                 !.tracks = Restrict(@, DOMAIN @ \ {t}),
                 !.clips = Restrict(@, {c \in DOMAIN @ : @[c].track # t})]
  IN  IF d.tracks[t].main THEN NormalizeLanes(rest) ELSE rest

\* A fault: a lane goes anywhere.
ReorderFreely(d, t, index) ==
  [d EXCEPT !.order = InsertedAt(Among(@, Lanes(d) \ {t}), index, t)]

(***************************************************************************)
(* Timeline::move_track                                                    *)
(***************************************************************************)
Reorder(d, t, index) ==
  IF IndexOf(d, t) = index THEN d
  ELSE EnforceLaneZones(
         [d EXCEPT !.order = InsertedAt(Among(@, Lanes(d) \ {t}), index, t)])

-----------------------------------------------------------------------------
(* Transitions *)

(***************************************************************************)
(* Track::clips_abut                                                       *)
(***************************************************************************)
Abut(d, t, left, right) ==
  /\ {left, right} \subseteq ClipsOn(d, t)
  /\ End(d.clips[left]) = d.clips[right].start

HasTransitions(d) == \E t \in Lanes(d) : d.tracks[t].junctions # << >>

Transitions(d) == [t \in Lanes(d) |-> d.tracks[t].junctions]

(***************************************************************************)
(* Project::restore_transitions: lanes gone since the snapshot are skipped.*)
(***************************************************************************)
WithTransitions(d, snapshot) ==
  [d EXCEPT !.tracks =
     [t \in DOMAIN @ |->
        IF t \in DOMAIN snapshot THEN [@[t] EXCEPT !.junctions = snapshot[t]] ELSE @[t]]]

(***************************************************************************)
(* Project::prune_dead_transitions                                         *)
(***************************************************************************)
Prune(d) ==
  WithTransitions(d,
    [t \in Lanes(d) |->
       LET js == d.tracks[t].junctions
       IN  Restrict(js, {c \in DOMAIN js : Abut(d, t, c, js[c].right)})])

RightNeighbors(d, left) ==
  {c \in ClipsOn(d, d.clips[left].track) \ {left} :
     d.clips[c].start = End(d.clips[left])}

WithJunctions(d, t, js) == [d EXCEPT !.tracks[t].junctions = js]

-----------------------------------------------------------------------------
(* Source windows *)

IsMedia(k) == k.content \in Media

(***************************************************************************)
(* Project::add_clip's window check, and the clip it builds.               *)
(***************************************************************************)
WindowFits(in, len) == in >= 0 /\ len > 0 /\ in + len <= MediaLen

MediaClip(t, m, in, len, start) ==
  [track |-> t, content |-> m, start |-> start, dur |-> len,
   in |-> in, len |-> len, speed |-> 1]

GeneratedClip(t, content, start, dur) ==
  [track |-> t, content |-> content, start |-> start, dur |-> dur,
   in |-> 0, len |-> 0, speed |-> 1]

(***************************************************************************)
(* The clip Project::trim_clip makes of k: the head moves the source       *)
(* window, the length follows the speed.                                   *)
(***************************************************************************)
Trimmed(k, start, dur) ==
  IF ~IsMedia(k) THEN [k EXCEPT !.start = start, !.dur = dur]
  ELSE [k EXCEPT !.start = start, !.dur = dur,
                 !.in = @ + (start - k.start) * k.speed,
                 !.len = dur * k.speed]

(***************************************************************************)
(* The clip Project::set_clip_speed makes of k.                            *)
(***************************************************************************)
Retimed(k, speed) ==
  [k EXCEPT !.speed = speed,
            !.dur = IF k.len < speed THEN 1 ELSE k.len \div speed]

(***************************************************************************)
(* The halves Project::split_clip makes of k at timeline position at.      *)
(***************************************************************************)
Consumed(k, at) == IF IsMedia(k) THEN (at - k.start) * k.speed ELSE 0

CanSplit(k, at) ==
  /\ k.start < at /\ at < End(k)
  /\ IsMedia(k) => 0 < Consumed(k, at) /\ Consumed(k, at) < k.len

LeftHalf(k, at) ==
  [k EXCEPT !.dur = at - k.start, !.len = Consumed(k, at)]

RightHalf(k, at) ==
  [k EXCEPT !.start = at, !.dur = End(k) - at,
            !.in = @ + Consumed(k, at), !.len = @ - Consumed(k, at)]

-----------------------------------------------------------------------------
(* Ripples *)

AtOrAfter(d, t, from) == {c \in ClipsOn(d, t) : d.clips[c].start >= from}

(***************************************************************************)
(* Move every clip of lane t that starts at or after `from` by delta.      *)
(***************************************************************************)
Shifted(d, t, from, delta) ==
  LET moving == AtOrAfter(d, t, from)
      At(c)  == d.clips[c].start + (IF c \in moving THEN delta ELSE 0)
  IN  [d EXCEPT !.clips = [c \in DOMAIN @ |-> [@[c] EXCEPT !.start = At(c)]]]

FirstStart(d, S) == Min({d.clips[c].start : c \in S})

(***************************************************************************)
(* Project::shift_clips's checks: only the first shifted clip can collide, *)
(* against the last unshifted one or the start of the timeline.            *)
(***************************************************************************)
CanShift(d, t, from, delta) ==
  LET moving == AtOrAfter(d, t, from)
      first  == FirstStart(d, moving) + delta
      last   == Max({0} \cup {End(d.clips[c]) : c \in ClipsOn(d, t) \ moving})
  IN  /\ delta # 0
      /\ t \in Lanes(d)
      /\ moving # {} => first >= 0 /\ (delta < 0 => first >= last)

-----------------------------------------------------------------------------
(* The shape of a document *)

IsPartial(f, S) == f = [x \in DOMAIN f |-> f[x]] /\ DOMAIN f \subseteq S

Clip ==
  [track : TrackId, content : Content, start : Int, dur : Nat \ {0},
   in : Nat, len : Nat, speed : Nat \ {0}]

Junction == [right : ClipId, window : Nat \ {0}]

IsClips(clips) ==
  /\ IsPartial(clips, ClipId)
  /\ \A c \in DOMAIN clips : clips[c] \in Clip

IsJunctions(js) ==
  /\ IsPartial(js, ClipId)
  /\ \A c \in DOMAIN js : js[c] \in Junction

IsTrack(r) ==
  /\ r = [kind |-> r.kind, main |-> r.main, junctions |-> r.junctions]
  /\ r.kind \in Kind /\ r.main \in BOOLEAN /\ IsJunctions(r.junctions)

IsTracks(tracks) ==
  /\ IsPartial(tracks, TrackId)
  /\ \A t \in DOMAIN tracks : IsTrack(tracks[t])

IsDocument(d) ==
  /\ d = [order |-> d.order, tracks |-> d.tracks, clips |-> d.clips, pool |-> d.pool]
  /\ d.order \in Seq(Lanes(d)) /\ ToSet(d.order) = Lanes(d) /\ IsInjective(d.order)
  /\ IsTracks(d.tracks)
  /\ IsClips(d.clips)
  /\ \A c \in Placed(d) : d.clips[c].track \in Lanes(d)
  /\ d.pool \subseteq Media

(***************************************************************************)
(* The lane-zone and main-track invariants of timeline.rs:192-202: audio   *)
(* lanes, then the main lane, then other visual lanes, then text; exactly  *)
(* one main lane when there is a video lane, and it is one.                *)
(***************************************************************************)
IsZoned(d) ==
  /\ \A i, j \in DOMAIN d.order : i < j => Zone(d, d.order[i]) <= Zone(d, d.order[j])
  /\ MainTracks(d) \subseteq VideoLanes(d)
  /\ Cardinality(MainTracks(d)) = (IF VideoLanes(d) = {} THEN 0 ELSE 1)

(***************************************************************************)
(* Every transition joins two clips of its lane that abut.                 *)
(***************************************************************************)
IsJoined(d) ==
  \A t \in Lanes(d) :
    \A left \in DOMAIN d.tracks[t].junctions :
      Abut(d, t, left, d.tracks[t].junctions[left].right)

(***************************************************************************)
(* Clips of a lane never overlap, a lane holds only content of its kind,   *)
(* and a media clip's source window stays inside the medium it names,      *)
(* which is in the pool.                                                   *)
(***************************************************************************)
Fits(d, c) ==
  LET k == d.clips[c] IN
  /\ ~HasOverlap(d, k.track, k, {c})
  /\ Accepts(d.tracks[k.track].kind, k.content)
  /\ IsMedia(k) => WindowFits(k.in, k.len) /\ k.content \in d.pool

EmptyDocument == [order |-> << >>, tracks |-> << >>, clips |-> << >>, pool |-> {}]
=============================================================================
