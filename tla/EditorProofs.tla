---------------------------- MODULE EditorProofs -----------------------------
(***************************************************************************)
(* Theorems about Editor: its types; that every lane stays in its zone     *)
(* with the main flag on one video lane; that undo, redo and rollback      *)
(* restore the document exactly, by inverses that are accepted; and that   *)
(* transitions join clips that abut.  They hold for every undo limit and   *)
(* all sets of ids, media and habits, but where it is said that the habits *)
(* name no time before 0 (Timely), remove no lanes where there are sticker *)
(* lanes (Tidy) or retime no clips where there are transitions (Steady).   *)
(*                                                                         *)
(* An undone document is made by inverses recorded on other documents, so  *)
(* nothing can be said of the document alone.  The first invariant says of *)
(* every script on the stacks, in the open group and in what an edit       *)
(* returns that its steps are well formed and name ids handed out before   *)
(* (AreSteps), and of the project file what it says of the document;       *)
(* EditProofs says what such steps leave.                                  *)
(*                                                                         *)
(* The second invariant says where the scripts lead (Revertible): each     *)
(* stack leads back through the cores of the documents its entries were    *)
(* recorded on (Recalls), all of whose clips fit (Solid).  So the stacks   *)
(* of inverses implement UndoHistory, told with cores, and UndoHistory     *)
(* itself where a core is the whole document.                              *)
(*                                                                         *)
(* Its last part (HabitKept) says of every document the session holds,     *)
(* shown or to return to, what only habits ensure (InHabit).  Undo, redo   *)
(* and rollback return to cores of which it is said already.               *)
(***************************************************************************)
EXTENDS EditProofs

-----------------------------------------------------------------------------
(* Stacks of scripts *)

LEMMA WithinGrows ==
  ASSUME NEW C, NEW T, NEW M, NEW C2, NEW T2, NEW M2,
         C \subseteq C2, T \subseteq T2, M \subseteq M2,
         NEW d, Within(d, C, T, M)
  PROVE  Within(d, C2, T2, M2)
  BY DEF Within

LEMMA StepsGrow ==
  ASSUME NEW C, NEW T, NEW M, NEW C2, NEW T2, NEW M2,
         C \subseteq C2, T \subseteq T2, M \subseteq M2,
         NEW q, AreSteps(q, C, T, M)
  PROVE  AreSteps(q, C2, T2, M2)
<1>1. ASSUME NEW s, IsStep(s, C, T, M) PROVE IsStep(s, C2, T2, M2)
  BY <1>1 DEF IsStep, IsPartial
<1>2. QED
  BY <1>1 DEF AreSteps

LEMMA ScriptsGrow ==
  ASSUME NEW C, NEW T, NEW M, NEW C2, NEW T2, NEW M2,
         C \subseteq C2, T \subseteq T2, M \subseteq M2,
         NEW p, IsScripts(p, C, T, M)
  PROVE  IsScripts(p, C2, T2, M2)
  BY StepsGrow DEF IsScripts

LEMMA ScriptsFrom ==
  ASSUME NEW C, NEW T, NEW M, NEW X, NEW p \in Seq(X),
         \A s \in X : s # << >> /\ AreSteps(s, C, T, M)
  PROVE  IsScripts(p, C, T, M)
<1>1. p \in Seq(ToSet(p))
  <2>1. p = [i \in 1 .. Len(p) |-> p[i]] /\ Len(p) \in Nat /\ \A i \in 1 .. Len(p) : p[i] \in ToSet(p)
    BY ListFacts
  <2>2. QED
    BY <2>1, SeqDef
<1>2. \A s \in ToSet(p) : s \in X
  BY ListFacts
<1>3. QED
  BY <1>1, <1>2 DEF IsScripts

LEMMA LimitFacts ==
  Limit \in Nat /\ Limit >= 1
<1> DEFINE a == UndoLimit
<1>1. a \in Nat
  BY EditorAssumption
<1>2. Limit = Max({1, a})
  BY DEF Limit
<1> HIDE DEF a
<1>3. Max({1, a}) \in {1, a} /\ Max({1, a}) >= 1
  <2>1. CASE a >= 1
    <3>1. a \in {1, a} /\ \A y \in {1, a} : a >= y
      BY <1>1, <2>1
    <3>2. \A x \in {1, a} : (\A y \in {1, a} : x >= y) => x = a
      BY <1>1, <2>1
    <3>3. Max({1, a}) = a
      BY <3>1, <3>2 DEF Max
    <3>4. QED
      BY <3>3, <2>1
  <2>2. CASE ~(a >= 1)
    <3>1. 1 \in {1, a} /\ \A y \in {1, a} : 1 >= y
      BY <1>1, <2>2
    <3>2. \A x \in {1, a} : (\A y \in {1, a} : x >= y) => x = 1
      BY <1>1, <2>2
    <3>3. Max({1, a}) = 1
      BY <3>1, <3>2 DEF Max
    <3>4. QED
      BY <3>3
  <2>3. QED
    BY <2>1, <2>2
<1>4. QED
  BY <1>1, <1>2, <1>3

LEMMA NoScripts ==
  ASSUME NEW C, NEW T, NEW M
  PROVE  IsScripts(<< >>, C, T, M) /\ IsStack(<< >>, C, T, M)
<1> DEFINE X == {}
           e == << >>
<1>1. e \in Seq(X) /\ \A s \in X : s # << >> /\ AreSteps(s, C, T, M)
  BY EmptySeq
<1>3. Len(e) = 0
  OBVIOUS
<1> HIDE DEF X, e
<1>2. IsScripts(e, C, T, M)
  BY <1>1, ScriptsFrom
<1>4. QED
  BY <1>2, <1>3, LimitFacts DEF IsStack, e

LEMMA MoreScripts ==
  ASSUME NEW C, NEW T, NEW M, NEW p, IsScripts(p, C, T, M),
         NEW q, q # << >>, AreSteps(q, C, T, M)
  PROVE  /\ IsScripts(Append(p, q), C, T, M)
         /\ IsStack(p, C, T, M) => IsStack(Pushed(p, q), C, T, M)
<1> DEFINE X == ToSet(p) \cup {q}
           k == IF Len(p) >= Limit THEN Tail(p) ELSE p
<1>1. p \in Seq(X) /\ \A s \in X : s # << >> /\ AreSteps(s, C, T, M)
  BY SeqMonotonic DEF IsScripts
<1>2. q \in X
  OBVIOUS
<1> HIDE DEF X
<1>3. Append(p, q) \in Seq(X)
  BY <1>1, <1>2, AppendProperties
<1> DEFINE a == Append(p, q)
<1> HIDE DEF a
<1>4. IsScripts(a, C, T, M)
  BY <1>1, <1>3, ScriptsFrom DEF a
<1>5. ASSUME IsStack(p, C, T, M) PROVE IsStack(Pushed(p, q), C, T, M)
  <2>1. Len(p) \in Nat /\ Limit \in Nat /\ Limit >= 1 /\ Len(p) <= Limit
    BY <1>1, <1>5, ListFacts, LimitFacts DEF IsStack
  <2>2. k \in Seq(X) /\ Len(k) \in Nat /\ Len(k) < Limit
    <3>1. CASE Len(p) >= Limit
      <4>1. p # << >>
        BY <2>1, <3>1
      <4>2. Tail(p) \in Seq(X) /\ Len(Tail(p)) = Len(p) - 1
        BY <1>1, <4>1, HeadTailProperties
      <4>3. QED
        BY <2>1, <3>1, <4>2
    <3>2. CASE ~(Len(p) >= Limit)
      BY <1>1, <2>1, <3>2
    <3>3. QED
      BY <3>1, <3>2
  <2>3. Pushed(p, q) = Append(k, q)
    BY DEF Pushed
  <2> HIDE DEF k
  <2> DEFINE b == Append(k, q)
  <2>4. b \in Seq(X) /\ Len(b) = Len(k) + 1
    BY <1>2, <2>2, AppendProperties
  <2> HIDE DEF b
  <2>5. IsScripts(b, C, T, M)
    BY <1>1, <2>4, ScriptsFrom
  <2>6. Len(b) <= Limit
    BY <2>1, <2>2, <2>4
  <2>7. QED
    BY <2>3, <2>5, <2>6 DEF IsStack, b
<1>6. QED
  BY <1>4, <1>5 DEF a

LEMMA TopScript ==
  ASSUME NEW C, NEW T, NEW M, NEW p, IsStack(p, C, T, M), p # << >>
  PROVE  /\ IsStack(Front(p), C, T, M)
         /\ Last(p) # << >> /\ AreSteps(Last(p), C, T, M)
<1> DEFINE X == ToSet(p)
           f == SubSeq(p, 1, Len(p) - 1)
<1>1. p \in Seq(X) /\ \A s \in X : s # << >> /\ AreSteps(s, C, T, M)
  BY DEF IsStack, IsScripts
<1>2. Len(p) \in Nat /\ Len(p) # 0 /\ DOMAIN p = 1 .. Len(p) /\ \A i \in DOMAIN p : p[i] \in X
  BY <1>1, ListFacts, EmptySeq
<1>3. Last(p) \in X
  BY <1>2 DEF Last
<1> HIDE DEF X
<1>4. f \in Seq(X) /\ Len(f) = Len(p) - 1
  BY <1>1, <1>2, SubSeqProperties
<1>5. Front(p) = f
  BY DEF Front
<1> HIDE DEF f
<1>6. IsScripts(f, C, T, M)
  BY <1>1, <1>4, ScriptsFrom
<1>7. Len(f) <= Limit
  BY <1>2, <1>4, LimitFacts DEF IsStack
<1>8. QED
  BY <1>1, <1>3, <1>5, <1>6, <1>7 DEF IsStack

-----------------------------------------------------------------------------
(* What applying an edit keeps *)

Sound == TypeOK /\ LanesZoned

LEMMA BelowFacts ==
  ASSUME NEW S \in SUBSET Nat, NEW n \in Nat
  PROVE  LET B == {x \in S : x < n} IN
         /\ IsFiniteSet(B) /\ B \subseteq {x \in S : x < n + 1}
         /\ n \in S => n \in {x \in S : x < n + 1}
         /\ n \notin B
<1> DEFINE B == {x \in S : x < n}
<1>0. ASSUME NEW x \in S, x < n PROVE x \in 0 .. n /\ x < n + 1
  <2>1. x \in Nat
    OBVIOUS
  <2>2. QED
    BY <2>1, <1>0
<1>1. B \subseteq 0 .. n
  <2> SUFFICES ASSUME NEW x \in B PROVE x \in 0 .. n
    OBVIOUS
  <2> QED
    BY <1>0
<1>2. IsFiniteSet(0 .. n)
  <2>1. 0 \in Int /\ n \in Int
    OBVIOUS
  <2>2. QED
    BY <2>1, FS_Interval
<1>3. IsFiniteSet(B)
  BY <1>1, <1>2, FS_Subset
<1>4. B \subseteq {x \in S : x < n + 1} /\ n \notin B
      /\ (n \in S => n \in {x \in S : x < n + 1})
  <2>1. n < n + 1 /\ ~(n < n)
    OBVIOUS
  <2>2. QED
    BY <1>0, <2>1
<1>5. QED
  BY <1>3, <1>4

LEMMA IdFacts ==
  ASSUME TypeOK
  PROVE  /\ Clips \in SUBSET ClipId /\ IsFiniteSet(Clips)
         /\ Tracks \in SUBSET TrackId /\ imported \in SUBSET Media
<1>1. ClipId \in SUBSET Nat /\ nextClip \in Nat
  BY TimelineAssumption DEF TypeOK
<1>3. IsFiniteSet(Clips)
  BY <1>1, BelowFacts DEF Clips
<1>4. QED
  BY <1>3 DEF TypeOK, Clips, Tracks

(* The allocators only move on. *)
Issued ==
  /\ nextClip' \in Nat /\ nextTrack' \in Nat /\ imported' \subseteq Media
  /\ Clips \subseteq Clips' /\ Tracks \subseteq Tracks' /\ imported \subseteq imported'

LEMMA NoFreshFacts ==
  ASSUME TypeOK, NoFreshId
  PROVE  Issued /\ Clips' = Clips /\ Tracks' = Tracks /\ imported' = imported
  BY DEF TypeOK, NoFreshId, ids, Issued, Clips, Tracks

LEMMA FreshClipFacts ==
  ASSUME TypeOK, FreshClip
  PROVE  Issued /\ nextClip \in Clips'
<1>1. nextClip \in Nat /\ ClipId \in SUBSET Nat
  BY TimelineAssumption DEF TypeOK
<1>2. nextClip \in ClipId /\ nextClip' = nextClip + 1 /\ nextTrack' = nextTrack /\ imported' = imported
  BY DEF FreshClip
<1>3. Clips \subseteq Clips' /\ nextClip \in Clips'
  BY <1>1, <1>2, BelowFacts DEF Clips
<1>4. nextTrack \in Nat /\ imported \subseteq Media /\ Tracks' = Tracks /\ nextClip' \in Nat
  BY <1>1, <1>2 DEF TypeOK, Tracks
<1>5. QED
  BY <1>2, <1>3, <1>4 DEF Issued

LEMMA FreshTrackFacts ==
  ASSUME TypeOK, FreshTrack
  PROVE  Issued /\ nextTrack \in Tracks' /\ nextTrack \notin Tracks
<1>1. nextTrack \in Nat /\ TrackId \in SUBSET Nat
  BY TimelineAssumption DEF TypeOK
<1>2. nextTrack \in TrackId /\ nextTrack' = nextTrack + 1 /\ nextClip' = nextClip /\ imported' = imported
  BY DEF FreshTrack
<1>3. Tracks \subseteq Tracks' /\ nextTrack \in Tracks' /\ nextTrack \notin Tracks
  BY <1>1, <1>2, BelowFacts DEF Tracks
<1>4. nextClip \in Nat /\ imported \subseteq Media /\ Clips' = Clips /\ nextTrack' \in Nat
  BY <1>1, <1>2 DEF TypeOK, Clips
<1>5. QED
  BY <1>2, <1>3, <1>4 DEF Issued

LEMMA IssuedFacts ==
  ASSUME TypeOK, Issued
  PROVE  /\ Clips' \in SUBSET ClipId /\ IsFiniteSet(Clips')
         /\ Tracks' \in SUBSET TrackId /\ imported' \in SUBSET Media
         /\ Within(doc, Clips', Tracks', imported')
         /\ file # NoFile => Within(file, Clips', Tracks', imported')
         /\ IsStack(undo, Clips', Tracks', imported')
         /\ IsStack(redo, Clips', Tracks', imported')
         /\ InGroup => IsScripts(pending, Clips', Tracks', imported')
<1>1. ClipId \in SUBSET Nat /\ nextClip' \in Nat
  BY TimelineAssumption DEF Issued
<1>3. IsFiniteSet(Clips')
  BY <1>1, BelowFacts DEF Clips
<1>4. Clips \subseteq Clips' /\ Tracks \subseteq Tracks' /\ imported \subseteq imported'
  BY DEF Issued
<1>5. /\ Within(doc, Clips', Tracks', imported')
      /\ file # NoFile => Within(file, Clips', Tracks', imported')
  BY <1>4, WithinGrows DEF TypeOK
<1>6. /\ IsStack(undo, Clips', Tracks', imported')
      /\ IsStack(redo, Clips', Tracks', imported')
      /\ InGroup => IsScripts(pending, Clips', Tracks', imported')
  BY <1>4, ScriptsGrow DEF TypeOK, IsStack
<1>7. Clips' \in SUBSET ClipId /\ Tracks' \in SUBSET TrackId /\ imported' \in SUBSET Media
  BY DEF Issued, Clips, Tracks
<1>8. QED
  BY <1>3, <1>5, <1>6, <1>7

LEMMA ApplyKeeps ==
  ASSUME Sound, Issued, NEW r, IsOutcome(r, doc, Clips', Tracks', imported'), Apply(r)
  PROVE  Sound'
<1>1. TypeOK /\ IsZoned(doc)
  BY DEF Sound, LanesZoned
<1>2. /\ Within(doc, Clips', Tracks', imported')
      /\ file # NoFile => Within(file, Clips', Tracks', imported')
      /\ IsStack(undo, Clips', Tracks', imported')
      /\ IsStack(redo, Clips', Tracks', imported')
      /\ InGroup => IsScripts(pending, Clips', Tracks', imported')
  BY <1>1, IssuedFacts
<1>3. /\ Within(r.doc, Clips', Tracks', imported') /\ IsZoned(r.doc) /\ r.ok \in BOOLEAN
      /\ r.ok => AreSteps(r.inverse, Clips', Tracks', imported') /\ r.inverse # << >>
  BY <1>1 DEF IsOutcome
<1>4. /\ doc' = r.doc /\ UNCHANGED <<disk, habit, session>>
      /\ r.ok => revision' = revision + 1 /\ RecordDo(r.inverse)
      /\ ~r.ok => UNCHANGED <<revision, made, stacks, group>>
  BY DEF Apply
<1>5. /\ habit' \in Habits /\ file' = file /\ savedRevision' = savedRevision
      /\ nextClip' \in Nat /\ nextTrack' \in Nat /\ imported' \subseteq Media
  BY <1>1, <1>4 DEF disk, TypeOK, Issued
<1>6. revision' \in Nat /\ savedRevision' \in Nat /\ savedRevision' <= revision'
  BY <1>1, <1>3, <1>4, <1>5 DEF TypeOK
<1>7. /\ IsStack(undo', Clips', Tracks', imported')
      /\ IsStack(redo', Clips', Tracks', imported')
      /\ InGroup' => IsScripts(pending', Clips', Tracks', imported')
  <2>1. CASE ~r.ok
    BY <1>2, <1>4, <2>1 DEF stacks, group, InGroup
  <2>2. CASE r.ok /\ InGroup
    <3>1. pending' = Append(pending, r.inverse) /\ undo' = undo /\ redo' = redo
      BY <1>4, <2>2 DEF RecordDo, stacks
    <3>2. IsScripts(Append(pending, r.inverse), Clips', Tracks', imported')
      BY <1>2, <1>3, <2>2, MoreScripts
    <3>3. QED
      BY <1>2, <3>1, <3>2
  <2>3. CASE r.ok /\ ~InGroup
    <3>1. undo' = Pushed(undo, r.inverse) /\ redo' = << >> /\ pending' = pending
      BY <1>4, <2>3 DEF RecordDo, Record, group
    <3>2. IsStack(Pushed(undo, r.inverse), Clips', Tracks', imported')
      BY <1>2, <1>3, <2>3, MoreScripts DEF IsStack
    <3>3. QED
      BY <2>3, <3>1, <3>2, NoScripts DEF InGroup
  <2>4. QED
    BY <1>3, <2>1, <2>2, <2>3
<1>8. TypeOK'
  BY <1>2, <1>3, <1>4, <1>5, <1>6, <1>7 DEF TypeOK
<1>9. LanesZoned'
  BY <1>3, <1>4 DEF LanesZoned
<1>10. QED
  BY <1>8, <1>9 DEF Sound

LEMMA ApplyStructuralKeeps ==
  ASSUME Sound, Issued, NEW r, IsOutcome(r, doc, Clips', Tracks', imported'), ApplyStructural(r)
  PROVE  Sound'
<1>1. Within(doc, Clips', Tracks', imported')
  BY IssuedFacts DEF Sound
<1> DEFINE q == Structural(doc, r)
<1>2. IsOutcome(q, doc, Clips', Tracks', imported')
  BY <1>1, StructuralOutcome
<1>3. Apply(q)
  BY DEF ApplyStructural
<1> HIDE DEF q
<1>4. QED
  BY <1>2, <1>3, ApplyKeeps

-----------------------------------------------------------------------------
(* Each command *)

LEMMA HabitFacts ==
  ASSUME TypeOK
  PROVE  /\ \A x \in habit.kinds : x \in Kind
         /\ \A x \in habit.ticks : x \in Int
         /\ \A x \in habit.lengths : x \in Int
         /\ \A x \in habit.speeds : x \in Int
  BY EditorAssumption DEF TypeOK

LEMMA DocFacts ==
  ASSUME TypeOK
  PROVE  /\ Lanes(doc) \subseteq Tracks
         /\ \A t \in Lanes(doc) : t \in TrackId
         /\ Len(doc.order) \in Nat
<1>1. Lanes(doc) \subseteq Tracks /\ IsStacked(doc)
  BY StackedFacts DEF TypeOK, Within
<1>2. Len(doc.order) \in Nat
  BY <1>1, ListFacts DEF IsStacked
<1>3. QED
  BY <1>1, <1>2 DEF Tracks

LEMMA AddTrackKeeps ==
  ASSUME Sound, DoAddTrack
  PROVE  Sound'
<1>1. TypeOK
  BY DEF Sound
<1>2. Issued /\ nextTrack \in Tracks' /\ nextTrack \notin Lanes(doc)
  BY <1>1, FreshTrackFacts, DocFacts DEF DoAddTrack
<1>3. PICK kind \in habit.kinds, index \in 1 .. Len(doc.order) + 1 : Apply(AddTrack(doc, nextTrack, kind, index))
  BY DEF DoAddTrack
<1>4. kind \in Kind /\ index \in Nat \ {0}
  BY <1>1, HabitFacts, DocFacts
<1>5. /\ Clips' \in SUBSET ClipId /\ IsFiniteSet(Clips') /\ Tracks' \in SUBSET TrackId
      /\ imported' \in SUBSET Media /\ Within(doc, Clips', Tracks', imported')
  BY <1>1, <1>2, IssuedFacts
<1> DEFINE r == AddTrack(doc, nextTrack, kind, index)
<1>6. IsOutcome(r, doc, Clips', Tracks', imported')
  BY <1>2, <1>4, <1>5, AddTrackOutcome
<1>7. Apply(r)
  BY <1>3
<1> HIDE DEF r
<1>8. QED
  BY <1>2, <1>6, <1>7, ApplyKeeps

LEMMA RemoveTrackKeeps ==
  ASSUME Sound, DoRemoveTrack
  PROVE  Sound'
<1>1. TypeOK
  BY DEF Sound
<1>2. Issued
  BY <1>1, NoFreshFacts, DocFacts DEF DoRemoveTrack
<1>3. PICK t \in Lanes(doc) : ApplyStructural(RemoveTrack(doc, t))
  BY DEF DoRemoveTrack
<1>5. /\ Clips' \in SUBSET ClipId /\ IsFiniteSet(Clips') /\ Tracks' \in SUBSET TrackId
      /\ imported' \in SUBSET Media /\ Within(doc, Clips', Tracks', imported')
  BY <1>1, <1>2, IssuedFacts
<1> DEFINE r == RemoveTrack(doc, t)
<1>6. IsOutcome(r, doc, Clips', Tracks', imported')
  BY <1>2, <1>5, RemoveTrackOutcome
<1>7. ApplyStructural(r)
  BY <1>3
<1> HIDE DEF r
<1>8. QED
  BY <1>2, <1>6, <1>7, ApplyStructuralKeeps

LEMMA MoveTrackKeeps ==
  ASSUME Sound, DoMoveTrack
  PROVE  Sound'
<1>1. TypeOK
  BY DEF Sound
<1>2. Issued
  BY <1>1, NoFreshFacts, DocFacts DEF DoMoveTrack
<1>3. PICK t \in Lanes(doc), index \in 1 .. Len(doc.order) : Apply(MoveTrack(doc, t, index))
  BY DEF DoMoveTrack
<1>4. index \in Nat \ {0}
  BY <1>1, HabitFacts, DocFacts
<1>5. /\ Clips' \in SUBSET ClipId /\ IsFiniteSet(Clips') /\ Tracks' \in SUBSET TrackId
      /\ imported' \in SUBSET Media /\ Within(doc, Clips', Tracks', imported')
  BY <1>1, <1>2, IssuedFacts
<1> DEFINE r == MoveTrack(doc, t, index)
<1>6. IsOutcome(r, doc, Clips', Tracks', imported')
  BY <1>2, <1>4, <1>5, UnmoveTrackOutcome
<1>7. Apply(r)
  BY <1>3
<1> HIDE DEF r
<1>8. QED
  BY <1>2, <1>6, <1>7, ApplyKeeps

LEMMA AddClipKeeps ==
  ASSUME Sound, DoAddClip
  PROVE  Sound'
<1>1. TypeOK
  BY DEF Sound
<1>2. Issued /\ nextClip \in Clips'
  BY <1>1, FreshClipFacts, DocFacts DEF DoAddClip
<1>3. PICK t \in Lanes(doc), m \in Media, in \in habit.ticks, len \in habit.lengths, at \in habit.ticks : Apply(AddClip(doc, nextClip, t, m, in, len, at))
  BY DEF DoAddClip
<1>4. t \in TrackId /\ m \in Media /\ in \in Int /\ len \in Int /\ at \in Int
  BY <1>1, HabitFacts, DocFacts
<1>5. /\ Clips' \in SUBSET ClipId /\ IsFiniteSet(Clips') /\ Tracks' \in SUBSET TrackId
      /\ imported' \in SUBSET Media /\ Within(doc, Clips', Tracks', imported')
  BY <1>1, <1>2, IssuedFacts
<1> DEFINE r == AddClip(doc, nextClip, t, m, in, len, at)
<1>6. IsOutcome(r, doc, Clips', Tracks', imported')
  BY <1>2, <1>4, <1>5, AddClipOutcome
<1>7. Apply(r)
  BY <1>3
<1> HIDE DEF r
<1>8. QED
  BY <1>2, <1>6, <1>7, ApplyKeeps

LEMMA AddGeneratedKeeps ==
  ASSUME Sound, DoAddGenerated
  PROVE  Sound'
<1>1. TypeOK
  BY DEF Sound
<1>2. Issued /\ nextClip \in Clips'
  BY <1>1, FreshClipFacts, DocFacts DEF DoAddGenerated
<1>3. PICK t \in Lanes(doc), content \in Generated, at \in habit.ticks, dur \in habit.lengths : Apply(AddGenerated(doc, nextClip, t, content, at, dur))
  BY DEF DoAddGenerated
<1>4. t \in TrackId /\ at \in Int /\ dur \in Int
  BY <1>1, HabitFacts, DocFacts
<1>5. /\ Clips' \in SUBSET ClipId /\ IsFiniteSet(Clips') /\ Tracks' \in SUBSET TrackId
      /\ imported' \in SUBSET Media /\ Within(doc, Clips', Tracks', imported')
  BY <1>1, <1>2, IssuedFacts
<1> DEFINE r == AddGenerated(doc, nextClip, t, content, at, dur)
<1>6. IsOutcome(r, doc, Clips', Tracks', imported')
  BY <1>2, <1>4, <1>5, AddGeneratedOutcome
<1>7. Apply(r)
  BY <1>3
<1> HIDE DEF r
<1>8. QED
  BY <1>2, <1>6, <1>7, ApplyKeeps

LEMMA DuplicateClipKeeps ==
  ASSUME Sound, DoDuplicateClip
  PROVE  Sound'
<1>1. TypeOK
  BY DEF Sound
<1>2. Issued /\ nextClip \in Clips'
  BY <1>1, FreshClipFacts, DocFacts DEF DoDuplicateClip
<1>3. PICK of \in Placed(doc), t \in Lanes(doc), at \in habit.ticks : ApplyStructural(DuplicateClip(doc, nextClip, of, t, at))
  BY DEF DoDuplicateClip
<1>4. t \in TrackId /\ at \in Int
  BY <1>1, HabitFacts, DocFacts
<1>5. /\ Clips' \in SUBSET ClipId /\ IsFiniteSet(Clips') /\ Tracks' \in SUBSET TrackId
      /\ imported' \in SUBSET Media /\ Within(doc, Clips', Tracks', imported')
  BY <1>1, <1>2, IssuedFacts
<1> DEFINE r == DuplicateClip(doc, nextClip, of, t, at)
<1>6. IsOutcome(r, doc, Clips', Tracks', imported')
  BY <1>2, <1>4, <1>5, DuplicateClipOutcome
<1>7. ApplyStructural(r)
  BY <1>3
<1> HIDE DEF r
<1>8. QED
  BY <1>2, <1>6, <1>7, ApplyStructuralKeeps

LEMMA SplitClipKeeps ==
  ASSUME Sound, DoSplitClip
  PROVE  Sound'
<1>1. TypeOK
  BY DEF Sound
<1>2. Issued /\ nextClip \in Clips'
  BY <1>1, FreshClipFacts, DocFacts DEF DoSplitClip
<1>3. PICK c \in Placed(doc), at \in habit.ticks : ApplyStructural(SplitClip(doc, nextClip, c, at))
  BY DEF DoSplitClip
<1>4. at \in Int
  BY <1>1, HabitFacts, DocFacts
<1>5. /\ Clips' \in SUBSET ClipId /\ IsFiniteSet(Clips') /\ Tracks' \in SUBSET TrackId
      /\ imported' \in SUBSET Media /\ Within(doc, Clips', Tracks', imported')
  BY <1>1, <1>2, IssuedFacts
<1> DEFINE r == SplitClip(doc, nextClip, c, at)
<1>6. IsOutcome(r, doc, Clips', Tracks', imported')
  BY <1>2, <1>4, <1>5, SplitClipOutcome
<1>7. ApplyStructural(r)
  BY <1>3
<1> HIDE DEF r
<1>8. QED
  BY <1>2, <1>6, <1>7, ApplyStructuralKeeps

LEMMA TrimClipKeeps ==
  ASSUME Sound, DoTrimClip
  PROVE  Sound'
<1>1. TypeOK
  BY DEF Sound
<1>2. Issued
  BY <1>1, NoFreshFacts, DocFacts DEF DoTrimClip
<1>3. PICK c \in Placed(doc), at \in habit.ticks, dur \in habit.lengths : ApplyStructural(TrimClip(doc, c, at, dur))
  BY DEF DoTrimClip
<1>4. at \in Int /\ dur \in Int
  BY <1>1, HabitFacts, DocFacts
<1>5. /\ Clips' \in SUBSET ClipId /\ IsFiniteSet(Clips') /\ Tracks' \in SUBSET TrackId
      /\ imported' \in SUBSET Media /\ Within(doc, Clips', Tracks', imported')
  BY <1>1, <1>2, IssuedFacts
<1> DEFINE r == TrimClip(doc, c, at, dur)
<1>6. IsOutcome(r, doc, Clips', Tracks', imported')
  BY <1>2, <1>4, <1>5, TrimClipOutcome
<1>7. ApplyStructural(r)
  BY <1>3
<1> HIDE DEF r
<1>8. QED
  BY <1>2, <1>6, <1>7, ApplyStructuralKeeps

LEMMA MoveClipKeeps ==
  ASSUME Sound, DoMoveClip
  PROVE  Sound'
<1>1. TypeOK
  BY DEF Sound
<1>2. Issued
  BY <1>1, NoFreshFacts, DocFacts DEF DoMoveClip
<1>3. PICK c \in Placed(doc), t \in Lanes(doc), at \in habit.ticks : ApplyStructural(MoveClip(doc, c, t, at))
  BY DEF DoMoveClip
<1>4. at \in Int
  BY <1>1, HabitFacts, DocFacts
<1>5. /\ Clips' \in SUBSET ClipId /\ IsFiniteSet(Clips') /\ Tracks' \in SUBSET TrackId
      /\ imported' \in SUBSET Media /\ Within(doc, Clips', Tracks', imported')
  BY <1>1, <1>2, IssuedFacts
<1> DEFINE r == MoveClip(doc, c, t, at)
<1>6. IsOutcome(r, doc, Clips', Tracks', imported')
  BY <1>2, <1>4, <1>5, MoveClipOutcome
<1>7. ApplyStructural(r)
  BY <1>3
<1> HIDE DEF r
<1>8. QED
  BY <1>2, <1>6, <1>7, ApplyStructuralKeeps

LEMMA RemoveClipKeeps ==
  ASSUME Sound, DoRemoveClip
  PROVE  Sound'
<1>1. TypeOK
  BY DEF Sound
<1>2. Issued
  BY <1>1, NoFreshFacts, DocFacts DEF DoRemoveClip
<1>3. PICK c \in Placed(doc) : ApplyStructural(RemoveClip(doc, c))
  BY DEF DoRemoveClip
<1>5. /\ Clips' \in SUBSET ClipId /\ IsFiniteSet(Clips') /\ Tracks' \in SUBSET TrackId
      /\ imported' \in SUBSET Media /\ Within(doc, Clips', Tracks', imported')
  BY <1>1, <1>2, IssuedFacts
<1> DEFINE r == RemoveClip(doc, c)
<1>6. IsOutcome(r, doc, Clips', Tracks', imported')
  BY <1>2, <1>5, RemoveClipOutcome
<1>7. ApplyStructural(r)
  BY <1>3
<1> HIDE DEF r
<1>8. QED
  BY <1>2, <1>6, <1>7, ApplyStructuralKeeps

LEMMA RippleDeleteKeeps ==
  ASSUME Sound, DoRippleDelete
  PROVE  Sound'
<1>1. TypeOK
  BY DEF Sound
<1>2. Issued
  BY <1>1, NoFreshFacts, DocFacts DEF DoRippleDelete
<1>3. PICK c \in Placed(doc) : ApplyStructural(RippleDelete(doc, c))
  BY DEF DoRippleDelete
<1>5. /\ Clips' \in SUBSET ClipId /\ IsFiniteSet(Clips') /\ Tracks' \in SUBSET TrackId
      /\ imported' \in SUBSET Media /\ Within(doc, Clips', Tracks', imported')
  BY <1>1, <1>2, IssuedFacts
<1> DEFINE r == RippleDelete(doc, c)
<1>6. IsOutcome(r, doc, Clips', Tracks', imported')
  BY <1>2, <1>5, RippleDeleteOutcome
<1>7. ApplyStructural(r)
  BY <1>3
<1> HIDE DEF r
<1>8. QED
  BY <1>2, <1>6, <1>7, ApplyStructuralKeeps

LEMMA ShiftClipsKeeps ==
  ASSUME Sound, DoShiftClips
  PROVE  Sound'
<1>1. TypeOK
  BY DEF Sound
<1>2. Issued
  BY <1>1, NoFreshFacts, DocFacts DEF DoShiftClips
<1>3. PICK t \in Lanes(doc), from \in habit.ticks, by \in habit.lengths, sign \in {1, -1} : ApplyStructural(ShiftClips(doc, t, from, sign * by))
  BY DEF DoShiftClips
<1>4. from \in Int /\ sign * by \in Int
  BY <1>1, HabitFacts, DocFacts
<1>5. /\ Clips' \in SUBSET ClipId /\ IsFiniteSet(Clips') /\ Tracks' \in SUBSET TrackId
      /\ imported' \in SUBSET Media /\ Within(doc, Clips', Tracks', imported')
  BY <1>1, <1>2, IssuedFacts
<1> DEFINE r == ShiftClips(doc, t, from, sign * by)
<1>6. IsOutcome(r, doc, Clips', Tracks', imported')
  BY <1>2, <1>4, <1>5, ShiftClipsOutcome
<1>7. ApplyStructural(r)
  BY <1>3
<1> HIDE DEF r
<1>8. QED
  BY <1>2, <1>6, <1>7, ApplyStructuralKeeps

LEMMA RippleInsertKeeps ==
  ASSUME Sound, DoRippleInsert
  PROVE  Sound'
<1>1. TypeOK
  BY DEF Sound
<1>2. Issued /\ nextClip \in Clips'
  BY <1>1, FreshClipFacts, DocFacts DEF DoRippleInsert
<1>3. PICK t \in Lanes(doc), m \in Media, in \in habit.ticks, len \in habit.lengths, at \in habit.ticks : ApplyStructural(RippleInsert(doc, nextClip, t, m, in, len, at))
  BY DEF DoRippleInsert
<1>4. t \in TrackId /\ m \in Media /\ in \in Int /\ len \in Int /\ at \in Int
  BY <1>1, HabitFacts, DocFacts
<1>5. /\ Clips' \in SUBSET ClipId /\ IsFiniteSet(Clips') /\ Tracks' \in SUBSET TrackId
      /\ imported' \in SUBSET Media /\ Within(doc, Clips', Tracks', imported')
  BY <1>1, <1>2, IssuedFacts
<1> DEFINE r == RippleInsert(doc, nextClip, t, m, in, len, at)
<1>6. IsOutcome(r, doc, Clips', Tracks', imported')
  BY <1>2, <1>4, <1>5, RippleInsertOutcome
<1>7. ApplyStructural(r)
  BY <1>3
<1> HIDE DEF r
<1>8. QED
  BY <1>2, <1>6, <1>7, ApplyStructuralKeeps

LEMMA SetClipSpeedKeeps ==
  ASSUME Sound, DoSetClipSpeed
  PROVE  Sound'
<1>1. TypeOK
  BY DEF Sound
<1>2. Issued
  BY <1>1, NoFreshFacts, DocFacts DEF DoSetClipSpeed
<1>3. PICK c \in Placed(doc), speed \in habit.speeds : Apply(SetClipSpeed(doc, c, speed))
  BY DEF DoSetClipSpeed
<1>4. speed \in Int
  BY <1>1, HabitFacts, DocFacts
<1>5. /\ Clips' \in SUBSET ClipId /\ IsFiniteSet(Clips') /\ Tracks' \in SUBSET TrackId
      /\ imported' \in SUBSET Media /\ Within(doc, Clips', Tracks', imported')
  BY <1>1, <1>2, IssuedFacts
<1> DEFINE r == SetClipSpeed(doc, c, speed)
<1>6. IsOutcome(r, doc, Clips', Tracks', imported')
  BY <1>2, <1>4, <1>5, SetClipSpeedOutcome
<1>7. Apply(r)
  BY <1>3
<1> HIDE DEF r
<1>8. QED
  BY <1>2, <1>6, <1>7, ApplyKeeps

LEMMA AddTransitionKeeps ==
  ASSUME Sound, DoAddTransition
  PROVE  Sound'
<1>1. TypeOK
  BY DEF Sound
<1>2. Issued
  BY <1>1, NoFreshFacts, DocFacts DEF DoAddTransition
<1>3. PICK c \in Placed(doc) : Apply(AddTransition(doc, c))
  BY DEF DoAddTransition
<1>5. /\ Clips' \in SUBSET ClipId /\ IsFiniteSet(Clips') /\ Tracks' \in SUBSET TrackId
      /\ imported' \in SUBSET Media /\ Within(doc, Clips', Tracks', imported')
  BY <1>1, <1>2, IssuedFacts
<1> DEFINE r == AddTransition(doc, c)
<1>6. IsOutcome(r, doc, Clips', Tracks', imported')
  BY <1>2, <1>5, AddTransitionOutcome
<1>7. Apply(r)
  BY <1>3
<1> HIDE DEF r
<1>8. QED
  BY <1>2, <1>6, <1>7, ApplyKeeps

LEMMA RemoveTransitionKeeps ==
  ASSUME Sound, DoRemoveTransition
  PROVE  Sound'
<1>1. TypeOK
  BY DEF Sound
<1>2. Issued
  BY <1>1, NoFreshFacts, DocFacts DEF DoRemoveTransition
<1>3. PICK c \in Placed(doc) : Apply(RemoveTransition(doc, c))
  BY DEF DoRemoveTransition
<1>5. /\ Clips' \in SUBSET ClipId /\ IsFiniteSet(Clips') /\ Tracks' \in SUBSET TrackId
      /\ imported' \in SUBSET Media /\ Within(doc, Clips', Tracks', imported')
  BY <1>1, <1>2, IssuedFacts
<1> DEFINE r == RemoveTransition(doc, c)
<1>6. IsOutcome(r, doc, Clips', Tracks', imported')
  BY <1>2, <1>5, RemoveTransitionOutcome
<1>7. Apply(r)
  BY <1>3
<1> HIDE DEF r
<1>8. QED
  BY <1>2, <1>6, <1>7, ApplyKeeps

LEMMA SetTransitionKeeps ==
  ASSUME Sound, DoSetTransition
  PROVE  Sound'
<1>1. TypeOK
  BY DEF Sound
<1>2. Issued
  BY <1>1, NoFreshFacts, DocFacts DEF DoSetTransition
<1>3. PICK c \in Placed(doc), window \in habit.lengths : Apply(SetTransition(doc, c, window))
  BY DEF DoSetTransition
<1>4. window \in Int
  BY <1>1, HabitFacts, DocFacts
<1>5. /\ Clips' \in SUBSET ClipId /\ IsFiniteSet(Clips') /\ Tracks' \in SUBSET TrackId
      /\ imported' \in SUBSET Media /\ Within(doc, Clips', Tracks', imported')
  BY <1>1, <1>2, IssuedFacts
<1> DEFINE r == SetTransition(doc, c, window)
<1>6. IsOutcome(r, doc, Clips', Tracks', imported')
  BY <1>2, <1>4, <1>5, SetTransitionOutcome
<1>7. Apply(r)
  BY <1>3
<1> HIDE DEF r
<1>8. QED
  BY <1>2, <1>6, <1>7, ApplyKeeps

LEMMA RemoveMediaKeeps ==
  ASSUME Sound, DoRemoveMedia
  PROVE  Sound'
<1>1. TypeOK
  BY DEF Sound
<1>2. Issued
  BY <1>1, NoFreshFacts, DocFacts DEF DoRemoveMedia
<1>3. PICK m \in Media : Apply(RemoveMedia(doc, m))
  BY DEF DoRemoveMedia
<1>5. /\ Clips' \in SUBSET ClipId /\ IsFiniteSet(Clips') /\ Tracks' \in SUBSET TrackId
      /\ imported' \in SUBSET Media /\ Within(doc, Clips', Tracks', imported')
  BY <1>1, <1>2, IssuedFacts
<1> DEFINE r == RemoveMedia(doc, m)
<1>6. IsOutcome(r, doc, Clips', Tracks', imported')
  BY <1>2, <1>5, RemoveMediaOutcome
<1>7. Apply(r)
  BY <1>3
<1> HIDE DEF r
<1>8. QED
  BY <1>2, <1>6, <1>7, ApplyKeeps

LEMMA ImportKeeps ==
  ASSUME Sound, DoImport
  PROVE  Sound'
<1>1. TypeOK
  BY DEF Sound
<1>2. PICK m \in Media \ imported : imported' = imported \cup {m} /\ Apply(InsertMedia(doc, m))
  BY DEF DoImport
<1>3. nextClip' = nextClip /\ nextTrack' = nextTrack
  BY DEF DoImport
<1>4. Issued /\ m \in imported'
  BY <1>1, <1>2, <1>3 DEF TypeOK, Issued, Clips, Tracks
<1>5. /\ Clips' \in SUBSET ClipId /\ IsFiniteSet(Clips') /\ Tracks' \in SUBSET TrackId
      /\ imported' \in SUBSET Media /\ Within(doc, Clips', Tracks', imported')
  BY <1>1, <1>4, IssuedFacts
<1> DEFINE r == InsertMedia(doc, m)
<1>6. IsOutcome(r, doc, Clips', Tracks', imported')
  BY <1>4, <1>5, InsertMediaOutcome
<1>7. Apply(r)
  BY <1>2
<1> HIDE DEF r
<1>8. QED
  BY <1>4, <1>6, <1>7, ApplyKeeps

-----------------------------------------------------------------------------
(* Undo, redo, groups and whole projects *)

LEMMA ImportAgainKeeps ==
  ASSUME Sound, DoImportAgain
  PROVE  Sound'
<1>1. /\ revision' = revision + 1
      /\ UNCHANGED <<doc, made, habit, session, stacks, group, disk, ids>>
  BY DEF DoImportAgain
<1>2. QED
  BY <1>1 DEF Sound, TypeOK, LanesZoned, stacks, group, disk, ids, InGroup, Clips, Tracks

(* Running the newest entry of a stack. *)
LEMMA TopRuns ==
  ASSUME Sound, NEW stack, IsStack(stack, Clips, Tracks, imported), stack # << >>
  PROVE  LET r == Run(doc, Last(stack)) IN
         /\ r.ok \in BOOLEAN
         /\ Within(r.doc, Clips, Tracks, imported) /\ IsZoned(r.doc)
         /\ r.ok => r.inverse # << >> /\ AreSteps(r.inverse, Clips, Tracks, imported)
         /\ IsStack(Front(stack), Clips, Tracks, imported)
<1>1. /\ Clips \in SUBSET ClipId /\ IsFiniteSet(Clips) /\ Tracks \in SUBSET TrackId
      /\ imported \in SUBSET Media
  BY IdFacts DEF Sound
<1>2. Within(doc, Clips, Tracks, imported) /\ IsZoned(doc)
  BY DEF Sound, TypeOK, LanesZoned
<1>3. /\ Last(stack) # << >> /\ AreSteps(Last(stack), Clips, Tracks, imported)
      /\ IsStack(Front(stack), Clips, Tracks, imported)
  BY TopScript
<1> DEFINE q == Last(stack)
<1> HIDE DEF q
<1>4. LET r == Run(doc, q) IN
      IsResult(r, doc, Clips, Tracks, imported) /\ (r.ok /\ q # << >> => r.inverse # << >>)
  BY <1>1, <1>2, <1>3, RunResult DEF q
<1>5. QED
  BY <1>2, <1>3, <1>4 DEF IsResult, q

LEMMA UndoKeeps ==
  ASSUME Sound, Undo
  PROVE  Sound'
<1>1. undo # << >> /\ IsStack(undo, Clips, Tracks, imported) /\ IsStack(redo, Clips, Tracks, imported)
  BY DEF Sound, TypeOK, Undo
<1> DEFINE r == Run(doc, Last(undo))
<1>2. /\ doc' = r.doc
      /\ IF r.ok THEN undo' = Front(undo) /\ redo' = Pushed(redo, r.inverse)
         ELSE undo' = << >> /\ redo' = << >>
      /\ revision' = revision + 1
      /\ UNCHANGED <<habit, group, disk, ids>>
  BY DEF Undo, ClearStacks
<1>3. /\ r.ok \in BOOLEAN
      /\ Within(r.doc, Clips, Tracks, imported) /\ IsZoned(r.doc)
      /\ r.ok => r.inverse # << >> /\ AreSteps(r.inverse, Clips, Tracks, imported)
      /\ IsStack(Front(undo), Clips, Tracks, imported)
  BY <1>1, TopRuns
<1> HIDE DEF r
<1>4. IsStack(undo', Clips, Tracks, imported) /\ IsStack(redo', Clips, Tracks, imported)
  BY <1>1, <1>2, <1>3, MoreScripts, NoScripts DEF IsStack
<1>5. Clips' = Clips /\ Tracks' = Tracks /\ imported' = imported
  BY <1>2 DEF ids, Clips, Tracks
<1>6. TypeOK'
  BY <1>2, <1>3, <1>4, <1>5 DEF Sound, TypeOK, group, disk, ids, InGroup
<1>7. QED
  BY <1>2, <1>3, <1>6 DEF Sound, LanesZoned

LEMMA RedoKeeps ==
  ASSUME Sound, Redo
  PROVE  Sound'
<1>1. redo # << >> /\ IsStack(undo, Clips, Tracks, imported) /\ IsStack(redo, Clips, Tracks, imported)
  BY DEF Sound, TypeOK, Redo
<1> DEFINE r == Run(doc, Last(redo))
<1>2. /\ doc' = r.doc
      /\ IF r.ok THEN redo' = Front(redo) /\ undo' = Pushed(undo, r.inverse)
         ELSE undo' = << >> /\ redo' = << >>
      /\ revision' = revision + 1
      /\ UNCHANGED <<habit, group, disk, ids>>
  BY DEF Redo, ClearStacks
<1>3. /\ r.ok \in BOOLEAN
      /\ Within(r.doc, Clips, Tracks, imported) /\ IsZoned(r.doc)
      /\ r.ok => r.inverse # << >> /\ AreSteps(r.inverse, Clips, Tracks, imported)
      /\ IsStack(Front(redo), Clips, Tracks, imported)
  BY <1>1, TopRuns
<1> HIDE DEF r
<1>4. IsStack(undo', Clips, Tracks, imported) /\ IsStack(redo', Clips, Tracks, imported)
  BY <1>1, <1>2, <1>3, MoreScripts, NoScripts DEF IsStack
<1>5. Clips' = Clips /\ Tracks' = Tracks /\ imported' = imported
  BY <1>2 DEF ids, Clips, Tracks
<1>6. TypeOK'
  BY <1>2, <1>3, <1>4, <1>5 DEF Sound, TypeOK, group, disk, ids, InGroup
<1>7. QED
  BY <1>2, <1>3, <1>6 DEF Sound, LanesZoned

LEMMA BeginGroupKeeps ==
  ASSUME Sound, BeginGroup
  PROVE  Sound'
<1>1. /\ pending' = << >>
      /\ UNCHANGED <<doc, revision, made, habit, session, stacks, disk, ids>>
  BY DEF BeginGroup
<1>2. Clips' = Clips /\ Tracks' = Tracks /\ imported' = imported
  BY <1>1 DEF ids, Clips, Tracks
<1>3. QED
  BY <1>1, <1>2, NoScripts DEF Sound, TypeOK, LanesZoned, stacks, disk, ids

LEMMA ReversedScripts ==
  ASSUME NEW C, NEW T, NEW M, NEW p, IsScripts(p, C, T, M), p # << >>
  PROVE  AreSteps(FlattenSeq(Reverse(p)), C, T, M) /\ FlattenSeq(Reverse(p)) # << >>
<1> DEFINE X == ToSet(p)
           q == Reverse(p)
<1>1. p \in Seq(X) /\ \A s \in X : s # << >> /\ AreSteps(s, C, T, M)
  BY DEF IsScripts
<1> HIDE DEF X
<1>2. /\ Len(p) \in Nat /\ Len(p) # 0 /\ DOMAIN p = 1 .. Len(p)
      /\ \A i \in DOMAIN p : p[i] \in X
  BY <1>1, ListFacts, EmptySeq
<1>3. /\ Len(q) = Len(p) /\ DOMAIN q = 1 .. Len(p)
      /\ \A i \in 1 .. Len(p) : q[i] = p[Len(p) - i + 1] /\ Len(p) - i + 1 \in 1 .. Len(p)
  BY <1>1, ReverseFacts
<1>4. \A i \in 1 .. Len(q) : AreSteps(q[i], C, T, M) /\ q[i] # << >>
  BY <1>1, <1>2, <1>3
<1> HIDE DEF q
<1>5. QED
  BY <1>2, <1>3, <1>4, FlattenSteps DEF q

LEMMA CommitGroupKeeps ==
  ASSUME Sound, CommitGroup
  PROVE  Sound'
<1>1. /\ InGroup /\ pending' = NoGroup
      /\ UNCHANGED <<doc, revision, habit, session, disk, ids>>
  BY DEF CommitGroup, CloseGroup
<1>2. Clips' = Clips /\ Tracks' = Tracks /\ imported' = imported
  BY <1>1 DEF ids, Clips, Tracks
<1>3. /\ IsStack(undo, Clips, Tracks, imported) /\ IsStack(redo, Clips, Tracks, imported)
      /\ IsScripts(pending, Clips, Tracks, imported)
  BY <1>1 DEF Sound, TypeOK
<1>4. IsStack(undo', Clips, Tracks, imported) /\ IsStack(redo', Clips, Tracks, imported)
  <2>1. CASE pending = << >>
    BY <1>3, <2>1 DEF CommitGroup, stacks
  <2>2. CASE pending # << >>
    <3> DEFINE q == FlattenSeq(Reverse(pending))
    <3>1. undo' = Pushed(undo, q) /\ redo' = << >>
      BY <2>2 DEF CommitGroup, Record
    <3>2. q # << >> /\ AreSteps(q, Clips, Tracks, imported)
      BY <1>3, <2>2, ReversedScripts
    <3> HIDE DEF q
    <3>3. IsStack(Pushed(undo, q), Clips, Tracks, imported)
      BY <1>3, <3>2, MoreScripts DEF IsStack
    <3>4. QED
      BY <3>1, <3>3, NoScripts
  <2>3. QED
    BY <2>1, <2>2
<1>5. QED
  BY <1>1, <1>2, <1>4 DEF Sound, TypeOK, LanesZoned, disk, ids, InGroup

LEMMA RollbackGroupKeeps ==
  ASSUME Sound, RollbackGroup
  PROVE  Sound'
<1> DEFINE r == RolledBack(doc, pending)
<1>1. /\ InGroup /\ pending' = NoGroup /\ doc' = r.doc
      /\ revision' = IF pending = << >> THEN revision ELSE revision + 1
      /\ UNCHANGED <<made, habit, session, stacks, disk, ids>>
  BY DEF RollbackGroup, CloseGroup
<1>2. Clips' = Clips /\ Tracks' = Tracks /\ imported' = imported
  BY <1>1 DEF ids, Clips, Tracks
<1>3. /\ Clips \in SUBSET ClipId /\ IsFiniteSet(Clips) /\ Tracks \in SUBSET TrackId
      /\ imported \in SUBSET Media
  BY IdFacts DEF Sound
<1>4. Within(doc, Clips, Tracks, imported) /\ IsZoned(doc)
  BY DEF Sound, TypeOK, LanesZoned
<1> DEFINE X == ToSet(pending)
<1>5. pending \in Seq(X) /\ \A s \in X : AreSteps(s, Clips, Tracks, imported)
  BY <1>1 DEF Sound, TypeOK, IsScripts
<1> HIDE DEF X
<1>6. \A i \in DOMAIN pending : AreSteps(pending[i], Clips, Tracks, imported)
  BY <1>5, ListFacts
<1>7. IsResult(r, doc, Clips, Tracks, imported)
  BY <1>3, <1>4, <1>5, <1>6, RolledBackResult
<1> HIDE DEF r
<1>8. Within(r.doc, Clips, Tracks, imported) /\ IsZoned(r.doc)
  BY <1>4, <1>7 DEF IsResult
<1>9. QED
  BY <1>1, <1>2, <1>8 DEF Sound, TypeOK, LanesZoned, stacks, disk, ids, InGroup

LEMMA SaveKeeps ==
  ASSUME Sound, Save
  PROVE  Sound'
<1>1. /\ file' = doc /\ savedRevision' = revision
      /\ UNCHANGED <<doc, revision, made, habit, session, stacks, group, ids>>
  BY DEF Save
<1>2. Clips' = Clips /\ Tracks' = Tracks /\ imported' = imported
  BY <1>1 DEF ids, Clips, Tracks
<1>3. QED
  BY <1>1, <1>2 DEF Sound, TypeOK, LanesZoned, stacks, group, ids, InGroup

LEMMA ReplacedKeeps ==
  ASSUME Sound, Issued, NEW d, Within(d, Clips', Tracks', imported'), IsZoned(d), Replaced(d)
  PROVE  Sound'
<1>1. /\ doc' = d /\ undo' = << >> /\ redo' = << >> /\ pending' = NoGroup
      /\ revision' = revision + 1 /\ savedRevision' = revision + 1
      /\ UNCHANGED <<habit, made, file>>
  BY DEF Replaced, ClearStacks, CloseGroup
<1>2. file # NoFile => Within(file, Clips', Tracks', imported')
  BY IssuedFacts DEF Sound
<1>3. IsStack(<< >>, Clips', Tracks', imported')
  BY NoScripts
<1>4. revision \in Nat /\ habit \in Habits
  BY DEF Sound, TypeOK
<1>5. QED
  BY <1>1, <1>2, <1>3, <1>4 DEF Sound, TypeOK, LanesZoned, InGroup, Issued

LEMMA WithMainFacts ==
  ASSUME NEW C, NEW T \in SUBSET TrackId, NEW M, NEW d, Within(d, C, T, M),
         NEW t \in T, t \notin Lanes(d)
  PROVE  Within(WithMain(d, t), C, T, M) /\ IsZoned(WithMain(d, t))
<1> DEFINE n == NewTrack("video")
           i == Len(d.order) + 1
           e == InsertTrack(d, t, n, i)
<1>1. IsTrack(n)
  <2>1. IsJunctions(<< >>)
    BY DEF IsJunctions, IsPartial
  <2> DEFINE j == << >>
             k == "video"
  <2>2. k \in Kind
    BY DEF Kind
  <2> HIDE DEF j, k
  <2>3. IsTrack([kind |-> k, main |-> FALSE, junctions |-> j])
    BY <2>1, <2>2 DEF IsTrack, j
  <2>4. QED
    BY <2>3 DEF NewTrack, j, k
<1>2. /\ IsStacked(d) /\ IsClips(d.clips) /\ d.pool \subseteq Media /\ d.pool \subseteq M
      /\ \A c \in Placed(d) : d.clips[c].track \in Lanes(d)
      /\ Lanes(d) \subseteq T /\ Placed(d) \subseteq C
  BY StackedFacts DEF Within
<1>3. i \in Nat \ {0}
  BY <1>2, ListFacts DEF IsStacked
<1> HIDE DEF n, i
<1>4. /\ IsStacked(e) /\ IsZoned(e) /\ Restacked(d, e)
      /\ Lanes(e) = Lanes(d) \cup {t}
  BY <1>1, <1>2, <1>3, InsertTrackFacts
<1> HIDE DEF e
<1>5. Within(e, C, T, M)
  BY <1>2, <1>4, StackedFacts DEF Within, Restacked, Placed
<1>6. QED
  BY <1>4, <1>5 DEF WithMain, e, n, i

LEMMA EmptyDocumentFacts ==
  ASSUME NEW C, NEW T, NEW M
  PROVE  Within(EmptyDocument, C, T, M) /\ Lanes(EmptyDocument) = {}
<1> DEFINE e == << >>
<1>1. DOMAIN e = {} /\ e = [x \in DOMAIN e |-> e[x]] /\ ToSet(e) = {} /\ e \in Seq({})
  BY EmptySeq DEF ToSet
<1>2. EmptyDocument = [order |-> e, tracks |-> e, clips |-> e, pool |-> {}]
  BY DEF EmptyDocument
<1> HIDE DEF e
<1> DEFINE d == [order |-> e, tracks |-> e, clips |-> e, pool |-> {}]
<1>3. /\ d = [order |-> d.order, tracks |-> d.tracks, clips |-> d.clips, pool |-> d.pool]
      /\ d.order = e /\ d.tracks = e /\ d.clips = e /\ d.pool = {}
  OBVIOUS
<1> HIDE DEF d
<1>4. Lanes(d) = {} /\ Placed(d) = {}
  BY <1>1, <1>3 DEF Lanes, Placed
<1>5. IsInjective(e) /\ IsTracks(e) /\ IsClips(e)
  BY <1>1 DEF IsInjective, IsTracks, IsClips, IsPartial
<1>6. IsDocument(d)
  BY <1>1, <1>3, <1>4, <1>5 DEF IsDocument
<1>7. QED
  BY <1>2, <1>3, <1>4, <1>6 DEF Within, d

LEMMA LoadKeeps ==
  ASSUME Sound, Load
  PROVE  Sound'
<1> DEFINE d == NormalizeLanes(file)
<1>1. file # NoFile /\ TypeOK
  BY DEF Load, Sound
<1>2. Within(file, Clips, Tracks, imported)
  BY <1>1 DEF TypeOK
<1>3. \/ Replaced(d) /\ NoFreshId
      \/ Replaced(WithMain(d, nextTrack)) /\ FreshTrack
  BY DEF Load
<1>4. Within(d, Clips, Tracks, imported) /\ IsZoned(d)
  <2>1. /\ IsStacked(file) /\ IsClips(file.clips) /\ file.pool \subseteq Media
        /\ \A c \in Placed(file) : file.clips[c].track \in Lanes(file)
    BY <1>2, StackedFacts DEF Within
  <2>2. IsStacked(d) /\ IsZoned(d) /\ Restacked(file, d) /\ Lanes(d) = Lanes(file)
    BY <2>1, NormalizeFacts
  <2> HIDE DEF d
  <2>3. QED
    BY <1>2, <2>1, <2>2, StackedFacts DEF Within, Restacked, Placed
<1> HIDE DEF d
<1>5. CASE Replaced(d) /\ NoFreshId
  <2>1. Issued /\ Clips' = Clips /\ Tracks' = Tracks /\ imported' = imported
    BY <1>1, <1>5, NoFreshFacts
  <2>2. QED
    BY <1>4, <1>5, <2>1, ReplacedKeeps
<1>6. CASE Replaced(WithMain(d, nextTrack)) /\ FreshTrack
  <2>1. Issued /\ nextTrack \in Tracks' /\ nextTrack \notin Tracks
    BY <1>1, <1>6, FreshTrackFacts
  <2>2. Tracks' \in SUBSET TrackId
    BY <1>1, <2>1, IssuedFacts
  <2>3. Within(d, Clips', Tracks', imported') /\ nextTrack \notin Lanes(d)
    BY <1>4, <2>1, WithinGrows DEF Issued, Within
  <2> DEFINE e == WithMain(d, nextTrack)
  <2>4. Within(e, Clips', Tracks', imported') /\ IsZoned(e)
    BY <2>1, <2>2, <2>3, WithMainFacts
  <2>5. Replaced(e)
    BY <1>6
  <2> HIDE DEF e
  <2>6. QED
    BY <2>1, <2>4, <2>5, ReplacedKeeps
<1>7. QED
  BY <1>3, <1>5, <1>6

LEMMA NewSessionKeeps ==
  ASSUME Sound, NewSession
  PROVE  Sound'
<1> DEFINE d == EmptyDocument
           e == WithMain(d, nextTrack)
<1>1. TypeOK /\ FreshTrack /\ Replaced(e)
  BY DEF NewSession, Sound
<1>2. Issued /\ nextTrack \in Tracks'
  BY <1>1, FreshTrackFacts
<1>3. Tracks' \in SUBSET TrackId
  BY <1>1, <1>2, IssuedFacts
<1>4. Within(d, Clips', Tracks', imported') /\ nextTrack \notin Lanes(d)
  BY EmptyDocumentFacts
<1> HIDE DEF d
<1>5. Within(e, Clips', Tracks', imported') /\ IsZoned(e)
  BY <1>2, <1>3, <1>4, WithMainFacts
<1> HIDE DEF e
<1>6. QED
  BY <1>1, <1>2, <1>5, ReplacedKeeps

-----------------------------------------------------------------------------
(* The invariant *)

LEMMA MaxFacts ==
  ASSUME NEW S \in SUBSET Nat, IsFiniteSet(S)
  PROVE  Max({0} \cup S) \in Nat /\ \A x \in S : x < Max({0} \cup S) + 1
<1> DEFINE X == {0} \cup S
           g == [x \in X |-> -x]
<1>1. X \in SUBSET Nat /\ X # {} /\ IsFiniteSet(X)
  BY FS_AddElement
<1>2. g \in [X -> Int] /\ \A x \in X : g[x] = -x
  BY <1>1
<1> HIDE DEF X, g
<1>3. PICK m \in X : \A y \in X : g[m] <= g[y]
  BY <1>1, <1>2, LeastValue
<1>4. \A y \in X : m >= y
  BY <1>1, <1>2, <1>3
<1>5. \A x \in X : (\A y \in X : x >= y) => x = m
  BY <1>1, <1>4
<1>6. Max(X) = m
  BY <1>4, <1>5 DEF Max
<1>7. m \in Nat /\ \A x \in X : x < m + 1
  BY <1>1, <1>4
<1>8. QED
  BY <1>6, <1>7 DEF X

LEMMA FiniteLanes ==
  ASSUME NEW d, IsStacked(d)
  PROVE  IsFiniteSet(Lanes(d)) /\ Lanes(d) \in SUBSET Nat
<1> DEFINE n == Len(d.order)
           S == 1 .. n
           X == Lanes(d)
<1>1. /\ n \in Nat /\ DOMAIN d.order = S /\ \A i \in S : d.order[i] \in X
      /\ \A x \in X : \E i \in S : x = d.order[i]
  BY ListFacts DEF IsStacked
<1>2. d.order = [i \in S |-> d.order[i]]
  BY ListFacts DEF IsStacked
<1>3. IsFiniteSet(S)
  BY <1>1, FS_Interval
<1> HIDE DEF S, X, n
<1>4. d.order \in Surjection(S, X)
  BY <1>1, <1>2 DEF Surjection
<1>5. IsFiniteSet(X)
  BY <1>3, <1>4, FS_Surjection
<1>6. \A t \in Lanes(d) : t \in TrackId
  BY TrackFacts DEF IsStacked
<1>7. QED
  BY <1>5, <1>6, TimelineAssumption DEF X

LEMMA InitSound ==
  ASSUME Init
  PROVE  Sound
<1>1. /\ habit \in Habits /\ IsDocument(doc) /\ IsFiniteSet(Placed(doc)) /\ IsZoned(doc)
  BY EditorAssumption DEF Init
<1>2. /\ IsStacked(doc) /\ IsClips(doc.clips) /\ doc.pool \subseteq Media
  BY <1>1, StackedFacts
<1>3. Placed(doc) \in SUBSET Nat /\ Placed(doc) \subseteq ClipId
  BY <1>2, TimelineAssumption DEF IsClips, IsPartial, Placed
<1>4. IsFiniteSet(Lanes(doc)) /\ Lanes(doc) \in SUBSET Nat /\ Lanes(doc) \subseteq TrackId
  BY <1>2, FiniteLanes, TrackFacts DEF IsStacked
<1>5. nextClip = Max({0} \cup Placed(doc)) + 1 /\ nextTrack = Max({0} \cup Lanes(doc)) + 1
  BY DEF Init
<1>6. nextClip \in Nat /\ \A c \in Placed(doc) : c < nextClip
  BY <1>1, <1>3, <1>5, MaxFacts
<1>7. nextTrack \in Nat /\ \A t \in Lanes(doc) : t < nextTrack
  BY <1>4, <1>5, MaxFacts
<1>8. Placed(doc) \subseteq Clips /\ Lanes(doc) \subseteq Tracks
  BY <1>3, <1>4, <1>6, <1>7 DEF Clips, Tracks
<1>9. /\ imported = doc.pool /\ file = NoFile /\ undo = << >> /\ redo = << >> /\ ~InGroup
      /\ revision = 0 /\ savedRevision = 0
  BY DEF Init, InGroup
<1>10. Within(doc, Clips, Tracks, imported)
  BY <1>1, <1>8, <1>9 DEF Within
<1>11. TypeOK
  BY <1>1, <1>2, <1>6, <1>7, <1>9, <1>10, NoScripts DEF TypeOK
<1>12. QED
  BY <1>1, <1>11 DEF Sound, LanesZoned

LEMMA StepSound ==
  ASSUME Sound, [Next]_vars
  PROVE  Sound'
<1>1. CASE TrackCommand
  BY <1>1, AddTrackKeeps, RemoveTrackKeeps, MoveTrackKeeps DEF TrackCommand
<1>2. CASE PlacementCommand
  BY <1>2, AddClipKeeps, AddGeneratedKeeps, DuplicateClipKeeps, MoveClipKeeps, RemoveClipKeeps
     DEF PlacementCommand
<1>3. CASE ShapeCommand
  BY <1>3, SplitClipKeeps, TrimClipKeeps, SetClipSpeedKeeps DEF ShapeCommand
<1>4. CASE RippleCommand
  BY <1>4, RippleDeleteKeeps, ShiftClipsKeeps, RippleInsertKeeps DEF RippleCommand
<1>5. CASE TransitionCommand
  BY <1>5, AddTransitionKeeps, RemoveTransitionKeeps, SetTransitionKeeps DEF TransitionCommand
<1>6. CASE MediaCommand
  BY <1>6, RemoveMediaKeeps, ImportKeeps, ImportAgainKeeps DEF MediaCommand
<1>7. CASE Undo \/ Redo
  BY <1>7, UndoKeeps, RedoKeeps
<1>8. CASE BeginGroup \/ CommitGroup \/ RollbackGroup
  BY <1>8, BeginGroupKeeps, CommitGroupKeeps, RollbackGroupKeeps
<1>9. CASE Save \/ Load \/ NewSession
  BY <1>9, SaveKeeps, LoadKeeps, NewSessionKeeps
<1>10. CASE UNCHANGED vars
  BY <1>10 DEF vars, Sound, TypeOK, LanesZoned, stacks, group, disk, ids, InGroup, Clips, Tracks
<1>11. QED
  BY <1>1, <1>2, <1>3, <1>4, <1>5, <1>6, <1>7, <1>8, <1>9, <1>10 DEF Next

(* The type invariant and the lanes together are inductive: an undone, redone  *)
(* or rolled-back document is as sound as an edited one.                       *)
THEOREM SoundHolds == Spec => []Sound
<1>1. Init => Sound
  BY InitSound
<1>2. Sound /\ [Next]_vars => Sound'
  BY StepSound
<1>3. QED
  BY <1>1, <1>2, PTL DEF Spec

(* The document, the file and every recorded inverse are well formed and name   *)
(* only ids that the allocators handed out; the stacks respect the undo limit.  *)
THEOREM TypeCorrect == Spec => []TypeOK
<1>1. Sound => TypeOK
  BY DEF Sound
<1>2. QED
  BY <1>1, SoundHolds, PTL

(* Whatever inserts, removes or moves a lane, or puts one back, the zones of    *)
(* timeline.rs:192-202 hold and the main flag is on one video lane.             *)
THEOREM LanesZonedHolds == Spec => []LanesZoned
<1>1. Sound => LanesZoned
  BY DEF Sound
<1>2. QED
  BY <1>1, SoundHolds, PTL

-----------------------------------------------------------------------------
(* Stacks of scripts that lead back *)

(* The scripts of a stack, newest last, lead from core x down to core z,    *)
(* each from where the one after it ends.                                   *)
Descends(stack, x, z) ==
  \E G : /\ G[Len(stack)] = x /\ G[0] = z
         /\ \A i \in 0 .. Len(stack) : Solid(G[i])
         /\ \A i \in 1 .. Len(stack) : Path(stack[i], G[i], G[i - 1])

Undoable(stack, x) == \E z : Descends(stack, x, z)

LEMMA DescendsNone ==
  ASSUME NEW x, Solid(x)
  PROVE  Descends(<< >>, x, x) /\ Undoable(<< >>, x)
<1> DEFINE G == [i \in 0 .. 0 |-> x]
           q == << >>
<1>1. G[0] = x /\ Len(q) = 0
  OBVIOUS
<1> HIDE DEF G, q
<1>2. /\ G[Len(q)] = x /\ \A i \in 0 .. Len(q) : Solid(G[i])
      /\ \A i \in 1 .. Len(q) : Path(q[i], G[i], G[i - 1])
  BY <1>1
<1>3. Descends(q, x, x)
  BY <1>1, <1>2 DEF Descends
<1>4. QED
  BY <1>3 DEF q, Undoable

LEMMA DescendsPush ==
  ASSUME NEW S, NEW stack \in Seq(S), NEW q \in S, NEW w, NEW x, NEW z,
         Descends(stack, x, z), Path(q, w, x), Solid(w)
  PROVE  Descends(Append(stack, q), w, z)
<1> DEFINE n == Len(stack)
           a == Append(stack, q)
<1>1. n \in Nat /\ Len(a) = n + 1 /\ a[n + 1] = q /\ \A i \in 1 .. n : a[i] = stack[i]
  OBVIOUS
<1>2. PICK G : /\ G[n] = x /\ G[0] = z /\ (\A i \in 0 .. n : Solid(G[i]))
               /\ \A i \in 1 .. n : Path(stack[i], G[i], G[i - 1])
  BY DEF Descends
<1> DEFINE H == [i \in 0 .. n + 1 |-> IF i <= n THEN G[i] ELSE w]
<1>3. H[n + 1] = w /\ \A i \in 0 .. n : H[i] = G[i]
  BY <1>1
<1> HIDE DEF n, a, H
<1>4. H[Len(a)] = w /\ H[0] = z
  BY <1>1, <1>2, <1>3
<1>5. ASSUME NEW i \in 0 .. Len(a) PROVE Solid(H[i])
  <2>1. i = n + 1 \/ i \in 0 .. n
    BY <1>1
  <2>2. QED
    BY <1>2, <1>3, <2>1
<1>6. ASSUME NEW i \in 1 .. Len(a) PROVE Path(a[i], H[i], H[i - 1])
  <2>1. CASE i = n + 1
    <3>1. i - 1 = n /\ n \in 0 .. n
      BY <1>1, <2>1
    <3>2. QED
      BY <1>1, <1>2, <1>3, <2>1, <3>1
  <2>2. CASE i # n + 1
    <3>1. i \in 1 .. n /\ i \in 0 .. n /\ i - 1 \in 0 .. n
      BY <1>1, <2>2
    <3>2. QED
      BY <1>1, <1>2, <1>3, <3>1
  <2>3. QED
    BY <2>1, <2>2
<1>7. Descends(a, w, z)
  BY <1>4, <1>5, <1>6 DEF Descends
<1>8. QED
  BY <1>7 DEF a

LEMMA DescendsCat ==
  ASSUME NEW S, NEW p \in Seq(S), NEW q \in Seq(S), NEW x, NEW y, NEW z,
         Descends(p, y, z), Descends(q, x, y)
  PROVE  Descends(p \o q, x, z)
<1> DEFINE r == p \o q
           m == Len(p)
           n == Len(q)
<1>1. /\ m \in Nat /\ n \in Nat /\ Len(r) = m + n
      /\ \A i \in 1 .. m : r[i] = p[i]
      /\ \A i \in 1 .. n : r[m + i] = q[i]
  BY GluedAt
<1>2. PICK A : /\ A[m] = y /\ A[0] = z /\ (\A i \in 0 .. m : Solid(A[i]))
               /\ \A i \in 1 .. m : Path(p[i], A[i], A[i - 1])
  BY DEF Descends
<1>3. PICK B : /\ B[n] = x /\ B[0] = y /\ (\A i \in 0 .. n : Solid(B[i]))
               /\ \A i \in 1 .. n : Path(q[i], B[i], B[i - 1])
  BY DEF Descends
<1> DEFINE D == [i \in 0 .. m + n |-> IF i <= m THEN A[i] ELSE B[i - m]]
<1>4. /\ \A i \in 0 .. m : D[i] = A[i]
      /\ \A i \in 0 .. n : D[m + i] = B[i]
  <2>1. ASSUME NEW i \in 0 .. n PROVE D[m + i] = B[i]
    <3>1. CASE i = 0
      BY <1>1, <1>2, <1>3, <3>1
    <3>2. CASE i # 0
      BY <1>1, <3>2
    <3>3. QED
      BY <3>1, <3>2
  <2>2. ASSUME NEW i \in 0 .. m PROVE D[i] = A[i]
    BY <1>1
  <2>3. QED
    BY <2>1, <2>2
<1> HIDE DEF D, r, m, n
<1>5. D[0] = z /\ D[Len(r)] = x
  BY <1>1, <1>2, <1>3, <1>4
<1>6. ASSUME NEW i \in 0 .. Len(r) PROVE Solid(D[i])
  <2>1. CASE i <= m
    BY <1>1, <1>2, <1>4, <2>1
  <2>2. CASE ~(i <= m)
    <3> DEFINE j == i - m
    <3>1. j \in 0 .. n /\ m + j = i
      BY <1>1, <2>2
    <3> HIDE DEF j
    <3>2. QED
      BY <1>3, <1>4, <3>1
  <2>3. QED
    BY <2>1, <2>2
<1>7. ASSUME NEW i \in 1 .. Len(r) PROVE Path(r[i], D[i], D[i - 1])
  <2>1. CASE i <= m
    <3>1. i \in 1 .. m /\ i \in 0 .. m /\ i - 1 \in 0 .. m
      BY <1>1, <2>1
    <3>2. QED
      BY <1>1, <1>2, <1>4, <3>1
  <2>2. CASE ~(i <= m)
    <3> DEFINE j == i - m
    <3>1. j \in 1 .. n /\ j \in 0 .. n /\ j - 1 \in 0 .. n /\ m + j = i /\ m + (j - 1) = i - 1
      BY <1>1, <2>2
    <3> HIDE DEF j
    <3>2. r[i] = q[j] /\ D[i] = B[j] /\ D[i - 1] = B[j - 1]
      BY <1>1, <1>4, <3>1
    <3>3. QED
      BY <1>3, <3>1, <3>2
  <2>3. QED
    BY <2>1, <2>2
<1>8. Descends(r, x, z)
  BY <1>5, <1>6, <1>7 DEF Descends
<1>9. QED
  BY <1>8 DEF r

(* The scripts of a stack read from the newest down, as one path.           *)
LEMMA FlatPath ==
  ASSUME NEW C, NEW T, NEW M, NEW X, NEW stack \in Seq(X), stack # << >>,
         \A i \in DOMAIN stack : AreSteps(stack[i], C, T, M) /\ stack[i] # << >>,
         NEW x, NEW z, Descends(stack, x, z)
  PROVE  /\ Path(FlattenSeq(Reverse(stack)), x, z)
         /\ AreSteps(FlattenSeq(Reverse(stack)), C, T, M) /\ FlattenSeq(Reverse(stack)) # << >>
<1> DEFINE q == Reverse(stack)
           N == Len(stack)
<1>1. N \in Nat \ {0} /\ DOMAIN stack = 1 .. N
  BY ListFacts, EmptySeq
<1>2. /\ Len(q) = N /\ DOMAIN q = 1 .. N
      /\ \A i \in 1 .. N : q[i] = stack[N - i + 1] /\ N - i + 1 \in 1 .. N
  BY ReverseFacts
<1>3. PICK G : /\ G[N] = x /\ G[0] = z
               /\ \A i \in 1 .. N : Path(stack[i], G[i], G[i - 1])
  BY DEF Descends
<1> HIDE DEF q, N
<1>4. \A i \in 1 .. N : AreSteps(q[i], C, T, M) /\ q[i] # << >>
  BY <1>1, <1>2
<1>5. PICK F : /\ F[1] = q[1]
               /\ \A i \in 2 .. N : F[i] = F[i - 1] \o q[i]
               /\ FlattenSeq(q) = F[N]
  BY <1>1, <1>2, FlattenFolds
<1>6. \A i \in 1 .. N : Path(q[i], G[N - (i - 1)], G[N - i])
  <2>1. ASSUME NEW i \in 1 .. N PROVE Path(q[i], G[N - (i - 1)], G[N - i])
    <3> DEFINE j == N - i + 1
    <3>1. j \in 1 .. N /\ q[i] = stack[j] /\ N - (i - 1) = j /\ N - i = j - 1
      BY <1>1, <1>2
    <3> HIDE DEF j
    <3>2. QED
      BY <1>3, <3>1
  <2>2. QED
    BY <2>1
<1> DEFINE B == {i \in 0 .. N : i > 0 => AreSteps(F[i], C, T, M) /\ Path(F[i], x, G[N - i])}
<1>7. 0 \in B
  BY <1>1
<1>8. ASSUME NEW i \in 1 .. N, i - 1 \in B PROVE i \in B
  <2>0. /\ AreSteps(q[i], C, T, M) /\ i \in 0 .. N
        /\ Path(q[i], G[N - (i - 1)], G[N - i])
    BY <1>1, <1>4, <1>6
  <2>1. CASE i = 1
    <3>1. G[N - (i - 1)] = x
      BY <1>1, <1>3, <2>1
    <3>2. QED
      BY <1>5, <2>0, <2>1, <3>1
  <2>2. CASE i # 1
    <3>1. i - 1 > 0 /\ i \in 2 .. N
      BY <1>1, <2>2
    <3>2. AreSteps(F[i - 1], C, T, M) /\ Path(F[i - 1], x, G[N - (i - 1)]) /\ F[i] = F[i - 1] \o q[i]
      BY <1>5, <1>8, <3>1
    <3>3. Path(F[i], x, G[N - i])
      BY <2>0, <3>2, PathSteps
    <3>4. AreSteps(F[i], C, T, M)
      BY <2>0, <3>2, MoreSteps
    <3>5. QED
      BY <2>0, <3>3, <3>4
  <2>3. QED
    BY <2>1, <2>2
<1>9. N \in B
  <2> HIDE DEF B
  <2>1. 0 .. N \subseteq B
    BY <1>1, <1>7, <1>8, Climb
  <2>2. QED
    BY <2>1, <1>1
<1>10. Path(F[N], x, z)
  <2>1. N - N = 0 /\ N > 0
    BY <1>1
  <2>2. QED
    BY <1>3, <1>9, <2>1
<1>11. AreSteps(FlattenSeq(q), C, T, M) /\ FlattenSeq(q) # << >>
  BY <1>1, <1>2, <1>4, FlattenSteps
<1>12. QED
  BY <1>5, <1>10, <1>11 DEF q

(* Rolling the scripts of a stack back from its top arrives at its foot.    *)
LEMMA RollsAlong ==
  ASSUME NEW C \in SUBSET ClipId, IsFiniteSet(C), NEW T \in SUBSET TrackId,
         NEW M \in SUBSET Media, NEW d, Within(d, C, T, M), NEW X, NEW scripts \in Seq(X),
         \A i \in DOMAIN scripts : AreSteps(scripts[i], C, T, M),
         NEW z, Descends(scripts, Core(d), z)
  PROVE  RolledBack(d, scripts).ok /\ Core(RolledBack(d, scripts).doc) = z
<1> DEFINE q == Reverse(scripts)
           N == Len(scripts)
<1>1. N \in Nat /\ DOMAIN scripts = 1 .. N
  BY ListFacts
<1>2. /\ Len(q) = N /\ DOMAIN q = 1 .. N
      /\ \A i \in 1 .. N : q[i] = scripts[N - i + 1] /\ N - i + 1 \in 1 .. N
  BY ReverseFacts
<1>3. PICK G : /\ G[N] = Core(d) /\ G[0] = z /\ (\A i \in 0 .. N : Solid(G[i]))
               /\ \A i \in 1 .. N : Path(scripts[i], G[i], G[i - 1])
  BY DEF Descends
<1>4. RolledBack(d, scripts) = RolledThrough(d, q)
  BY RolledReverse
<1> HIDE DEF q, N
<1>5. PICK F : /\ F[0] = Accepted(d, << >>)
               /\ \A i \in 1 .. N : F[i] = Back(F[i - 1], q[i])
               /\ RolledThrough(d, q) = F[N]
  <2>1. DOMAIN q = 1 .. Len(q) /\ Len(q) \in Nat
    BY <1>1, <1>2
  <2>2. \E F : /\ F[0] = Accepted(d, << >>)
               /\ \A i \in 1 .. Len(q) : F[i] = Back(F[i - 1], q[i])
               /\ RolledThrough(d, q) = F[Len(q)]
    BY <2>1, RollFolds
  <2>3. QED
    BY <1>2, <2>2
<1> DEFINE B == {i \in 0 .. N : F[i].ok /\ Within(F[i].doc, C, T, M) /\ Core(F[i].doc) = G[N - i]}
<1>6. 0 \in B
  <2>1. F[0].ok /\ F[0].doc = d
    BY <1>5 DEF Accepted
  <2>2. 0 \in 0 .. N /\ N - 0 = N
    BY <1>1
  <2>3. QED
    BY <1>3, <2>1, <2>2
<1>7. ASSUME NEW i \in 1 .. N, i - 1 \in B PROVE i \in B
  <2> DEFINE p == F[i - 1]
             s == q[i]
             j == N - i + 1
             r == Run(p.doc, s)
  <2>1. j \in 1 .. N /\ s = scripts[j] /\ N - (i - 1) = j /\ N - i = j - 1 /\ j - 1 \in 0 .. N /\ i \in 0 .. N
    BY <1>1, <1>2
  <2>2. p.ok /\ Within(p.doc, C, T, M) /\ Core(p.doc) = G[j]
    BY <1>7, <2>1
  <2>3. F[i] = r
    BY <1>5, <2>2 DEF Back
  <2> HIDE DEF p, s, j
  <2>4. AreSteps(s, C, T, M) /\ Path(s, G[j], G[j - 1]) /\ Solid(G[j - 1])
    BY <1>1, <1>3, <2>1
  <2>5. IsResult(r, p.doc, C, T, M) /\ r.ok /\ Core(r.doc) = G[j - 1]
    <3>1. Within(p.doc, C, T, M) /\ AreSteps(s, C, T, M)
      BY <2>2, <2>4
    <3>2. Path(s, Core(p.doc), G[j - 1]) /\ Solid(G[j - 1])
      BY <2>2, <2>4
    <3>3. QED
      BY <3>1, <3>2, RunAlong
  <2> HIDE DEF r
  <2>6. QED
    BY <2>1, <2>3, <2>5 DEF IsResult
<1>8. N \in B
  <2> HIDE DEF B
  <2>1. 0 .. N \subseteq B
    BY <1>1, <1>6, <1>7, Climb
  <2>2. QED
    BY <2>1, <1>1
<1>9. N - N = 0
  BY <1>1
<1>10. QED
  BY <1>3, <1>4, <1>5, <1>8, <1>9

-----------------------------------------------------------------------------
(* Stacks that lead back through earlier documents *)

(* A generated clip names no medium, and NoGroup, where the code has None,  *)
(* is no list of scripts.                                                   *)
Distinct == Media \cap Generated = {} /\ \A S : NoGroup \notin Seq(S)

(* The core on which the i-th script of a stack was put, and to which the   *)
(* ones above it lead back, if the whole stack is on a document with core x *)
(* and docs are the documents its scripts were recorded on.                 *)
After(docs, x, i) == IF i = Len(docs) THEN x ELSE Core(docs[i + 1])

(* From core x each script of the stack leads back to the document it was   *)
(* recorded on.                                                             *)
Recalls(stack, docs, x) ==
  /\ docs \in Seq(ToSet(docs)) /\ Len(docs) = Len(stack)
  /\ Solid(x)
  /\ \A i \in 1 .. Len(stack) : Solid(Core(docs[i])) /\ Path(stack[i], After(docs, x, i), Core(docs[i]))

LEMMA OwnElements ==
  ASSUME NEW X, NEW q \in Seq(X)
  PROVE  q \in Seq(ToSet(q))
<1> DEFINE Y == ToSet(q)
<1>1. Len(q) \in Nat /\ q \in [1 .. Len(q) -> X] /\ \A i \in 1 .. Len(q) : q[i] \in Y
  BY LenProperties, ListFacts
<1> HIDE DEF Y
<1>2. q \in [1 .. Len(q) -> Y]
  BY <1>1
<1>3. q \in Seq(Y)
  BY <1>1, <1>2, SeqDef
<1>4. QED
  BY <1>3 DEF Y

LEMMA RecallsNone ==
  ASSUME NEW x, Solid(x)
  PROVE  Recalls(<< >>, << >>, x)
<1> DEFINE q == << >>
<1>1. q \in Seq(ToSet(q)) /\ Len(q) = 0
  BY EmptySeq
<1> HIDE DEF q
<1>2. Recalls(q, q, x)
  BY <1>1 DEF Recalls
<1>3. QED
  BY <1>2 DEF q

LEMMA RecallsPush ==
  ASSUME NEW S, NEW stack \in Seq(S), NEW q \in S, NEW docs, NEW d, NEW w,
         Recalls(stack, docs, Core(d)), Path(q, w, Core(d)), Solid(w)
  PROVE  Recalls(Append(stack, q), Append(docs, d), w)
<1> DEFINE n == Len(stack)
           a == Append(stack, q)
           b == Append(docs, d)
           X == ToSet(docs) \cup {d}
           x == Core(d)
<1>1. n \in Nat /\ Len(a) = n + 1 /\ a[n + 1] = q /\ \A i \in 1 .. n : a[i] = stack[i]
  OBVIOUS
<1>2. /\ docs \in Seq(ToSet(docs)) /\ Len(docs) = n /\ Solid(x)
      /\ \A i \in 1 .. n : Solid(Core(docs[i])) /\ Path(stack[i], After(docs, x, i), Core(docs[i]))
  BY DEF Recalls
<1>3. docs \in Seq(X) /\ d \in X
  BY <1>2, SeqMonotonic
<1> HIDE DEF X
<1>4. b \in Seq(X) /\ Len(b) = n + 1 /\ b[n + 1] = d /\ \A i \in 1 .. n : b[i] = docs[i]
  BY <1>2, <1>3, AppendProperties
<1> HIDE DEF n, a, b
<1>5. b \in Seq(ToSet(b))
  BY <1>4, OwnElements
<1>6. ASSUME NEW i \in 1 .. n + 1
      PROVE  Solid(Core(b[i])) /\ Path(a[i], After(b, w, i), Core(b[i]))
  <2>1. CASE i = n + 1
    <3>1. After(b, w, i) = w /\ a[i] = q /\ b[i] = d
      BY <1>1, <1>4, <2>1 DEF After
    <3>2. QED
      BY <1>2, <3>1
  <2>2. CASE i # n + 1
    <3>1. i \in 1 .. n /\ i # Len(b)
      BY <1>1, <1>4, <2>2
    <3>2. After(b, w, i) = After(docs, x, i)
      <4>1. CASE i = n
        BY <1>2, <1>4, <3>1, <4>1 DEF After
      <4>2. CASE i # n
        <5>1. i + 1 \in 1 .. n
          BY <1>1, <3>1, <4>2
        <5>2. QED
          BY <1>2, <1>4, <3>1, <4>2, <5>1 DEF After
      <4>3. QED
        BY <4>1, <4>2
    <3>3. QED
      BY <1>1, <1>2, <1>4, <3>1, <3>2
  <2>3. QED
    BY <2>1, <2>2
<1>7. Recalls(a, b, w)
  BY <1>1, <1>4, <1>5, <1>6 DEF Recalls
<1>8. QED
  BY <1>7 DEF a, b

LEMMA RecallsTail ==
  ASSUME NEW S, NEW stack \in Seq(S), stack # << >>, NEW docs, NEW x, Recalls(stack, docs, x)
  PROVE  Recalls(Tail(stack), Tail(docs), x)
<1> DEFINE n == Len(stack)
           a == Tail(stack)
           b == Tail(docs)
<1>1. n \in Nat /\ n > 0 /\ Len(a) = n - 1 /\ \A i \in 1 .. n - 1 : a[i] = stack[i + 1]
  OBVIOUS
<1>2. /\ docs \in Seq(ToSet(docs)) /\ Len(docs) = n /\ Solid(x)
      /\ \A i \in 1 .. n : Solid(Core(docs[i])) /\ Path(stack[i], After(docs, x, i), Core(docs[i]))
  BY DEF Recalls
<1>3. docs # << >>
  BY <1>1, <1>2, EmptySeq
<1>4. b \in Seq(ToSet(docs)) /\ Len(b) = n - 1 /\ \A i \in 1 .. n - 1 : b[i] = docs[i + 1]
  BY <1>1, <1>2, <1>3
<1> HIDE DEF n, a, b
<1>5. b \in Seq(ToSet(b))
  BY <1>4, OwnElements
<1>6. ASSUME NEW i \in 1 .. n - 1
      PROVE  Solid(Core(b[i])) /\ Path(a[i], After(b, x, i), Core(b[i]))
  <2> DEFINE j == i + 1
  <2>1. j \in 1 .. n /\ a[i] = stack[j] /\ b[i] = docs[j]
    BY <1>1, <1>4
  <2>2. After(b, x, i) = After(docs, x, j)
    <3>1. CASE i = n - 1
      BY <1>1, <1>2, <1>4, <3>1 DEF After
    <3>2. CASE i # n - 1
      <4>1. i + 1 \in 1 .. n - 1 /\ j # n
        BY <1>1, <3>2
      <4>2. b[i + 1] = docs[j + 1]
        BY <1>4, <4>1
      <4>3. QED
        BY <1>2, <1>4, <3>2, <4>1, <4>2 DEF After
    <3>3. QED
      BY <3>1, <3>2
  <2> HIDE DEF j
  <2>3. QED
    BY <1>2, <2>1, <2>2
<1>7. Recalls(a, b, x)
  BY <1>1, <1>2, <1>4, <1>5, <1>6 DEF Recalls
<1>8. QED
  BY <1>7 DEF a, b

LEMMA FrontFacts ==
  ASSUME NEW S, NEW q \in Seq(S), q # << >>
  PROVE  /\ Len(q) \in Nat /\ Len(q) > 0 /\ Last(q) = q[Len(q)] /\ Last(q) \in S
         /\ Front(q) \in Seq(S) /\ Len(Front(q)) = Len(q) - 1
         /\ \A i \in 1 .. Len(q) - 1 : Front(q)[i] = q[i]
<1> DEFINE n == Len(q)
           f == SubSeq(q, 1, n - 1)
<1>1. n \in Nat /\ n > 0
  BY EmptySeq
<1>2. 1 \in Int /\ n - 1 \in Int /\ \A i \in 1 .. n - 1 : q[i] \in S
  BY <1>1, ListFacts
<1>3. /\ f \in Seq(S) /\ Len(f) = IF 1 <= n - 1 THEN (n - 1) - 1 + 1 ELSE 0
      /\ \A i \in 1 .. (n - 1) - 1 + 1 : f[i] = q[1 + i - 1]
  BY <1>2, SubSeqProperties
<1>4. Front(q) = f
  BY DEF Front
<1>5. Last(q) = q[n]
  BY DEF Last
<1>6. n \in DOMAIN q
  BY <1>1, ListFacts
<1>7. q[n] \in S
  BY <1>6, ListFacts
<1> HIDE DEF f, n
<1>8. \A i \in 1 .. n - 1 : 1 + i - 1 = i
  BY <1>1
<1>9. Len(f) = n - 1 /\ \A i \in 1 .. n - 1 : f[i] = q[i]
  BY <1>1, <1>3, <1>8
<1>10. QED
  BY <1>1, <1>3, <1>4, <1>5, <1>7, <1>9 DEF n

LEMMA RecallsFront ==
  ASSUME NEW S, NEW stack \in Seq(S), stack # << >>, NEW docs, NEW x, Recalls(stack, docs, x)
  PROVE  /\ docs # << >>
         /\ Path(Last(stack), x, Core(Last(docs)))
         /\ Recalls(Front(stack), Front(docs), Core(Last(docs)))
<1> DEFINE n == Len(stack)
           a == Front(stack)
           b == Front(docs)
           d == Last(docs)
<1>1. n \in Nat /\ n > 0 /\ Last(stack) = stack[n] /\ Len(a) = n - 1 /\ \A i \in 1 .. n - 1 : a[i] = stack[i]
  BY FrontFacts
<1>2. /\ docs \in Seq(ToSet(docs)) /\ Len(docs) = n /\ Solid(x)
      /\ \A i \in 1 .. n : Solid(Core(docs[i])) /\ Path(stack[i], After(docs, x, i), Core(docs[i]))
  BY DEF Recalls
<1>3. docs # << >>
  BY <1>1, <1>2, EmptySeq
<1>4. d = docs[n] /\ b \in Seq(ToSet(docs)) /\ Len(b) = n - 1 /\ \A i \in 1 .. n - 1 : b[i] = docs[i]
  BY <1>2, <1>3, FrontFacts
<1> HIDE DEF n, a, b, d
<1>5. b \in Seq(ToSet(b))
  BY <1>4, OwnElements
<1>6. n \in 1 .. n
  BY <1>1
<1>7. Path(Last(stack), x, Core(d)) /\ Solid(Core(d))
  BY <1>1, <1>2, <1>4, <1>6 DEF After
<1>8. ASSUME NEW i \in 1 .. n - 1
      PROVE  Solid(Core(b[i])) /\ Path(a[i], After(b, Core(d), i), Core(b[i]))
  <2>1. i \in 1 .. n /\ i # n /\ a[i] = stack[i] /\ b[i] = docs[i]
    BY <1>1, <1>4
  <2>2. After(b, Core(d), i) = After(docs, x, i)
    <3>1. CASE i = n - 1
      BY <1>1, <1>2, <1>4, <3>1 DEF After
    <3>2. CASE i # n - 1
      <4>1. i + 1 \in 1 .. n - 1
        BY <1>1, <3>2
      <4>2. QED
        BY <1>2, <1>4, <2>1, <3>2, <4>1 DEF After
    <3>3. QED
      BY <3>1, <3>2
  <2>3. QED
    BY <1>2, <2>1, <2>2
<1>9. Recalls(a, b, Core(d))
  BY <1>1, <1>4, <1>5, <1>7, <1>8 DEF Recalls
<1>10. QED
  BY <1>3, <1>7, <1>9 DEF a, b, d

(* The stack a new entry is pushed onto may lose its oldest one.            *)
LEMMA RecallsPushed ==
  ASSUME NEW S, NEW stack \in Seq(S), NEW q \in S, NEW docs, NEW d, NEW w,
         Recalls(stack, docs, Core(d)), Path(q, w, Core(d)), Solid(w)
  PROVE  Recalls(Pushed(stack, q), Pushed(docs, d), w)
<1>1. Len(docs) = Len(stack)
  BY DEF Recalls
<1>2. CASE Len(stack) >= Limit
  <2>1. stack # << >>
    BY <1>2, LimitFacts
  <2> DEFINE a == Tail(stack)
             b == Tail(docs)
  <2>2. a \in Seq(S)
    BY <2>1
  <2>3. Recalls(a, b, Core(d))
    BY <2>1, RecallsTail
  <2>4. Pushed(stack, q) = Append(a, q) /\ Pushed(docs, d) = Append(b, d)
    BY <1>1, <1>2 DEF Pushed
  <2> HIDE DEF a, b
  <2>5. Recalls(Append(a, q), Append(b, d), w)
    BY <2>2, <2>3, RecallsPush
  <2>6. QED
    BY <2>4, <2>5
<1>3. CASE ~(Len(stack) >= Limit)
  <2>1. Pushed(stack, q) = Append(stack, q) /\ Pushed(docs, d) = Append(docs, d)
    BY <1>1, <1>3 DEF Pushed
  <2>2. Recalls(Append(stack, q), Append(docs, d), w)
    BY RecallsPush
  <2>3. QED
    BY <2>1, <2>2
<1>4. QED
  BY <1>2, <1>3

LEMMA RecallsUndoable ==
  ASSUME NEW S, NEW stack \in Seq(S), NEW docs, NEW x, Recalls(stack, docs, x)
  PROVE  Undoable(stack, x)
<1> DEFINE n == Len(stack)
           G == [i \in 0 .. n |-> After(docs, x, i)]
<1>1. n \in Nat
  BY LenProperties
<1>2. /\ Len(docs) = n /\ Solid(x)
      /\ \A i \in 1 .. n : Solid(Core(docs[i])) /\ Path(stack[i], After(docs, x, i), Core(docs[i]))
  BY DEF Recalls
<1>3. \A i \in 0 .. n : G[i] = After(docs, x, i)
  OBVIOUS
<1> HIDE DEF G, n
<1>4. G[n] = x
  BY <1>1, <1>2, <1>3 DEF After
<1>5. \A i \in 1 .. n : i \in 0 .. n /\ i - 1 \in 0 .. n /\ G[i - 1] = Core(docs[i])
  BY <1>1, <1>2, <1>3 DEF After
<1>6. ASSUME NEW i \in 0 .. n PROVE Solid(G[i])
  <2>1. CASE i = n
    BY <1>2, <1>4, <2>1
  <2>2. CASE i # n
    <3>1. i + 1 \in 1 .. n /\ (i + 1) - 1 = i
      BY <1>1, <2>2
    <3>2. QED
      BY <1>2, <1>5, <3>1
  <2>3. QED
    BY <2>1, <2>2
<1>7. \A i \in 1 .. n : Path(stack[i], G[i], G[i - 1])
  BY <1>2, <1>3, <1>5
<1>8. Descends(stack, x, G[0])
  BY <1>4, <1>6, <1>7 DEF Descends, n
<1>9. QED
  BY <1>8 DEF Undoable

-----------------------------------------------------------------------------
(* The history of cores *)

(* Where the open group began, or would begin.                              *)
Base == IF InGroup THEN before ELSE doc

Cores(docs) == [i \in 1 .. Len(docs) |-> Core(docs[i])]

(* UndoHistory again, of cores instead of whole documents.                  *)
CoreHistory == INSTANCE UndoHistory WITH
  doc <- Core(doc), base <- Core(Base), past <- Cores(past), future <- Cores(future)

LEMMA CoresFacts ==
  ASSUME NEW X, NEW docs \in Seq(X)
  PROVE  LET Y == {Core(d) : d \in X} IN
         /\ Cores(docs) \in Seq(Y) /\ Len(Cores(docs)) = Len(docs)
         /\ \A i \in 1 .. Len(docs) : Cores(docs)[i] = Core(docs[i])
<1> DEFINE Y == {Core(d) : d \in X}
           n == Len(docs)
           f == [i \in 1 .. n |-> Core(docs[i])]
<1>1. n \in Nat /\ \A i \in 1 .. n : docs[i] \in X
  BY ListFacts
<1>2. \A i \in 1 .. n : Core(docs[i]) \in Y
  BY <1>1
<1> HIDE DEF Y, n
<1>3. f \in [1 .. n -> Y]
  BY <1>2
<1>4. f \in Seq(Y)
  BY <1>1, <1>3, SeqDef
<1>5. DOMAIN f = 1 .. n /\ \A i \in 1 .. n : f[i] = Core(docs[i])
  OBVIOUS
<1>6. Cores(docs) = f
  BY DEF Cores, n
<1> HIDE DEF f
<1>7. Len(f) = n
  BY <1>1, <1>4, <1>5, LenProperties
<1>8. QED
  BY <1>4, <1>5, <1>6, <1>7 DEF Y, n

LEMMA CoresPushed ==
  ASSUME NEW docs, docs \in Seq(ToSet(docs)), NEW d
  PROVE  Cores(Pushed(docs, d)) = CoreHistory!Pushed(Cores(docs), Core(d))
<1> DEFINE X == ToSet(docs) \cup {d}
           Y == {Core(k) : k \in X}
           l == IF Len(docs) >= Limit THEN Tail(docs) ELSE docs
           k == IF Len(Cores(docs)) < Limit THEN Cores(docs) ELSE Tail(Cores(docs))
<1>1. docs \in Seq(X) /\ d \in X
  BY SeqMonotonic
<1>2. Core(d) \in Y
  BY <1>1
<1> HIDE DEF X
<1>3. /\ Cores(docs) \in Seq(Y) /\ Len(Cores(docs)) = Len(docs)
      /\ \A i \in 1 .. Len(docs) : Cores(docs)[i] = Core(docs[i])
  BY <1>1, CoresFacts
<1> HIDE DEF Y
<1>4. Limit \in Nat /\ Limit > 0 /\ Len(docs) \in Nat
  BY <1>1, LimitFacts, LenProperties
<1>5. /\ l \in Seq(X) /\ k \in Seq(Y) /\ Len(l) = Len(k) /\ Len(l) \in Nat
      /\ \A i \in 1 .. Len(l) : k[i] = Core(l[i])
  <2>1. CASE Len(docs) >= Limit
    <3>1. docs # << >> /\ Cores(docs) # << >>
      BY <1>3, <1>4, <2>1, EmptySeq
    <3>2. /\ Tail(docs) \in Seq(X) /\ Len(Tail(docs)) = Len(docs) - 1
          /\ \A i \in 1 .. Len(docs) - 1 : Tail(docs)[i] = docs[i + 1]
      BY <1>1, <3>1
    <3>3. /\ Tail(Cores(docs)) \in Seq(Y) /\ Len(Tail(Cores(docs))) = Len(docs) - 1
          /\ \A i \in 1 .. Len(docs) - 1 : Tail(Cores(docs))[i] = Cores(docs)[i + 1]
      BY <1>3, <3>1
    <3>4. l = Tail(docs) /\ k = Tail(Cores(docs))
      BY <1>3, <1>4, <2>1
    <3> HIDE DEF l, k
    <3>5. \A i \in 1 .. Len(docs) - 1 : k[i] = Core(l[i])
      <4> TAKE i \in 1 .. Len(docs) - 1
      <4>1. i + 1 \in 1 .. Len(docs)
        BY <1>4
      <4>2. QED
        BY <1>3, <3>2, <3>3, <3>4, <4>1
    <3>6. QED
      BY <1>4, <2>1, <3>2, <3>3, <3>4, <3>5
  <2>2. CASE ~(Len(docs) >= Limit)
    BY <1>1, <1>3, <1>4, <2>2
  <2>3. QED
    BY <2>1, <2>2
<1>6. Pushed(docs, d) = Append(l, d)
  BY DEF Pushed
<1>7. CoreHistory!Pushed(Cores(docs), Core(d)) = Append(k, Core(d))
  BY DEF CoreHistory!Pushed
<1> HIDE DEF l, k
<1> DEFINE a == Append(l, d)
           b == Append(k, Core(d))
<1>8. a \in Seq(X) /\ Len(a) = Len(l) + 1 /\ a[Len(l) + 1] = d /\ \A i \in 1 .. Len(l) : a[i] = l[i]
  BY <1>1, <1>5, AppendProperties
<1>9. /\ b \in Seq(Y) /\ Len(b) = Len(l) + 1 /\ b[Len(l) + 1] = Core(d)
      /\ \A i \in 1 .. Len(l) : b[i] = k[i]
  BY <1>2, <1>5, AppendProperties
<1> HIDE DEF a, b
<1>10. /\ Cores(a) \in Seq({Core(x) : x \in X}) /\ Len(Cores(a)) = Len(a)
       /\ \A i \in 1 .. Len(a) : Cores(a)[i] = Core(a[i])
  BY <1>8, CoresFacts
<1>11. \A i \in 1 .. Len(a) : Cores(a)[i] = b[i]
  <2> TAKE i \in 1 .. Len(a)
  <2>1. i = Len(l) + 1 \/ i \in 1 .. Len(l)
    BY <1>5, <1>8
  <2>2. QED
    BY <1>5, <1>8, <1>9, <1>10, <2>1
<1>12. Cores(a) = b
  <2>1. Cores(a) \in Seq(Y)
    BY <1>10 DEF Y
  <2>2. Len(Cores(a)) = Len(b)
    BY <1>8, <1>9, <1>10
  <2>3. QED
    BY <1>8, <1>9, <1>10, <1>11, <2>1, <2>2, SeqEqual
<1>13. QED
  BY <1>6, <1>7, <1>12 DEF a, b

LEMMA CoresFront ==
  ASSUME NEW docs, docs \in Seq(ToSet(docs)), docs # << >>
  PROVE  /\ Cores(docs) # << >>
         /\ CoreHistory!Last(Cores(docs)) = Core(Last(docs))
         /\ Cores(Front(docs)) = CoreHistory!Front(Cores(docs))
<1> DEFINE X == ToSet(docs)
           Y == {Core(k) : k \in X}
           n == Len(docs)
           c == Cores(docs)
           f == Front(docs)
           g == SubSeq(c, 1, n - 1)
<1>1. /\ n \in Nat /\ n > 0 /\ Last(docs) = docs[n]
      /\ f \in Seq(X) /\ Len(f) = n - 1
      /\ \A i \in 1 .. n - 1 : f[i] = docs[i]
  BY FrontFacts
<1>2. c \in Seq(Y) /\ Len(c) = n /\ \A i \in 1 .. n : c[i] = Core(docs[i])
  BY CoresFacts
<1>3. Cores(f) \in Seq(Y) /\ Len(Cores(f)) = Len(f) /\ \A i \in 1 .. Len(f) : Cores(f)[i] = Core(f[i])
  BY <1>1, CoresFacts
<1> HIDE DEF X, Y, n, c, f, g
<1>4. c # << >>
  BY <1>1, <1>2, EmptySeq
<1>5. c[n] = Core(Last(docs))
  BY <1>1, <1>2
<1>6. g \in Seq(Y) /\ Len(g) = n - 1 /\ \A i \in 1 .. n - 1 : g[i] = c[i]
  <2>1. 1 \in Int /\ n - 1 \in Int /\ \A i \in 1 .. n - 1 : c[i] \in Y
    BY <1>1, <1>2, ListFacts
  <2>2. /\ g \in Seq(Y) /\ Len(g) = IF 1 <= n - 1 THEN (n - 1) - 1 + 1 ELSE 0
        /\ \A i \in 1 .. (n - 1) - 1 + 1 : g[i] = c[1 + i - 1]
    BY <1>2, <2>1, SubSeqProperties DEF g
  <2>3. \A i \in 1 .. n - 1 : 1 + i - 1 = i
    BY <1>1
  <2>4. QED
    BY <1>1, <2>2, <2>3
<1>7. \A i \in 1 .. n - 1 : Cores(f)[i] = g[i]
  BY <1>1, <1>2, <1>3, <1>6
<1>8. Cores(f) = g
  BY <1>1, <1>3, <1>6, <1>7, SeqEqual
<1>9. QED
  BY <1>2, <1>4, <1>5, <1>8 DEF CoreHistory!Last, CoreHistory!Front, c, f, g

-----------------------------------------------------------------------------
(* Habits that are kept *)

(* e is d but for the clips.                                                *)
Reclips(e, d) == e = [order |-> d.order, tracks |-> d.tracks, clips |-> e.clips, pool |-> d.pool]

LEMMA ReclipsLeaves ==
  ASSUME NEW d, NEW e, Reclips(e, d)
  PROVE  LeavesLanes(e, d)
  BY DEF Reclips, LeavesLanes, Lanes

LEMMA ReclipsAgain ==
  ASSUME NEW d, NEW e, Reclips(e, d)
  PROVE  /\ \A c, k : Reclips(WithClip(e, c, k), d)
         /\ \A c : Reclips(WithoutClip(e, c), d)
         /\ \A t, from, delta : Reclips(Shifted(e, t, from, delta), d)
<1>1. \A f : Reclips([e EXCEPT !.clips = f], d)
  BY DEF Reclips
<1>2. ASSUME NEW c, NEW k PROVE Reclips(WithClip(e, c, k), d)
  BY <1>1 DEF WithClip
<1>3. ASSUME NEW c PROVE Reclips(WithoutClip(e, c), d)
  BY <1>1 DEF WithoutClip
<1>4. ASSUME NEW t, NEW from, NEW delta PROVE Reclips(Shifted(e, t, from, delta), d)
  BY <1>1 DEF Shifted
<1>5. QED
  BY <1>2, <1>3, <1>4

LEMMA ReclipsNone ==
  ASSUME NEW d, IsDocument(d)
  PROVE  Reclips(d, d)
  BY DEF IsDocument, Reclips

LEMMA TryReclips ==
  ASSUME NEW d, NEW x, NEW guard, NEW f, NEW u, Reclips(f, d)
  PROVE  Try(guard, x, f, u).ok => Reclips(Try(guard, x, f, u).doc, d)
  BY DEF Try, Accepted, Rejected

LEMMA InsertClipReclips ==
  ASSUME NEW d, NEW e, Reclips(e, d), NEW c, NEW k
  PROVE  InsertClip(e, c, k).ok => Reclips(InsertClip(e, c, k).doc, d)
<1>1. Reclips(WithClip(e, c, k), d)
  BY ReclipsAgain
<1>2. QED
  BY <1>1, TryReclips DEF InsertClip

LEMMA DuplicateClipLeaves ==
  ASSUME NEW d, IsDocument(d), NEW c, NEW of, NEW t, NEW start
  PROVE  LET r == DuplicateClip(d, c, of, t, start) IN r.ok => LeavesLanes(r.doc, d)
<1> DEFINE r == DuplicateClip(d, c, of, t, start)
           k == [d.clips[of] EXCEPT !.track = t, !.start = start]
<1>1. r = IF start >= 0 /\ of \in Placed(d) THEN InsertClip(d, c, k) ELSE Rejected(d)
  BY DEF DuplicateClip
<1> HIDE DEF k
<1>2. InsertClip(d, c, k).ok => Reclips(InsertClip(d, c, k).doc, d)
  BY ReclipsNone, InsertClipReclips
<1>3. r.ok => Reclips(r.doc, d)
  BY <1>1, <1>2 DEF Rejected
<1>4. QED
  BY <1>3, ReclipsLeaves

LEMMA SplitClipLeaves ==
  ASSUME NEW d, IsDocument(d), NEW c, NEW of, NEW at
  PROVE  LET r == SplitClip(d, c, of, at) IN r.ok => LeavesLanes(r.doc, d)
<1> DEFINE k == d.clips[of]
           f == WithClip(WithClip(d, of, LeftHalf(k, at)), c, RightHalf(k, at))
           r == SplitClip(d, c, of, at)
<1>1. Reclips(f, d)
  BY ReclipsNone, ReclipsAgain
<1>2. r.ok => Reclips(r.doc, d)
  BY <1>1, TryReclips DEF SplitClip
<1>3. QED
  BY <1>2, ReclipsLeaves

LEMMA ReplaceReclips ==
  ASSUME NEW d, IsDocument(d), NEW c, NEW k
  PROVE  Replace(d, c, k).ok => Reclips(Replace(d, c, k).doc, d)
<1>1. Reclips(WithClip(d, c, [k EXCEPT !.track = d.clips[c].track]), d)
  BY ReclipsNone, ReclipsAgain
<1>2. RestoreClip(d, c, k).ok => Reclips(RestoreClip(d, c, k).doc, d)
  BY <1>1, TryReclips DEF RestoreClip
<1>3. QED
  BY <1>2 DEF Replace, Rejected

LEMMA TrimClipLeaves ==
  ASSUME NEW d, IsDocument(d), NEW c, NEW start, NEW dur
  PROVE  LET r == TrimClip(d, c, start, dur) IN r.ok => LeavesLanes(r.doc, d)
<1> DEFINE k == Trimmed(d.clips[c], start, dur)
           guard == c \in Placed(d) /\ dur > 0 /\ (IsMedia(k) => WindowFits(k.in, k.len))
           r == TrimClip(d, c, start, dur)
<1>1. r = IF guard THEN Replace(d, c, k) ELSE Rejected(d)
  BY DEF TrimClip
<1> HIDE DEF k, guard
<1>2. r.ok => Reclips(r.doc, d)
  BY <1>1, ReplaceReclips DEF Rejected
<1>3. QED
  BY <1>2, ReclipsLeaves

LEMMA SetClipSpeedLeaves ==
  ASSUME NEW d, IsDocument(d), NEW c, NEW speed
  PROVE  LET r == SetClipSpeed(d, c, speed) IN r.ok => LeavesLanes(r.doc, d)
<1> DEFINE k == Retimed(d.clips[c], speed)
           guard == c \in Placed(d) /\ speed > 0 /\ IsMedia(d.clips[c])
           r == SetClipSpeed(d, c, speed)
<1>1. r = IF guard THEN Replace(d, c, k) ELSE Rejected(d)
  BY DEF SetClipSpeed
<1> HIDE DEF k, guard
<1>2. r.ok => Reclips(r.doc, d)
  BY <1>1, ReplaceReclips DEF Rejected
<1>3. QED
  BY <1>2, ReclipsLeaves

LEMMA MoveClipLeaves ==
  ASSUME NEW d, IsDocument(d), NEW c, NEW t, NEW start
  PROVE  LET r == MoveClip(d, c, t, start) IN r.ok => LeavesLanes(r.doc, d)
<1> DEFINE k == [d.clips[c] EXCEPT !.track = t, !.start = start]
           r == MoveClip(d, c, t, start)
<1>1. Reclips(WithClip(d, c, k), d)
  BY ReclipsNone, ReclipsAgain
<1>2. r.ok => Reclips(r.doc, d)
  BY <1>1, TryReclips DEF MoveClip
<1>3. QED
  BY <1>2, ReclipsLeaves

LEMMA RemoveClipLeaves ==
  ASSUME NEW d, IsDocument(d), NEW c
  PROVE  LET r == RemoveClip(d, c) IN r.ok => LeavesLanes(r.doc, d)
<1> DEFINE r == RemoveClip(d, c)
<1>1. Reclips(WithoutClip(d, c), d)
  BY ReclipsNone, ReclipsAgain
<1>2. r.ok => Reclips(r.doc, d)
  BY <1>1, TryReclips DEF RemoveClip
<1>3. QED
  BY <1>2, ReclipsLeaves

LEMMA RippleDeleteLeaves ==
  ASSUME NEW d, IsDocument(d), NEW c
  PROVE  LET r == RippleDelete(d, c) IN r.ok => LeavesLanes(r.doc, d)
<1> DEFINE k == d.clips[c]
           f == Shifted(WithoutClip(d, c), k.track, k.start, -k.dur)
           r == RippleDelete(d, c)
<1>1. Reclips(f, d)
  BY ReclipsNone, ReclipsAgain
<1>2. r.ok => Reclips(r.doc, d)
  BY <1>1, TryReclips DEF RippleDelete
<1>3. QED
  BY <1>2, ReclipsLeaves

LEMMA ShiftClipsReclips ==
  ASSUME NEW d, IsDocument(d), NEW t, NEW from, NEW delta
  PROVE  LET r == ShiftClips(d, t, from, delta) IN r.ok => Reclips(r.doc, d)
<1>1. Reclips(Shifted(d, t, from, delta), d)
  BY ReclipsNone, ReclipsAgain
<1>2. QED
  BY <1>1, TryReclips DEF ShiftClips

LEMMA ShiftClipsLeaves ==
  ASSUME NEW d, IsDocument(d), NEW t, NEW from, NEW delta
  PROVE  LET r == ShiftClips(d, t, from, delta) IN r.ok => LeavesLanes(r.doc, d)
  BY ShiftClipsReclips, ReclipsLeaves

LEMMA RippleInsertLeaves ==
  ASSUME NEW d, IsDocument(d), NEW c, NEW t, NEW m, NEW in, NEW len, NEW at
  PROVE  LET r == RippleInsert(d, c, t, m, in, len, at) IN r.ok => LeavesLanes(r.doc, d)
<1> DEFINE by == Max({1, len})
           hole == ShiftClips(d, t, at, by)
           k == MediaClip(t, m, in, len, at)
           add == AddClip(hole.doc, c, t, m, in, len, at)
           q == add.inverse \o hole.inverse
           r == RippleInsert(d, c, t, m, in, len, at)
<1>1. /\ ~hole.ok => r = Rejected(d)
      /\ hole.ok /\ add.ok => r = Accepted(add.doc, q)
      /\ hole.ok /\ ~add.ok => r = Rejected(Run(hole.doc, hole.inverse).doc)
  BY DEF RippleInsert
<1>2. add = IF m \in hole.doc.pool /\ WindowFits(in, len) THEN InsertClip(hole.doc, c, k) ELSE Rejected(hole.doc)
  BY DEF AddClip
<1> HIDE DEF by, q, add, r, k
<1>3. hole.ok => Reclips(hole.doc, d)
  BY ShiftClipsReclips
<1> HIDE DEF hole
<1>4. hole.ok => (InsertClip(hole.doc, c, k).ok => Reclips(InsertClip(hole.doc, c, k).doc, d))
  BY <1>3, InsertClipReclips
<1>5. hole.ok /\ add.ok => Reclips(add.doc, d)
  BY <1>2, <1>4 DEF Rejected
<1>6. r.ok => Reclips(r.doc, d)
  <2> SUFFICES ASSUME r.ok PROVE Reclips(r.doc, d)
    OBVIOUS
  <2>1. ~hole.ok => ~r.ok
    BY <1>1, OutcomeFacts
  <2>2. hole.ok /\ ~add.ok => ~r.ok
    BY <1>1, OutcomeFacts
  <2>3. hole.ok /\ add.ok
    BY <2>1, <2>2
  <2>4. r = Accepted(add.doc, q)
    BY <1>1, <2>3
  <2>5. r.doc = add.doc
    BY <2>4 DEF Accepted
  <2>6. QED
    BY <1>5, <2>3, <2>5
<1>7. QED
  BY <1>6, ReclipsLeaves DEF r

LEMMA RemoveTrackLeaves ==
  ASSUME NEW d, IsDocument(d), NEW t \in Lanes(d)
  PROVE  LET r == RemoveTrack(d, t) IN r.ok => LeavesLanes(r.doc, d)
<1> DEFINE f == DropTrack(d, t)
           r == RemoveTrack(d, t)
<1>1. LeavesLanes(f, d)
  <2>1. IsStacked(d)
    BY StackedFacts
  <2> HIDE DEF f
  <2>2. /\ Lanes(f) = Lanes(d) \ {t}
        /\ \A u \in Lanes(f) : /\ f.tracks[u].kind = d.tracks[u].kind
                               /\ f.tracks[u].junctions = d.tracks[u].junctions
    BY <2>1, DropTrackFacts DEF f
  <2>3. QED
    BY <2>2 DEF LeavesLanes
<1>2. r.doc = f
  BY DEF RemoveTrack, Try, Accepted
<1>3. QED
  BY <1>1, <1>2

(* What the documents of a session of habit h have in common: no sticker    *)
(* lane where lanes are removed (Tidy), every transition between clips that *)
(* abut, and none where clips are retimed (Steady).                         *)
InHabit(h, d) ==
  /\ Tidy => ("RemoveTrack" \in h.commands => StickerLanes(d) = {})
  /\ Steady => IsJoined(d) /\ ("SetClipSpeed" \in h.commands => ~HasTransitions(d))

(* e has the clips of d, and its lanes but for new ones that are empty.     *)
Grown(h, d, e) ==
  /\ \A c \in Placed(d) : c \in Placed(e) /\ e.clips[c] = d.clips[c]
  /\ \A u \in Lanes(e) :
       \/ /\ u \in Lanes(d) /\ e.tracks[u].kind = d.tracks[u].kind
          /\ e.tracks[u].junctions = d.tracks[u].junctions
       \/ /\ e.tracks[u].junctions = << >>
          /\ Tidy /\ "RemoveTrack" \in h.commands => e.tracks[u].kind # "sticker"

LEMMA NoneJoined ==
  DOMAIN << >> = {}
  OBVIOUS

LEMMA AbutsStill ==
  ASSUME NEW d, NEW e, \A c \in Placed(d) : c \in Placed(e) /\ e.clips[c] = d.clips[c],
         NEW t, NEW left, NEW right, Abut(d, t, left, right)
  PROVE  Abut(e, t, left, right)
<1>1. /\ left \in Placed(d) /\ d.clips[left].track = t
      /\ right \in Placed(d) /\ d.clips[right].track = t
      /\ End(d.clips[left]) = d.clips[right].start
  BY DEF Abut, ClipsOn
<1>2. /\ left \in Placed(e) /\ e.clips[left] = d.clips[left]
      /\ right \in Placed(e) /\ e.clips[right] = d.clips[right]
  BY <1>1
<1>3. QED
  BY <1>1, <1>2 DEF Abut, ClipsOn

LEMMA GrownInHabit ==
  ASSUME NEW h, NEW d, NEW e, Grown(h, d, e), InHabit(h, d)
  PROVE  InHabit(h, e)
<1> DEFINE Same(u) == /\ u \in Lanes(d) /\ e.tracks[u].kind = d.tracks[u].kind
                      /\ e.tracks[u].junctions = d.tracks[u].junctions
           New(u) == /\ e.tracks[u].junctions = << >>
                     /\ Tidy /\ "RemoveTrack" \in h.commands => e.tracks[u].kind # "sticker"
<1>1. /\ \A c \in Placed(d) : c \in Placed(e) /\ e.clips[c] = d.clips[c]
      /\ \A u \in Lanes(e) : Same(u) \/ New(u)
  BY DEF Grown
<1>2. ASSUME Tidy, "RemoveTrack" \in h.commands PROVE StickerLanes(e) = {}
  BY <1>1, <1>2 DEF InHabit, StickerLanes
<1>3. ASSUME Steady PROVE IsJoined(e)
  <2>1. IsJoined(d)
    BY <1>3 DEF InHabit
  <2>2. ASSUME NEW u \in Lanes(e), NEW left \in DOMAIN e.tracks[u].junctions
        PROVE  Abut(e, u, left, e.tracks[u].junctions[left].right)
    <3>1. Same(u)
      BY <1>1, <2>2, NoneJoined
    <3>2. Abut(d, u, left, e.tracks[u].junctions[left].right)
      BY <2>1, <2>2, <3>1 DEF IsJoined
    <3>3. QED
      BY <1>1, <3>2, AbutsStill
  <2>3. QED
    BY <2>2 DEF IsJoined
<1>4. ASSUME Steady, "SetClipSpeed" \in h.commands PROVE ~HasTransitions(e)
  <2>1. ~HasTransitions(d)
    BY <1>4 DEF InHabit
  <2>2. QED
    BY <1>1, <2>1 DEF HasTransitions
<1>5. QED
  BY <1>2, <1>3, <1>4 DEF InHabit

(* Undo and redo bring back the habit with the core.                        *)
LEMMA CoreInHabit ==
  ASSUME NEW h, NEW d, NEW e, Core(e) = Core(d), InHabit(h, d)
  PROVE  InHabit(h, e)
<1>1. e.clips = d.clips /\ Placed(e) = Placed(d) /\ Stack(e) = Stack(d)
  BY CoreShared
<1>2. /\ Lanes(e) = Lanes(d)
      /\ \A t \in Lanes(d) : /\ e.tracks[t].kind = d.tracks[t].kind
                             /\ e.tracks[t].junctions = d.tracks[t].junctions
  BY <1>1, StackShared
<1>3. Grown(h, d, e)
  BY <1>1, <1>2 DEF Grown
<1>4. QED
  BY <1>3, GrownInHabit

LEMMA LeavesInHabit ==
  ASSUME NEW h, NEW d, NEW e, LeavesLanes(e, d), InHabit(h, d),
         HasTransitions(d) => IsJoined(e)
  PROVE  InHabit(h, e)
<1>1. /\ Lanes(e) \subseteq Lanes(d)
      /\ \A t \in Lanes(e) : /\ e.tracks[t].kind = d.tracks[t].kind
                             /\ e.tracks[t].junctions = d.tracks[t].junctions
  BY DEF LeavesLanes
<1>2. StickerLanes(d) = {} => StickerLanes(e) = {}
  BY <1>1 DEF StickerLanes
<1>3. ASSUME ~HasTransitions(d) PROVE ~HasTransitions(e) /\ IsJoined(e)
  <2>1. \A t \in Lanes(e) : e.tracks[t].junctions = << >>
    BY <1>1, <1>3 DEF HasTransitions
  <2>2. \A t \in Lanes(e) : DOMAIN e.tracks[t].junctions = {}
    BY <2>1, NoneJoined
  <2>3. QED
    BY <2>1, <2>2 DEF HasTransitions, IsJoined
<1>4. QED
  BY <1>2, <1>3 DEF InHabit

LEMMA PruneJoins ==
  ASSUME NEW d, IsDocument(d)
  PROVE  IsJoined(Prune(d))
<1> DEFINE living(t) == {c \in DOMAIN d.tracks[t].junctions :
                           Abut(d, t, c, d.tracks[t].junctions[c].right)}
           live(t) == Restrict(d.tracks[t].junctions, living(t))
           snapshot == [t \in Lanes(d) |-> live(t)]
           e == Prune(d)
<1>1. Within(d, ClipId, TrackId, Media)
  BY AnyIds
<1>2. ASSUME NEW t \in Lanes(d) PROVE IsJunctions(live(t))
  <2>1. IsJunctions(d.tracks[t].junctions)
    BY <1>1, JunctionsOf
  <2>2. living(t) \subseteq DOMAIN d.tracks[t].junctions
    OBVIOUS
  <2> HIDE DEF living
  <2>3. QED
    BY <2>1, <2>2, FewerJunctions
<1>3. \A t : DOMAIN live(t) = living(t) /\ \A c \in living(t) : live(t)[c] = d.tracks[t].junctions[c]
  BY DEF Restrict
<1>4. e = WithTransitions(d, snapshot)
  BY DEF Prune
<1>5. \A t \in Lanes(d) : \A c \in living(t) : Abut(d, t, c, d.tracks[t].junctions[c].right)
  OBVIOUS
<1> HIDE DEF living, live
<1>6. DOMAIN snapshot = Lanes(d) /\ \A t \in Lanes(d) : snapshot[t] = live(t)
  OBVIOUS
<1> HIDE DEF snapshot, e
<1>7. \A t \in DOMAIN snapshot : IsJunctions(snapshot[t])
  BY <1>2, <1>6
<1>8. e.clips = d.clips /\ Lanes(e) = Lanes(d)
      /\ \A t \in Lanes(d) : e.tracks[t].junctions =
           IF t \in DOMAIN snapshot THEN snapshot[t] ELSE d.tracks[t].junctions
  BY <1>1, <1>4, <1>7, WithTransitionsWithin
<1>9. \A t \in Lanes(d) : e.tracks[t].junctions = live(t)
  BY <1>6, <1>8
<1>10. ASSUME NEW t \in Lanes(e), NEW c \in DOMAIN e.tracks[t].junctions
       PROVE  Abut(e, t, c, e.tracks[t].junctions[c].right)
  <2>1. e.tracks[t].junctions = live(t) /\ c \in living(t)
    BY <1>3, <1>8, <1>9, <1>10
  <2>2. Abut(d, t, c, e.tracks[t].junctions[c].right)
    BY <1>3, <1>5, <1>8, <2>1
  <2>3. QED
    BY <1>8, <2>2, AbutsStill DEF Placed
<1>11. IsJoined(e)
  BY <1>10 DEF IsJoined
<1>12. QED
  BY <1>11 DEF e

LEMMA StructuralInHabit ==
  ASSUME NEW h, NEW d, InHabit(h, d), NEW r, r.ok => IsDocument(r.doc) /\ LeavesLanes(r.doc, d), ~r.ok => r.doc = d
  PROVE  InHabit(h, Structural(d, r).doc)
<1> DEFINE pruned == Prune(r.doc)
           p == <<[op |-> "RestoreTransitions", snapshot |-> Transitions(d)]>> \o r.inverse
           s == Structural(d, r)
<1>1. s = IF ~r.ok \/ ~HasTransitions(d) \/ pruned = r.doc THEN r ELSE Accepted(pruned, p)
  BY DEF Structural
<1> HIDE DEF p, s
<1>2. CASE ~r.ok
  BY <1>1, <1>2 DEF s
<1>3. CASE r.ok
  <2>1. IsDocument(r.doc) /\ LeavesLanes(r.doc, d)
    BY <1>3
  <2>2. IsJoined(pruned) /\ Rewired(r.doc, pruned)
    BY <2>1, PruneJoins, PruneRewires
  <2> HIDE DEF pruned
  <2>3. CASE ~HasTransitions(d) \/ pruned = r.doc
    <3>1. InHabit(h, r.doc)
      BY <2>1, <2>2, <2>3, LeavesInHabit
    <3>2. s = r
      BY <1>1, <2>3
    <3>3. QED
      BY <3>1, <3>2 DEF s
  <2>4. CASE HasTransitions(d) /\ pruned # r.doc
    <3>1. s = Accepted(pruned, p)
      BY <1>1, <1>3, <2>4
    <3>2. s.doc = pruned
      BY <3>1 DEF Accepted
    <3>3. StickerLanes(d) = {} => StickerLanes(pruned) = {}
      BY <2>1, <2>2 DEF LeavesLanes, Rewired, StickerLanes
    <3>4. InHabit(h, pruned)
      BY <2>2, <2>4, <3>3 DEF InHabit
    <3>5. QED
      BY <3>2, <3>4 DEF s
  <2>5. QED
    BY <2>3, <2>4
<1>4. QED
  BY <1>2, <1>3

LEMMA AddTrackInHabit ==
  ASSUME NEW h \in Habits, NEW d, IsDocument(d), InHabit(h, d), NEW t \in TrackId, t \notin Lanes(d),
         NEW kind \in Kind, NEW index \in Nat \ {0},
         Tidy /\ "RemoveTrack" \in h.commands => kind # "sticker"
  PROVE  InHabit(h, InsertTrack(d, t, NewTrack(kind), index))
<1> DEFINE e == InsertTrack(d, t, NewTrack(kind), index)
<1>1. IsTrack(NewTrack(kind)) /\ NewTrack(kind).kind = kind /\ NewTrack(kind).junctions = << >>
  BY DEF NewTrack, IsTrack, IsJunctions, IsPartial
<1>2. IsStacked(d)
  BY StackedFacts
<1>3. /\ Restacked(d, e) /\ Lanes(e) = Lanes(d) \cup {t}
      /\ \A u \in Lanes(d) : /\ e.tracks[u].kind = d.tracks[u].kind
                             /\ e.tracks[u].junctions = d.tracks[u].junctions
      /\ e.tracks[t].kind = kind /\ e.tracks[t].junctions = << >>
  BY <1>1, <1>2, InsertTrackFacts
<1> HIDE DEF e
<1>4. Grown(h, d, e)
  BY <1>3 DEF Grown, Restacked, Placed
<1>5. QED
  BY <1>4, GrownInHabit DEF e

LEMMA KindInHabit ==
  ASSUME NEW h \in Habits, NEW kind \in h.kinds, Tidy, "RemoveTrack" \in h.commands
  PROVE  kind # "sticker"
  BY DEF Tidy

LEMMA ReclipsGrown ==
  ASSUME NEW h, NEW d, NEW e, Reclips(e, d), \A c \in Placed(d) : c \in Placed(e) /\ e.clips[c] = d.clips[c],
         InHabit(h, d)
  PROVE  InHabit(h, e)
<1>1. LeavesLanes(e, d)
  BY ReclipsLeaves
<1>2. Grown(h, d, e)
  BY <1>1 DEF Grown, LeavesLanes
<1>3. QED
  BY <1>2, GrownInHabit

LEMMA InsertClipInHabit ==
  ASSUME NEW h, NEW d, IsDocument(d), InHabit(h, d), NEW c, NEW k
  PROVE  InHabit(h, InsertClip(d, c, k).doc)
<1> DEFINE e == WithClip(d, c, k)
           r == InsertClip(d, c, k)
<1>1. CASE CanAdd(d, c, k)
  <2>1. r.doc = e
    BY <1>1, OutcomeFacts DEF InsertClip, Try
  <2>2. Reclips(e, d)
    BY ReclipsNone, ReclipsAgain
  <2>3. c \notin Placed(d)
    BY <1>1 DEF CanAdd
  <2>4. e.clips = [x \in Placed(d) \cup {c} |-> IF x = c THEN k ELSE d.clips[x]]
    BY DEF WithClip, IsDocument, Placed
  <2>5. \A x \in Placed(d) : x \in Placed(e) /\ e.clips[x] = d.clips[x]
    BY <2>3, <2>4 DEF Placed
  <2> HIDE DEF e, r
  <2>6. InHabit(h, e)
    BY <2>2, <2>5, ReclipsGrown
  <2>7. QED
    BY <2>1, <2>6 DEF r
<1>2. CASE ~CanAdd(d, c, k)
  <2>1. r.doc = d
    BY <1>2, OutcomeFacts DEF InsertClip, Try
  <2>2. QED
    BY <2>1
<1>3. QED
  BY <1>1, <1>2

LEMMA AddClipInHabit ==
  ASSUME NEW h, NEW d, IsDocument(d), InHabit(h, d), NEW c, NEW t, NEW m, NEW in, NEW len, NEW start
  PROVE  InHabit(h, AddClip(d, c, t, m, in, len, start).doc)
<1>1. InHabit(h, InsertClip(d, c, MediaClip(t, m, in, len, start)).doc)
  BY InsertClipInHabit
<1>2. InHabit(h, Rejected(d).doc)
  BY OutcomeFacts
<1>3. QED
  BY <1>1, <1>2 DEF AddClip

LEMMA AddGeneratedInHabit ==
  ASSUME NEW h, NEW d, IsDocument(d), InHabit(h, d), NEW c, NEW t, NEW content, NEW start, NEW dur
  PROVE  InHabit(h, AddGenerated(d, c, t, content, start, dur).doc)
<1>1. InHabit(h, InsertClip(d, c, GeneratedClip(t, content, start, dur)).doc)
  BY InsertClipInHabit
<1>2. InHabit(h, Rejected(d).doc)
  BY OutcomeFacts
<1>3. QED
  BY <1>1, <1>2 DEF AddGenerated

LEMMA SameTracksInHabit ==
  ASSUME NEW h, NEW d, NEW e, e.tracks = d.tracks, e.clips = d.clips, InHabit(h, d)
  PROVE  InHabit(h, e)
<1>1. Grown(h, d, e)
  BY DEF Grown, Lanes, Placed
<1>2. QED
  BY <1>1, GrownInHabit

LEMMA MoveTrackInHabit ==
  ASSUME NEW h, NEW d, IsDocument(d), InHabit(h, d), NEW t \in Lanes(d), NEW index \in Nat \ {0}
  PROVE  InHabit(h, MoveTrack(d, t, index).doc)
<1> DEFINE e == Reorder(d, t, index)
<1>1. IsStacked(d)
  BY StackedFacts
<1>2. Restacked(d, e) /\ e.tracks = d.tracks
  BY <1>1, ReorderFacts
<1>3. MoveTrack(d, t, index).doc = e
  BY OutcomeFacts DEF MoveTrack, Try
<1> HIDE DEF e
<1>4. InHabit(h, e)
  BY <1>2, SameTracksInHabit DEF Restacked
<1>5. QED
  BY <1>3, <1>4

LEMMA MediaInHabit ==
  ASSUME NEW h, NEW d, IsDocument(d), InHabit(h, d), NEW m
  PROVE  InHabit(h, InsertMedia(d, m).doc) /\ InHabit(h, RemoveMedia(d, m).doc)
<1>1. \A S : LET e == [d EXCEPT !.pool = S] IN e.tracks = d.tracks /\ e.clips = d.clips
  BY DEF IsDocument
<1>2. \A S : InHabit(h, [d EXCEPT !.pool = S])
  BY <1>1, SameTracksInHabit
<1> DEFINE e == [d EXCEPT !.pool = @ \cup {m}]
           f == [d EXCEPT !.pool = @ \ {m}]
           u == [op |-> "RemoveMedia", medium |-> m]
           v == [op |-> "InsertMedia", medium |-> m]
           guard == m \in d.pool /\ ~IsReferenced(d, m)
<1>3. InHabit(h, e) /\ InHabit(h, f)
  BY <1>2
<1>4. InsertMedia(d, m) = Accepted(e, <<u>>) /\ RemoveMedia(d, m) = Try(guard, d, f, v)
  BY DEF InsertMedia, RemoveMedia
<1> HIDE DEF e, f, u, v, guard
<1>5. InHabit(h, InsertMedia(d, m).doc)
  BY <1>3, <1>4 DEF Accepted
<1>6. InHabit(h, RemoveMedia(d, m).doc)
  BY <1>3, <1>4 DEF Try, Accepted, Rejected
<1>7. QED
  BY <1>5, <1>6

LEMMA SetClipSpeedInHabit ==
  ASSUME NEW h, NEW d, IsDocument(d), InHabit(h, d), NEW c, NEW speed, Steady => ~HasTransitions(d),
         NEW r, r = SetClipSpeed(d, c, speed), ~r.ok => r.doc = d
  PROVE  InHabit(h, r.doc)
<1>1. r.ok => LeavesLanes(r.doc, d)
  BY SetClipSpeedLeaves
<1>2. CASE r.ok
  <2>1. LeavesLanes(r.doc, d)
    BY <1>1, <1>2
  <2>2. StickerLanes(d) = {} => StickerLanes(r.doc) = {}
    BY <2>1 DEF LeavesLanes, StickerLanes
  <2>3. ASSUME Steady PROVE InHabit(h, r.doc)
    BY <2>1, <2>3, LeavesInHabit
  <2>4. ASSUME ~Steady PROVE InHabit(h, r.doc)
    BY <2>2, <2>4 DEF InHabit
  <2>5. QED
    BY <2>3, <2>4
<1>3. CASE ~r.ok
  BY <1>3
<1>4. QED
  BY <1>2, <1>3

LEMMA SetJunctionsInHabit ==
  ASSUME NEW h, NEW d, IsDocument(d), InHabit(h, d), NEW t \in Lanes(d), NEW js,
         Steady => "SetClipSpeed" \notin h.commands,
         Steady => \A left \in DOMAIN js : Abut(d, t, left, js[left].right)
  PROVE  InHabit(h, SetJunctions(d, t, js).doc)
<1> DEFINE q == [d.tracks[t] EXCEPT !.junctions = js]
           f == [d.tracks EXCEPT ![t] = q]
           e == [d EXCEPT !.tracks = f]
           u == [op |-> "RestoreTransitions", snapshot |-> Transitions(d)]
<1>1. SetJunctions(d, t, js) = Accepted(e, <<u>>)
  BY DEF SetJunctions, WithJunctions
<1>2. IsTrack(d.tracks[t])
  BY AnyIds, JunctionsOf
<1>3. q.kind = d.tracks[t].kind /\ q.junctions = js
  BY <1>2, RejoinedTrack
<1> HIDE DEF q, u
<1>4. Lanes(d) = DOMAIN d.tracks
  BY DEF Lanes
<1>5. DOMAIN f = Lanes(d) /\ f[t] = q /\ \A x \in Lanes(d) : x # t => f[x] = d.tracks[x]
  BY <1>4
<1> HIDE DEF f
<1>6. e.tracks = f /\ e.clips = d.clips
  BY DEF IsDocument
<1> HIDE DEF e
<1>7. /\ Lanes(e) = Lanes(d) /\ Placed(e) = Placed(d)
      /\ \A x \in Lanes(d) : e.tracks[x].kind = d.tracks[x].kind
      /\ e.tracks[t].junctions = js
      /\ \A x \in Lanes(d) : x # t => e.tracks[x].junctions = d.tracks[x].junctions
  BY <1>3, <1>5, <1>6 DEF Lanes, Placed
<1>8. ASSUME Steady PROVE IsJoined(e)
  <2>1. IsJoined(d)
    BY <1>8 DEF InHabit
  <2>2. ASSUME NEW x \in Lanes(e), NEW left \in DOMAIN e.tracks[x].junctions
        PROVE  Abut(e, x, left, e.tracks[x].junctions[left].right)
    <3>1. Abut(d, x, left, e.tracks[x].junctions[left].right)
      <4>1. CASE x = t
        BY <1>7, <1>8, <2>2, <4>1
      <4>2. CASE x # t
        BY <1>7, <2>1, <2>2, <4>2 DEF IsJoined
      <4>3. QED
        BY <4>1, <4>2
    <3>2. QED
      BY <1>6, <1>7, <3>1, AbutsStill
  <2>3. QED
    BY <2>2 DEF IsJoined
<1>9. StickerLanes(e) = StickerLanes(d)
  BY <1>7 DEF StickerLanes
<1>10. InHabit(h, e)
  BY <1>8, <1>9 DEF InHabit
<1>11. SetJunctions(d, t, js).doc = e
  BY <1>1 DEF Accepted
<1>12. QED
  BY <1>10, <1>11

LEMMA NeighborAbuts ==
  ASSUME NEW d, NEW left \in Placed(d), NEW right \in RightNeighbors(d, left)
  PROVE  Abut(d, d.clips[left].track, left, right)
  BY DEF Abut, ClipsOn, RightNeighbors

LEMMA JoinedAbuts ==
  ASSUME NEW d, IsJoined(d), NEW t \in Lanes(d), NEW left \in DOMAIN d.tracks[t].junctions
  PROVE  Abut(d, t, left, d.tracks[t].junctions[left].right)
  BY DEF IsJoined

LEMMA AddTransitionInHabit ==
  ASSUME NEW h \in Habits, "AddTransition" \in h.commands, NEW d, IsDocument(d), InHabit(h, d), NEW left
  PROVE  InHabit(h, AddTransition(d, left).doc)
<1> DEFINE t == d.clips[left].track
           js == d.tracks[t].junctions
           r == CHOOSE c \in RightNeighbors(d, left) : TRUE
           j == [right |-> r, window |-> DefaultWindow]
           more == [x \in DOMAIN js \cup {left} |-> IF x = left THEN j ELSE js[x]]
           guard == SupportsTransitions(d.tracks[t].kind) /\ RightNeighbors(d, left) # {}
<1>1. CASE left \in Placed(d) /\ guard
  <2>1. t \in Lanes(d)
    BY <1>1, OwnIds
  <2>2. AddTransition(d, left) = SetJunctions(d, t, more)
    BY <1>1 DEF AddTransition
  <2>3. r \in RightNeighbors(d, left)
    BY <1>1
  <2>4. Abut(d, t, left, r)
    BY <1>1, <2>3, NeighborAbuts
  <2>5. j.right = r
    OBVIOUS
  <2>6. Steady => \A x \in DOMAIN js : Abut(d, t, x, js[x].right)
    BY <2>1, JoinedAbuts DEF InHabit
  <2> HIDE DEF js, r, j
  <2>7. DOMAIN more = DOMAIN js \cup {left} /\ more[left] = j /\ \A x \in DOMAIN js : x # left => more[x] = js[x]
    OBVIOUS
  <2> HIDE DEF t, more
  <2>8. Steady => \A x \in DOMAIN more : Abut(d, t, x, more[x].right)
    BY <2>4, <2>5, <2>6, <2>7
  <2>9. Steady => "SetClipSpeed" \notin h.commands
    BY DEF Steady
  <2>10. InHabit(h, SetJunctions(d, t, more).doc)
    BY <2>1, <2>8, <2>9, SetJunctionsInHabit
  <2>11. QED
    BY <2>2, <2>10
<1>2. CASE ~(left \in Placed(d) /\ guard)
  <2>1. AddTransition(d, left) = Rejected(d)
    BY <1>2 DEF AddTransition
  <2>2. QED
    BY <2>1 DEF Rejected
<1>3. QED
  BY <1>1, <1>2

LEMMA HasJunctionTells ==
  ASSUME NEW h, NEW d, IsDocument(d), InHabit(h, d), NEW left, HasJunction(d, left)
  PROVE  LET t == d.clips[left].track
             js == d.tracks[t].junctions IN
         /\ t \in Lanes(d) /\ left \in DOMAIN js
         /\ Steady => "SetClipSpeed" \notin h.commands
         /\ Steady => \A x \in DOMAIN js : Abut(d, t, x, js[x].right)
<1> DEFINE t == d.clips[left].track
           js == d.tracks[t].junctions
<1>1. t \in Lanes(d) /\ left \in DOMAIN js
  BY OwnIds DEF HasJunction
<1>2. js # << >>
  BY <1>1, NoneJoined
<1>3. HasTransitions(d)
  BY <1>1, <1>2 DEF HasTransitions
<1>4. Steady => "SetClipSpeed" \notin h.commands
  BY <1>3 DEF InHabit
<1>5. Steady => \A x \in DOMAIN js : Abut(d, t, x, js[x].right)
  BY <1>1, JoinedAbuts DEF InHabit
<1>6. QED
  BY <1>1, <1>4, <1>5

LEMMA RemoveTransitionInHabit ==
  ASSUME NEW h, NEW d, IsDocument(d), InHabit(h, d), NEW left
  PROVE  InHabit(h, RemoveTransition(d, left).doc)
<1> DEFINE t == d.clips[left].track
           js == d.tracks[t].junctions
           less == Restrict(js, DOMAIN js \ {left})
<1>1. CASE HasJunction(d, left)
  <2>1. /\ t \in Lanes(d) /\ left \in DOMAIN js
        /\ Steady => "SetClipSpeed" \notin h.commands
        /\ Steady => \A x \in DOMAIN js : Abut(d, t, x, js[x].right)
    BY <1>1, HasJunctionTells
  <2>2. RemoveTransition(d, left) = SetJunctions(d, t, less)
    BY <1>1 DEF RemoveTransition
  <2> HIDE DEF js
  <2>3. DOMAIN less = DOMAIN js \ {left} /\ \A x \in DOMAIN less : less[x] = js[x]
    BY DEF Restrict
  <2> HIDE DEF t, less
  <2>4. Steady => \A x \in DOMAIN less : Abut(d, t, x, less[x].right)
    BY <2>1, <2>3
  <2>5. InHabit(h, SetJunctions(d, t, less).doc)
    BY <2>1, <2>4, SetJunctionsInHabit
  <2>6. QED
    BY <2>2, <2>5
<1>2. CASE ~HasJunction(d, left)
  <2>1. RemoveTransition(d, left) = Rejected(d)
    BY <1>2 DEF RemoveTransition
  <2>2. QED
    BY <2>1 DEF Rejected
<1>3. QED
  BY <1>1, <1>2

LEMMA SetTransitionInHabit ==
  ASSUME NEW h, NEW d, IsDocument(d), InHabit(h, d), NEW left, NEW window
  PROVE  InHabit(h, SetTransition(d, left, window).doc)
<1> DEFINE t == d.clips[left].track
           js == d.tracks[t].junctions
           w == IF window < 1 THEN 1 ELSE window
           j == [js[left] EXCEPT !.window = w]
           f == [js EXCEPT ![left] = j]
<1>1. CASE HasJunction(d, left)
  <2>1. /\ t \in Lanes(d) /\ left \in DOMAIN js
        /\ Steady => "SetClipSpeed" \notin h.commands
        /\ Steady => \A x \in DOMAIN js : Abut(d, t, x, js[x].right)
    BY <1>1, HasJunctionTells
  <2>2. SetTransition(d, left, window) = SetJunctions(d, t, f)
    BY <1>1 DEF SetTransition
  <2>3. IsJunctions(js)
    BY <2>1, AnyIds, JunctionsOf
  <2> HIDE DEF js, w
  <2>4. j.right = js[left].right
    BY <2>1, <2>3 DEF IsJunctions, Junction
  <2> HIDE DEF j
  <2>5. DOMAIN f = DOMAIN js /\ f[left] = j /\ \A x \in DOMAIN js : x # left => f[x] = js[x]
    BY <2>1
  <2> HIDE DEF t, f
  <2>6. Steady => \A x \in DOMAIN f : Abut(d, t, x, f[x].right)
    BY <2>1, <2>4, <2>5
  <2>7. InHabit(h, SetJunctions(d, t, f).doc)
    BY <2>1, <2>6, SetJunctionsInHabit
  <2>8. QED
    BY <2>2, <2>7
<1>2. CASE ~HasJunction(d, left)
  <2>1. SetTransition(d, left, window) = Rejected(d)
    BY <1>2 DEF SetTransition
  <2>2. QED
    BY <2>1 DEF Rejected
<1>3. QED
  BY <1>1, <1>2

(* A project put in the place of another.                                   *)
LEMMA NormalizedInHabit ==
  ASSUME NEW h, NEW d, IsDocument(d), InHabit(h, d)
  PROVE  InHabit(h, NormalizeLanes(d))
<1> DEFINE e == NormalizeLanes(d)
<1>1. /\ Restacked(d, e) /\ Lanes(e) = Lanes(d)
      /\ \A u \in Lanes(d) : /\ e.tracks[u].kind = d.tracks[u].kind
                             /\ e.tracks[u].junctions = d.tracks[u].junctions
  BY StackedFacts, NormalizeFacts
<1> HIDE DEF e
<1>2. Grown(h, d, e)
  BY <1>1 DEF Grown, Restacked, Placed
<1>3. InHabit(h, e)
  BY <1>2, GrownInHabit
<1>4. QED
  BY <1>3 DEF e

LEMMA WithMainInHabit ==
  ASSUME NEW h \in Habits, NEW d, IsDocument(d), InHabit(h, d), NEW t \in TrackId, t \notin Lanes(d)
  PROVE  InHabit(h, WithMain(d, t))
<1> DEFINE i == Len(d.order) + 1
           k == "video"
<1>1. i \in Nat \ {0}
  BY StackedFacts, ListFacts DEF IsStacked
<1>2. k \in Kind /\ k # "sticker"
  BY DEF Kind
<1>3. WithMain(d, t) = InsertTrack(d, t, NewTrack(k), i)
  BY DEF WithMain
<1> HIDE DEF i, k
<1>4. QED
  BY <1>1, <1>2, <1>3, AddTrackInHabit

LEMMA EmptyInHabit ==
  ASSUME NEW h
  PROVE  InHabit(h, EmptyDocument)
<1>1. Lanes(EmptyDocument) = {}
  BY EmptyDocumentFacts
<1>2. QED
  BY <1>1 DEF InHabit, StickerLanes, IsJoined, HasTransitions

LEMMA StartInHabit ==
  ASSUME NEW h \in Habits
  PROVE  InHabit(h, h.start)
  BY DEF InHabit, Tidy, Steady

-----------------------------------------------------------------------------
(* What each step of a session leaves *)

(* The scripts of the open group.                                           *)
Open == IF InGroup THEN pending ELSE << >>

(* From the document shown the open group leads back to the one it began    *)
(* with, and from there either stack to the documents its entries were      *)
(* recorded on.                                                             *)
Revertible ==
  /\ Solid(Core(doc))
  /\ file # NoFile => Solid(Core(file))
  /\ Descends(Open, Core(doc), Core(Base))
  /\ Recalls(undo, past, Core(Base))
  /\ Recalls(redo, future, Core(Base))

Retold == [CoreHistory!Next]_(CoreHistory!history)

(* The documents the session holds.                                         *)
Held == {doc, Base} \cup ({file} \ {NoFile}) \cup ToSet(past) \cup ToSet(future)

HabitKept == \A d \in Held : IsDocument(d) /\ InHabit(habit, d)

(* A step makes no other document than the one it shows.                    *)
Holds == habit' = habit /\ Held' \subseteq Held \cup {doc'} /\ InHabit(habit, doc')

(* What every step does that neither saves nor replaces the project.        *)
Recorded ==
  /\ Revertible'
  /\ Holds
  /\ RevisionStep
  /\ revision' \in Nat /\ revision' >= revision
  /\ UNCHANGED <<savedRevision, baseline>>
  /\ Retold

LEMMA DescendsEmpty ==
  ASSUME NEW x, NEW z, Descends(<< >>, x, z)
  PROVE  x = z
  BY DEF Descends

LEMMA StackSeqs ==
  ASSUME TypeOK
  PROVE  /\ undo \in Seq(ToSet(undo)) /\ redo \in Seq(ToSet(redo))
         /\ InGroup => pending \in Seq(ToSet(pending))
  BY DEF TypeOK, IsStack, IsScripts

LEMMA PastSeqs ==
  ASSUME Revertible
  PROVE  past \in Seq(ToSet(past)) /\ future \in Seq(ToSet(future))
  BY DEF Revertible, Recalls

LEMMA PushedSet ==
  ASSUME NEW q, q \in Seq(ToSet(q)), NEW d
  PROVE  ToSet(Pushed(q, d)) \subseteq ToSet(q) \cup {d}
<1> DEFINE S == ToSet(q) \cup {d}
           rest == IF Len(q) >= Limit THEN Tail(q) ELSE q
<1>1. q \in Seq(S) /\ d \in S
  BY SeqMonotonic
<1> HIDE DEF S
<1>2. Limit \in Nat /\ Limit >= 1 /\ Len(q) \in Nat
  BY <1>1, LimitFacts, LenProperties
<1>3. rest \in Seq(S)
  <2>1. CASE Len(q) >= Limit
    <3>1. q # << >>
      BY <1>1, <1>2, <2>1, EmptySeq
    <3>2. Tail(q) \in Seq(S)
      BY <1>1, <3>1, HeadTailProperties
    <3>3. QED
      BY <2>1, <3>2
  <2>2. CASE ~(Len(q) >= Limit)
    BY <1>1, <2>2
  <2>3. QED
    BY <2>1, <2>2
<1> HIDE DEF rest
<1>4. Append(rest, d) \in Seq(S)
  BY <1>1, <1>3, AppendProperties
<1> DEFINE p == Append(rest, d)
<1>5. p \in Seq(S)
  BY <1>4
<1>6. Pushed(q, d) = p
  BY DEF Pushed, rest
<1> HIDE DEF p
<1>7. ToSet(p) \subseteq S
  BY <1>5, ListFacts DEF ToSet
<1>8. QED
  BY <1>6, <1>7 DEF S

LEMMA FrontSet ==
  ASSUME NEW q, q \in Seq(ToSet(q)), q # << >>
  PROVE  ToSet(Front(q)) \subseteq ToSet(q) /\ Last(q) \in ToSet(q)
<1> DEFINE S == ToSet(q)
           p == Front(q)
<1>1. q \in Seq(S)
  OBVIOUS
<1> HIDE DEF S
<1>2. p \in Seq(S) /\ Last(q) \in S
  BY <1>1, FrontFacts
<1> HIDE DEF p
<1>3. ToSet(p) \subseteq S
  BY <1>2, ListFacts DEF ToSet
<1>4. QED
  BY <1>2, <1>3 DEF S, p

LEMMA NoneInNone == ToSet(<< >>) = {}
  BY DEF ToSet

LEMMA NoCores == Cores(<< >>) = << >>
<1> DEFINE q == << >>
<1>1. q \in Seq({}) /\ Len(q) = 0
  BY EmptySeq
<1> HIDE DEF q
<1>2. Cores(q) \in Seq({Core(d) : d \in {}}) /\ Len(Cores(q)) = 0
  BY <1>1, CoresFacts
<1>3. Cores(q) = << >>
  BY <1>2, EmptySeq
<1>4. QED
  BY <1>3 DEF q

(* An entry recorded on d, which the session leaves for a document that     *)
(* leads back to it.                                                        *)
LEMMA RecordRecalls ==
  ASSUME TypeOK, Revertible, NEW q, NEW d, NEW w,
         Record(q, d), Core(Base) = Core(d), Path(q, w, Core(d)), Solid(w)
  PROVE  /\ Recalls(undo', past', w) /\ Recalls(redo', future', w)
         /\ Cores(past') = CoreHistory!Pushed(Cores(past), Core(Base)) /\ Cores(future') = << >>
         /\ made' = made + 1
<1>1. undo' = Pushed(undo, q) /\ past' = Pushed(past, d) /\ redo' = << >> /\ future' = << >> /\ made' = made + 1
  BY DEF Record
<1> DEFINE S == ToSet(undo) \cup {q}
<1>2. undo \in Seq(S) /\ q \in S
  BY StackSeqs, SeqMonotonic
<1> HIDE DEF S
<1>3. Recalls(undo, past, Core(d))
  BY DEF Revertible
<1>4. Recalls(Pushed(undo, q), Pushed(past, d), w)
  BY <1>2, <1>3, RecallsPushed
<1>5. Recalls(<< >>, << >>, w)
  BY RecallsNone
<1>6. Cores(Pushed(past, d)) = CoreHistory!Pushed(Cores(past), Core(d))
  BY PastSeqs, CoresPushed
<1>7. QED
  BY <1>1, <1>4, <1>5, <1>6, NoCores

LEMMA HeldByRecord ==
  ASSUME Revertible, NEW q, NEW d \in Held, Record(q, d)
  PROVE  ToSet(past') \cup ToSet(future') \subseteq Held
<1>1. past' = Pushed(past, d) /\ future' = << >>
  BY DEF Record
<1>2. ToSet(past') \subseteq ToSet(past) \cup {d}
  BY <1>1, PastSeqs, PushedSet
<1>3. ToSet(future') = {}
  BY <1>1, NoneInNone
<1>4. QED
  BY <1>2, <1>3 DEF Held

LEMMA ApplyHolds ==
  ASSUME Revertible, NEW r, Apply(r), InHabit(habit, r.doc)
  PROVE  Holds
<1>1. /\ doc' = r.doc /\ file' = file /\ habit' = habit
      /\ r.ok => RecordDo(r.inverse)
      /\ ~r.ok => UNCHANGED <<stacks, group>>
  BY DEF Apply, disk
<1>2. ToSet(past') \cup ToSet(future') \subseteq Held /\ (Base' = doc' \/ Base' = Base)
  <2>1. CASE ~r.ok
    <3>1. past' = past /\ future' = future /\ pending' = pending /\ before' = before
      BY <1>1, <2>1 DEF stacks, group
    <3>2. QED
      BY <3>1 DEF Held, Base, InGroup
  <2>2. CASE r.ok /\ InGroup
    <3>1. past' = past /\ future' = future /\ before' = before
      BY <1>1, <2>2 DEF RecordDo, stacks
    <3>2. QED
      BY <2>2, <3>1 DEF Held, Base
  <2>3. CASE r.ok /\ ~InGroup
    <3>1. Record(r.inverse, doc) /\ pending' = pending
      BY <1>1, <2>3 DEF RecordDo, group
    <3>2. Base' = doc'
      BY <2>3, <3>1 DEF Base, InGroup
    <3>3. doc \in Held
      BY DEF Held
    <3>4. QED
      BY <3>1, <3>2, <3>3, HeldByRecord
  <2>4. QED
    BY <2>1, <2>2, <2>3
<1>3. QED
  BY <1>1, <1>2 DEF Held, Holds

(* An edit that is accepted leaves a way back, a rejected one no trace.     *)
LEMMA ApplyReverts ==
  ASSUME Distinct, Sound, Revertible, Issued,
         NEW r, IsOutcome(r, doc, Clips', Tracks', imported'), Edited(r, doc), Apply(r),
         InHabit(habit, r.doc)
  PROVE  Recorded
<1>0. Holds
  BY ApplyHolds
<1>1. TypeOK /\ revision \in Nat
  BY DEF Sound, TypeOK
<1>2. r.ok \in BOOLEAN
  BY DEF IsOutcome
<1>3. /\ doc' = r.doc /\ file' = file /\ UNCHANGED <<savedRevision, baseline>> /\ session' = session
      /\ r.ok => revision' = revision + 1 /\ RecordDo(r.inverse)
      /\ ~r.ok => UNCHANGED <<revision, made, stacks, group>>
  BY DEF Apply, disk
<1>4. CASE ~r.ok
  <2>1. r.doc = doc
    BY <1>4 DEF Edited
  <2>2. /\ doc' = doc /\ undo' = undo /\ redo' = redo /\ pending' = pending /\ revision' = revision
        /\ past' = past /\ future' = future /\ before' = before /\ made' = made
    BY <1>3, <1>4, <2>1 DEF stacks, group
  <2>3. Open' = Open /\ Base' = Base
    BY <2>2 DEF Open, Base, InGroup
  <2>4. Revertible'
    BY <1>3, <2>2, <2>3 DEF Revertible
  <2>5. Retold
    BY <1>3, <2>2, <2>3 DEF Retold, CoreHistory!history
  <2>6. QED
    BY <1>0, <1>1, <1>3, <2>2, <2>4, <2>5 DEF RevisionStep, Recorded
<1>5. CASE r.ok
  <2> DEFINE q == r.inverse
             y == Core(doc)
             w == Core(r.doc)
  <2>1. Solid(w) /\ Path(q, w, y)
    BY <1>5 DEF Edited
  <2>2. /\ Solid(y) /\ (file # NoFile => Solid(Core(file))) /\ Descends(Open, y, Core(Base))
        /\ Recalls(undo, past, Core(Base)) /\ Recalls(redo, future, Core(Base))
    BY DEF Revertible
  <2>3. revision' = revision + 1 /\ RecordDo(q)
    BY <1>3, <1>5
  <2>4. w = Core(doc')
    BY <1>3
  <2>5. y = Core(doc)
    OBVIOUS
  <2> HIDE DEF q, y, w
  <2>6. /\ Descends(Open', w, Core(Base')) /\ Recalls(undo', past', Core(Base')) /\ Recalls(redo', future', Core(Base'))
        /\ Retold
    <3>1. CASE InGroup
      <4>1. /\ pending' = Append(pending, q) /\ undo' = undo /\ redo' = redo
            /\ past' = past /\ future' = future /\ before' = before /\ made' = made
        BY <2>3, <3>1 DEF RecordDo, stacks
      <4> DEFINE S == ToSet(pending) \cup {q}
                 p == Append(pending, q)
      <4>2. pending \in Seq(S) /\ q \in S
        BY <1>1, <3>1, StackSeqs, SeqMonotonic
      <4> HIDE DEF S
      <4>3. Descends(pending, y, Core(Base))
        BY <2>2, <3>1 DEF Open
      <4>4. Descends(p, w, Core(Base))
        BY <2>1, <4>2, <4>3, DescendsPush
      <4>5. p \in Seq(S)
        BY <4>2, AppendProperties
      <4>6. Open' = p /\ InGroup'
        BY <4>1, <4>5 DEF Open, InGroup, Distinct
      <4> HIDE DEF p
      <4>7. Base' = Base
        BY <3>1, <4>1, <4>6 DEF Base
      <4>8. CoreHistory!GroupedEdit
        BY <1>3, <4>1, <4>7 DEF CoreHistory!GroupedEdit
      <4>9. Retold
        BY <4>8 DEF Retold, CoreHistory!Next
      <4>10. QED
        BY <2>2, <4>1, <4>4, <4>6, <4>7, <4>9
    <3>2. CASE ~InGroup
      <4>1. Record(q, doc) /\ pending' = pending
        BY <2>3, <3>2 DEF RecordDo, group
      <4>2. Open' = << >> /\ Base = doc /\ Base' = doc'
        BY <3>2, <4>1 DEF Open, InGroup, Base
      <4>3. /\ Recalls(undo', past', w) /\ Recalls(redo', future', w)
            /\ Cores(past') = CoreHistory!Pushed(Cores(past), Core(Base)) /\ Cores(future') = << >>
            /\ made' = made + 1
        BY <1>1, <2>1, <2>5, <4>1, <4>2, RecordRecalls
      <4>4. Descends(<< >>, w, w)
        BY <2>1, DescendsNone
      <4>5. CoreHistory!Edit
        BY <1>3, <4>2, <4>3 DEF CoreHistory!Edit
      <4>6. Retold
        BY <4>5 DEF Retold, CoreHistory!Next
      <4>7. QED
        BY <2>4, <4>2, <4>3, <4>4, <4>6
    <3>3. QED
      BY <3>1, <3>2
  <2>7. Revertible'
    BY <1>3, <2>1, <2>2, <2>4, <2>6 DEF Revertible
  <2>8. revision' # revision /\ revision' \in Nat /\ revision' >= revision
    BY <1>1, <2>3
  <2>9. QED
    BY <1>0, <1>3, <2>6, <2>7, <2>8 DEF RevisionStep, Recorded
<1>6. QED
  BY <1>2, <1>4, <1>5

LEMMA ApplyStructuralReverts ==
  ASSUME Distinct, Sound, Revertible, Issued,
         NEW r, IsOutcome(r, doc, Clips', Tracks', imported'), Edited(r, doc), ApplyStructural(r),
         InHabit(habit, doc), r.ok => LeavesLanes(r.doc, doc)
  PROVE  Recorded
<1>1. Within(doc, Clips', Tracks', imported')
  BY IssuedFacts DEF Sound
<1> DEFINE q == Structural(doc, r)
<1>2. IsOutcome(q, doc, Clips', Tracks', imported')
  BY <1>1, StructuralOutcome
<1>3. Edited(q, doc)
  BY <1>1, StructuralEdited
<1>4. Apply(q)
  BY DEF ApplyStructural
<1>5. InHabit(habit, q.doc)
  <2>1. r.ok => IsDocument(r.doc)
    BY DEF IsOutcome, Within
  <2>2. ~r.ok => r.doc = doc
    BY DEF Edited
  <2>3. QED
    BY <2>1, <2>2, StructuralInHabit
<1> HIDE DEF q
<1>6. QED
  BY <1>2, <1>3, <1>4, <1>5, ApplyReverts

LEMMA RevisionTells ==
  ASSUME Sound, CleanMeansSaved, Recorded
  PROVE  CleanMeansSaved'
  BY DEF Sound, TypeOK, CleanMeansSaved, RevisionStep, Recorded

-----------------------------------------------------------------------------
(* Each command leaves a way back *)

LEMMA TickFacts ==
  ASSUME Timely, TypeOK
  PROVE  \A x \in habit.ticks : x \in Nat
  BY DEF Timely, TypeOK

LEMMA DocumentFacts ==
  ASSUME TypeOK, Revertible
  PROVE  /\ IsDocument(doc) /\ Solid(Core(doc)) /\ IsFiniteSet(Placed(doc))
         /\ nextClip \notin Placed(doc)
<1>1. IsDocument(doc) /\ Placed(doc) \subseteq Clips
  BY DEF TypeOK, Within
<1>2. IsFiniteSet(Clips)
  BY IdFacts
<1>3. nextClip \notin Clips
  BY DEF TypeOK, Clips
<1>4. QED
  BY <1>1, <1>2, <1>3, FS_Subset DEF Revertible

LEMMA HabitFactsOf ==
  ASSUME TypeOK, HabitKept
  PROVE  habit \in Habits /\ IsDocument(doc) /\ InHabit(habit, doc)
  BY DEF TypeOK, HabitKept, Held

LEMMA CommandsOf ==
  ASSUME NEW name, Enabled(name)
  PROVE  name \in habit.commands
  BY DEF Enabled

LEMMA AddTrackRecorded ==
  ASSUME Timely, Distinct, Sound, Revertible, HabitKept, DoAddTrack
  PROVE  Recorded
<1>1. TypeOK
  BY DEF Sound
<1>0. habit \in Habits /\ IsDocument(doc) /\ InHabit(habit, doc)
  BY <1>1, HabitFactsOf
<1>2. Issued /\ nextTrack \in Tracks' /\ nextTrack \notin Lanes(doc)
  BY <1>1, FreshTrackFacts, DocFacts DEF DoAddTrack
<1>3. PICK kind \in habit.kinds, index \in 1 .. Len(doc.order) + 1 : Apply(AddTrack(doc, nextTrack, kind, index))
  BY DEF DoAddTrack
<1>4. kind \in Kind /\ index \in Nat \ {0}
  BY <1>1, HabitFacts, DocFacts
<1>5. /\ Clips' \in SUBSET ClipId /\ IsFiniteSet(Clips') /\ Tracks' \in SUBSET TrackId
      /\ imported' \in SUBSET Media /\ Within(doc, Clips', Tracks', imported')
  BY <1>1, <1>2, IssuedFacts
<1> DEFINE r == AddTrack(doc, nextTrack, kind, index)
<1>6. IsOutcome(r, doc, Clips', Tracks', imported')
  BY <1>2, <1>4, <1>5, AddTrackOutcome
<1>7. Apply(r)
  BY <1>3
<1>8. IsDocument(doc) /\ Solid(Core(doc)) /\ IsFiniteSet(Placed(doc)) /\ nextClip \notin Placed(doc)
  BY <1>1, DocumentFacts
<1>9. Edited(r, doc)
  BY <1>2, <1>4, <1>5, <1>8, AddTrackEdited
<1>10. InHabit(habit, r.doc)
  <2>1. Tidy /\ "RemoveTrack" \in habit.commands => kind # "sticker"
    BY <1>3, <1>0, KindInHabit
  <2>2. r.doc = InsertTrack(doc, nextTrack, NewTrack(kind), index)
    BY DEF AddTrack, Accepted
  <2>3. InHabit(habit, InsertTrack(doc, nextTrack, NewTrack(kind), index))
    BY <1>0, <1>2, <1>4, <1>5, <2>1, AddTrackInHabit
  <2>4. QED
    BY <2>2, <2>3
<1> HIDE DEF r
<1>11. QED
  BY <1>2, <1>6, <1>7, <1>9, <1>10, ApplyReverts

LEMMA RemoveTrackRecorded ==
  ASSUME Timely, Distinct, Sound, Revertible, HabitKept, DoRemoveTrack
  PROVE  Recorded
<1>1. TypeOK
  BY DEF Sound
<1>0. habit \in Habits /\ IsDocument(doc) /\ InHabit(habit, doc)
  BY <1>1, HabitFactsOf
<1>2. Issued
  BY <1>1, NoFreshFacts, DocFacts DEF DoRemoveTrack
<1>3. PICK t \in Lanes(doc) : ApplyStructural(RemoveTrack(doc, t))
  BY DEF DoRemoveTrack
<1>5. /\ Clips' \in SUBSET ClipId /\ IsFiniteSet(Clips') /\ Tracks' \in SUBSET TrackId
      /\ imported' \in SUBSET Media /\ Within(doc, Clips', Tracks', imported')
  BY <1>1, <1>2, IssuedFacts
<1> DEFINE r == RemoveTrack(doc, t)
<1>6. IsOutcome(r, doc, Clips', Tracks', imported')
  BY <1>2, <1>5, RemoveTrackOutcome
<1>7. ApplyStructural(r)
  BY <1>3
<1>8. IsDocument(doc) /\ Solid(Core(doc)) /\ IsFiniteSet(Placed(doc)) /\ nextClip \notin Placed(doc)
  BY <1>1, DocumentFacts
<1>4. Removable(doc, t)
  BY <1>0, CommandsOf DEF DoRemoveTrack, InHabit, StickerLanes, Removable, Reversible
<1>9. Edited(r, doc)
  BY <1>2, <1>5, <1>8, <1>4, RemoveTrackEdited
<1>10. r.ok => LeavesLanes(r.doc, doc)
  BY <1>0, <1>3, RemoveTrackLeaves
<1> HIDE DEF r
<1>11. QED
  BY <1>2, <1>6, <1>7, <1>9, <1>0, <1>10, ApplyStructuralReverts

LEMMA MoveTrackRecorded ==
  ASSUME Timely, Distinct, Sound, Revertible, HabitKept, DoMoveTrack
  PROVE  Recorded
<1>1. TypeOK
  BY DEF Sound
<1>0. habit \in Habits /\ IsDocument(doc) /\ InHabit(habit, doc)
  BY <1>1, HabitFactsOf
<1>2. Issued
  BY <1>1, NoFreshFacts, DocFacts DEF DoMoveTrack
<1>3. PICK t \in Lanes(doc), index \in 1 .. Len(doc.order) : Apply(MoveTrack(doc, t, index))
  BY DEF DoMoveTrack
<1>4. index \in Nat \ {0}
  BY <1>1, HabitFacts, DocFacts
<1>5. /\ Clips' \in SUBSET ClipId /\ IsFiniteSet(Clips') /\ Tracks' \in SUBSET TrackId
      /\ imported' \in SUBSET Media /\ Within(doc, Clips', Tracks', imported')
  BY <1>1, <1>2, IssuedFacts
<1> DEFINE r == MoveTrack(doc, t, index)
<1>6. IsOutcome(r, doc, Clips', Tracks', imported')
  BY <1>2, <1>4, <1>5, UnmoveTrackOutcome
<1>7. Apply(r)
  BY <1>3
<1>8. IsDocument(doc) /\ Solid(Core(doc)) /\ IsFiniteSet(Placed(doc)) /\ nextClip \notin Placed(doc)
  BY <1>1, DocumentFacts
<1>9. Edited(r, doc)
  BY <1>2, <1>4, <1>5, <1>8, MoveTrackEdited
<1>10. InHabit(habit, r.doc)
  BY <1>0, <1>3, <1>4, MoveTrackInHabit
<1> HIDE DEF r
<1>11. QED
  BY <1>2, <1>6, <1>7, <1>9, <1>10, ApplyReverts

LEMMA AddClipRecorded ==
  ASSUME Timely, Distinct, Sound, Revertible, HabitKept, DoAddClip
  PROVE  Recorded
<1>1. TypeOK
  BY DEF Sound
<1>0. habit \in Habits /\ IsDocument(doc) /\ InHabit(habit, doc)
  BY <1>1, HabitFactsOf
<1>2. Issued /\ nextClip \in Clips'
  BY <1>1, FreshClipFacts, DocFacts DEF DoAddClip
<1>3. PICK t \in Lanes(doc), m \in Media, in \in habit.ticks, len \in habit.lengths, at \in habit.ticks : Apply(AddClip(doc, nextClip, t, m, in, len, at))
  BY DEF DoAddClip
<1>4. t \in TrackId /\ m \in Media /\ in \in Int /\ len \in Int /\ at \in Int
  BY <1>1, HabitFacts, DocFacts
<1>5. /\ Clips' \in SUBSET ClipId /\ IsFiniteSet(Clips') /\ Tracks' \in SUBSET TrackId
      /\ imported' \in SUBSET Media /\ Within(doc, Clips', Tracks', imported')
  BY <1>1, <1>2, IssuedFacts
<1> DEFINE r == AddClip(doc, nextClip, t, m, in, len, at)
<1>6. IsOutcome(r, doc, Clips', Tracks', imported')
  BY <1>2, <1>4, <1>5, AddClipOutcome
<1>7. Apply(r)
  BY <1>3
<1>8. IsDocument(doc) /\ Solid(Core(doc)) /\ IsFiniteSet(Placed(doc)) /\ nextClip \notin Placed(doc)
  BY <1>1, DocumentFacts
<1>9. at \in Nat
  BY <1>1, TickFacts
<1>10. Edited(r, doc)
  BY <1>2, <1>4, <1>5, <1>8, <1>9, AddClipEdited
<1>11. InHabit(habit, r.doc)
  BY <1>0, AddClipInHabit
<1> HIDE DEF r
<1>12. QED
  BY <1>2, <1>6, <1>7, <1>10, <1>11, ApplyReverts

LEMMA AddGeneratedRecorded ==
  ASSUME Timely, Distinct, Sound, Revertible, HabitKept, DoAddGenerated
  PROVE  Recorded
<1>1. TypeOK
  BY DEF Sound
<1>0. habit \in Habits /\ IsDocument(doc) /\ InHabit(habit, doc)
  BY <1>1, HabitFactsOf
<1>2. Issued /\ nextClip \in Clips'
  BY <1>1, FreshClipFacts, DocFacts DEF DoAddGenerated
<1>3. PICK t \in Lanes(doc), content \in Generated, at \in habit.ticks, dur \in habit.lengths : Apply(AddGenerated(doc, nextClip, t, content, at, dur))
  BY DEF DoAddGenerated
<1>4. t \in TrackId /\ at \in Int /\ dur \in Int
  BY <1>1, HabitFacts, DocFacts
<1>5. /\ Clips' \in SUBSET ClipId /\ IsFiniteSet(Clips') /\ Tracks' \in SUBSET TrackId
      /\ imported' \in SUBSET Media /\ Within(doc, Clips', Tracks', imported')
  BY <1>1, <1>2, IssuedFacts
<1> DEFINE r == AddGenerated(doc, nextClip, t, content, at, dur)
<1>6. IsOutcome(r, doc, Clips', Tracks', imported')
  BY <1>2, <1>4, <1>5, AddGeneratedOutcome
<1>7. Apply(r)
  BY <1>3
<1>8. IsDocument(doc) /\ Solid(Core(doc)) /\ IsFiniteSet(Placed(doc)) /\ nextClip \notin Placed(doc)
  BY <1>1, DocumentFacts
<1>9. at \in Nat
  BY <1>1, TickFacts
<1>10. content \notin Media
  BY DEF Distinct
<1>11. Edited(r, doc)
  BY <1>2, <1>4, <1>5, <1>8, <1>9, <1>10, AddGeneratedEdited
<1>12. InHabit(habit, r.doc)
  BY <1>0, AddGeneratedInHabit
<1> HIDE DEF r
<1>13. QED
  BY <1>2, <1>6, <1>7, <1>11, <1>12, ApplyReverts

LEMMA DuplicateClipRecorded ==
  ASSUME Timely, Distinct, Sound, Revertible, HabitKept, DoDuplicateClip
  PROVE  Recorded
<1>1. TypeOK
  BY DEF Sound
<1>0. habit \in Habits /\ IsDocument(doc) /\ InHabit(habit, doc)
  BY <1>1, HabitFactsOf
<1>2. Issued /\ nextClip \in Clips'
  BY <1>1, FreshClipFacts, DocFacts DEF DoDuplicateClip
<1>3. PICK of \in Placed(doc), t \in Lanes(doc), at \in habit.ticks : ApplyStructural(DuplicateClip(doc, nextClip, of, t, at))
  BY DEF DoDuplicateClip
<1>4. t \in TrackId /\ at \in Int
  BY <1>1, HabitFacts, DocFacts
<1>5. /\ Clips' \in SUBSET ClipId /\ IsFiniteSet(Clips') /\ Tracks' \in SUBSET TrackId
      /\ imported' \in SUBSET Media /\ Within(doc, Clips', Tracks', imported')
  BY <1>1, <1>2, IssuedFacts
<1> DEFINE r == DuplicateClip(doc, nextClip, of, t, at)
<1>6. IsOutcome(r, doc, Clips', Tracks', imported')
  BY <1>2, <1>4, <1>5, DuplicateClipOutcome
<1>7. ApplyStructural(r)
  BY <1>3
<1>8. IsDocument(doc) /\ Solid(Core(doc)) /\ IsFiniteSet(Placed(doc)) /\ nextClip \notin Placed(doc)
  BY <1>1, DocumentFacts
<1>9. Edited(r, doc)
  BY <1>2, <1>4, <1>5, <1>8, DuplicateClipEdited
<1>10. r.ok => LeavesLanes(r.doc, doc)
  BY <1>0, DuplicateClipLeaves
<1> HIDE DEF r
<1>11. QED
  BY <1>2, <1>6, <1>7, <1>9, <1>0, <1>10, ApplyStructuralReverts

LEMMA SplitClipRecorded ==
  ASSUME Timely, Distinct, Sound, Revertible, HabitKept, DoSplitClip
  PROVE  Recorded
<1>1. TypeOK
  BY DEF Sound
<1>0. habit \in Habits /\ IsDocument(doc) /\ InHabit(habit, doc)
  BY <1>1, HabitFactsOf
<1>2. Issued /\ nextClip \in Clips'
  BY <1>1, FreshClipFacts, DocFacts DEF DoSplitClip
<1>3. PICK c \in Placed(doc), at \in habit.ticks : ApplyStructural(SplitClip(doc, nextClip, c, at))
  BY DEF DoSplitClip
<1>4. at \in Int
  BY <1>1, HabitFacts, DocFacts
<1>5. /\ Clips' \in SUBSET ClipId /\ IsFiniteSet(Clips') /\ Tracks' \in SUBSET TrackId
      /\ imported' \in SUBSET Media /\ Within(doc, Clips', Tracks', imported')
  BY <1>1, <1>2, IssuedFacts
<1> DEFINE r == SplitClip(doc, nextClip, c, at)
<1>6. IsOutcome(r, doc, Clips', Tracks', imported')
  BY <1>2, <1>4, <1>5, SplitClipOutcome
<1>7. ApplyStructural(r)
  BY <1>3
<1>8. IsDocument(doc) /\ Solid(Core(doc)) /\ IsFiniteSet(Placed(doc)) /\ nextClip \notin Placed(doc)
  BY <1>1, DocumentFacts
<1>9. Edited(r, doc)
  BY <1>2, <1>4, <1>5, <1>8, SplitClipEdited
<1>10. r.ok => LeavesLanes(r.doc, doc)
  BY <1>0, SplitClipLeaves
<1> HIDE DEF r
<1>11. QED
  BY <1>2, <1>6, <1>7, <1>9, <1>0, <1>10, ApplyStructuralReverts

LEMMA TrimClipRecorded ==
  ASSUME Timely, Distinct, Sound, Revertible, HabitKept, DoTrimClip
  PROVE  Recorded
<1>1. TypeOK
  BY DEF Sound
<1>0. habit \in Habits /\ IsDocument(doc) /\ InHabit(habit, doc)
  BY <1>1, HabitFactsOf
<1>2. Issued
  BY <1>1, NoFreshFacts, DocFacts DEF DoTrimClip
<1>3. PICK c \in Placed(doc), at \in habit.ticks, dur \in habit.lengths : ApplyStructural(TrimClip(doc, c, at, dur))
  BY DEF DoTrimClip
<1>4. at \in Int /\ dur \in Int
  BY <1>1, HabitFacts, DocFacts
<1>5. /\ Clips' \in SUBSET ClipId /\ IsFiniteSet(Clips') /\ Tracks' \in SUBSET TrackId
      /\ imported' \in SUBSET Media /\ Within(doc, Clips', Tracks', imported')
  BY <1>1, <1>2, IssuedFacts
<1> DEFINE r == TrimClip(doc, c, at, dur)
<1>6. IsOutcome(r, doc, Clips', Tracks', imported')
  BY <1>2, <1>4, <1>5, TrimClipOutcome
<1>7. ApplyStructural(r)
  BY <1>3
<1>8. IsDocument(doc) /\ Solid(Core(doc)) /\ IsFiniteSet(Placed(doc)) /\ nextClip \notin Placed(doc)
  BY <1>1, DocumentFacts
<1>9. at \in Nat
  BY <1>1, TickFacts
<1>10. Edited(r, doc)
  BY <1>2, <1>4, <1>5, <1>8, <1>9, TrimClipEdited
<1>11. r.ok => LeavesLanes(r.doc, doc)
  BY <1>0, TrimClipLeaves
<1> HIDE DEF r
<1>12. QED
  BY <1>2, <1>6, <1>7, <1>10, <1>0, <1>11, ApplyStructuralReverts

LEMMA MoveClipRecorded ==
  ASSUME Timely, Distinct, Sound, Revertible, HabitKept, DoMoveClip
  PROVE  Recorded
<1>1. TypeOK
  BY DEF Sound
<1>0. habit \in Habits /\ IsDocument(doc) /\ InHabit(habit, doc)
  BY <1>1, HabitFactsOf
<1>2. Issued
  BY <1>1, NoFreshFacts, DocFacts DEF DoMoveClip
<1>3. PICK c \in Placed(doc), t \in Lanes(doc), at \in habit.ticks : ApplyStructural(MoveClip(doc, c, t, at))
  BY DEF DoMoveClip
<1>4. at \in Int
  BY <1>1, HabitFacts, DocFacts
<1>5. /\ Clips' \in SUBSET ClipId /\ IsFiniteSet(Clips') /\ Tracks' \in SUBSET TrackId
      /\ imported' \in SUBSET Media /\ Within(doc, Clips', Tracks', imported')
  BY <1>1, <1>2, IssuedFacts
<1> DEFINE r == MoveClip(doc, c, t, at)
<1>6. IsOutcome(r, doc, Clips', Tracks', imported')
  BY <1>2, <1>4, <1>5, MoveClipOutcome
<1>7. ApplyStructural(r)
  BY <1>3
<1>8. IsDocument(doc) /\ Solid(Core(doc)) /\ IsFiniteSet(Placed(doc)) /\ nextClip \notin Placed(doc)
  BY <1>1, DocumentFacts
<1>9. Edited(r, doc)
  BY <1>2, <1>4, <1>5, <1>8, MoveClipEdited
<1>10. r.ok => LeavesLanes(r.doc, doc)
  BY <1>0, MoveClipLeaves
<1> HIDE DEF r
<1>11. QED
  BY <1>2, <1>6, <1>7, <1>9, <1>0, <1>10, ApplyStructuralReverts

LEMMA RemoveClipRecorded ==
  ASSUME Timely, Distinct, Sound, Revertible, HabitKept, DoRemoveClip
  PROVE  Recorded
<1>1. TypeOK
  BY DEF Sound
<1>0. habit \in Habits /\ IsDocument(doc) /\ InHabit(habit, doc)
  BY <1>1, HabitFactsOf
<1>2. Issued
  BY <1>1, NoFreshFacts, DocFacts DEF DoRemoveClip
<1>3. PICK c \in Placed(doc) : ApplyStructural(RemoveClip(doc, c))
  BY DEF DoRemoveClip
<1>5. /\ Clips' \in SUBSET ClipId /\ IsFiniteSet(Clips') /\ Tracks' \in SUBSET TrackId
      /\ imported' \in SUBSET Media /\ Within(doc, Clips', Tracks', imported')
  BY <1>1, <1>2, IssuedFacts
<1> DEFINE r == RemoveClip(doc, c)
<1>6. IsOutcome(r, doc, Clips', Tracks', imported')
  BY <1>2, <1>5, RemoveClipOutcome
<1>7. ApplyStructural(r)
  BY <1>3
<1>8. IsDocument(doc) /\ Solid(Core(doc)) /\ IsFiniteSet(Placed(doc)) /\ nextClip \notin Placed(doc)
  BY <1>1, DocumentFacts
<1>9. Edited(r, doc)
  BY <1>2, <1>5, <1>8, RemoveClipEdited
<1>10. r.ok => LeavesLanes(r.doc, doc)
  BY <1>0, RemoveClipLeaves
<1> HIDE DEF r
<1>11. QED
  BY <1>2, <1>6, <1>7, <1>9, <1>0, <1>10, ApplyStructuralReverts

LEMMA RippleDeleteRecorded ==
  ASSUME Timely, Distinct, Sound, Revertible, HabitKept, DoRippleDelete
  PROVE  Recorded
<1>1. TypeOK
  BY DEF Sound
<1>0. habit \in Habits /\ IsDocument(doc) /\ InHabit(habit, doc)
  BY <1>1, HabitFactsOf
<1>2. Issued
  BY <1>1, NoFreshFacts, DocFacts DEF DoRippleDelete
<1>3. PICK c \in Placed(doc) : ApplyStructural(RippleDelete(doc, c))
  BY DEF DoRippleDelete
<1>5. /\ Clips' \in SUBSET ClipId /\ IsFiniteSet(Clips') /\ Tracks' \in SUBSET TrackId
      /\ imported' \in SUBSET Media /\ Within(doc, Clips', Tracks', imported')
  BY <1>1, <1>2, IssuedFacts
<1> DEFINE r == RippleDelete(doc, c)
<1>6. IsOutcome(r, doc, Clips', Tracks', imported')
  BY <1>2, <1>5, RippleDeleteOutcome
<1>7. ApplyStructural(r)
  BY <1>3
<1>8. IsDocument(doc) /\ Solid(Core(doc)) /\ IsFiniteSet(Placed(doc)) /\ nextClip \notin Placed(doc)
  BY <1>1, DocumentFacts
<1>9. Edited(r, doc)
  BY <1>2, <1>5, <1>8, RippleDeleteEdited
<1>10. r.ok => LeavesLanes(r.doc, doc)
  BY <1>0, RippleDeleteLeaves
<1> HIDE DEF r
<1>11. QED
  BY <1>2, <1>6, <1>7, <1>9, <1>0, <1>10, ApplyStructuralReverts

LEMMA ShiftClipsRecorded ==
  ASSUME Timely, Distinct, Sound, Revertible, HabitKept, DoShiftClips
  PROVE  Recorded
<1>1. TypeOK
  BY DEF Sound
<1>0. habit \in Habits /\ IsDocument(doc) /\ InHabit(habit, doc)
  BY <1>1, HabitFactsOf
<1>2. Issued
  BY <1>1, NoFreshFacts, DocFacts DEF DoShiftClips
<1>3. PICK t \in Lanes(doc), from \in habit.ticks, by \in habit.lengths, sign \in {1, -1} : ApplyStructural(ShiftClips(doc, t, from, sign * by))
  BY DEF DoShiftClips
<1>4. from \in Int /\ sign * by \in Int
  BY <1>1, HabitFacts, DocFacts
<1>5. /\ Clips' \in SUBSET ClipId /\ IsFiniteSet(Clips') /\ Tracks' \in SUBSET TrackId
      /\ imported' \in SUBSET Media /\ Within(doc, Clips', Tracks', imported')
  BY <1>1, <1>2, IssuedFacts
<1> DEFINE r == ShiftClips(doc, t, from, sign * by)
<1>6. IsOutcome(r, doc, Clips', Tracks', imported')
  BY <1>2, <1>4, <1>5, ShiftClipsOutcome
<1>7. ApplyStructural(r)
  BY <1>3
<1>8. IsDocument(doc) /\ Solid(Core(doc)) /\ IsFiniteSet(Placed(doc)) /\ nextClip \notin Placed(doc)
  BY <1>1, DocumentFacts
<1>9. Edited(r, doc)
  BY <1>2, <1>4, <1>5, <1>8, ShiftClipsEdited
<1>10. r.ok => LeavesLanes(r.doc, doc)
  BY <1>0, ShiftClipsLeaves
<1> HIDE DEF r
<1>11. QED
  BY <1>2, <1>6, <1>7, <1>9, <1>0, <1>10, ApplyStructuralReverts

LEMMA RippleInsertRecorded ==
  ASSUME Timely, Distinct, Sound, Revertible, HabitKept, DoRippleInsert
  PROVE  Recorded
<1>1. TypeOK
  BY DEF Sound
<1>0. habit \in Habits /\ IsDocument(doc) /\ InHabit(habit, doc)
  BY <1>1, HabitFactsOf
<1>2. Issued /\ nextClip \in Clips'
  BY <1>1, FreshClipFacts, DocFacts DEF DoRippleInsert
<1>3. PICK t \in Lanes(doc), m \in Media, in \in habit.ticks, len \in habit.lengths, at \in habit.ticks : ApplyStructural(RippleInsert(doc, nextClip, t, m, in, len, at))
  BY DEF DoRippleInsert
<1>4. t \in TrackId /\ m \in Media /\ in \in Int /\ len \in Int /\ at \in Int
  BY <1>1, HabitFacts, DocFacts
<1>5. /\ Clips' \in SUBSET ClipId /\ IsFiniteSet(Clips') /\ Tracks' \in SUBSET TrackId
      /\ imported' \in SUBSET Media /\ Within(doc, Clips', Tracks', imported')
  BY <1>1, <1>2, IssuedFacts
<1> DEFINE r == RippleInsert(doc, nextClip, t, m, in, len, at)
<1>6. IsOutcome(r, doc, Clips', Tracks', imported')
  BY <1>2, <1>4, <1>5, RippleInsertOutcome
<1>7. ApplyStructural(r)
  BY <1>3
<1>8. IsDocument(doc) /\ Solid(Core(doc)) /\ IsFiniteSet(Placed(doc)) /\ nextClip \notin Placed(doc)
  BY <1>1, DocumentFacts
<1>9. at \in Nat
  BY <1>1, TickFacts
<1>10. Edited(r, doc)
  BY <1>2, <1>4, <1>5, <1>8, <1>9, RippleInsertEdited
<1>11. r.ok => LeavesLanes(r.doc, doc)
  BY <1>0, RippleInsertLeaves
<1> HIDE DEF r
<1>12. QED
  BY <1>2, <1>6, <1>7, <1>10, <1>0, <1>11, ApplyStructuralReverts

LEMMA SetClipSpeedRecorded ==
  ASSUME Timely, Distinct, Sound, Revertible, HabitKept, DoSetClipSpeed
  PROVE  Recorded
<1>1. TypeOK
  BY DEF Sound
<1>0. habit \in Habits /\ IsDocument(doc) /\ InHabit(habit, doc)
  BY <1>1, HabitFactsOf
<1>2. Issued
  BY <1>1, NoFreshFacts, DocFacts DEF DoSetClipSpeed
<1>3. PICK c \in Placed(doc), speed \in habit.speeds : Apply(SetClipSpeed(doc, c, speed))
  BY DEF DoSetClipSpeed
<1>4. speed \in Int
  BY <1>1, HabitFacts, DocFacts
<1>5. /\ Clips' \in SUBSET ClipId /\ IsFiniteSet(Clips') /\ Tracks' \in SUBSET TrackId
      /\ imported' \in SUBSET Media /\ Within(doc, Clips', Tracks', imported')
  BY <1>1, <1>2, IssuedFacts
<1> DEFINE r == SetClipSpeed(doc, c, speed)
<1>6. IsOutcome(r, doc, Clips', Tracks', imported')
  BY <1>2, <1>4, <1>5, SetClipSpeedOutcome
<1>7. Apply(r)
  BY <1>3
<1>8. IsDocument(doc) /\ Solid(Core(doc)) /\ IsFiniteSet(Placed(doc)) /\ nextClip \notin Placed(doc)
  BY <1>1, DocumentFacts
<1>9. Edited(r, doc)
  BY <1>2, <1>4, <1>5, <1>8, SetClipSpeedEdited
<1>10. InHabit(habit, r.doc)
  <2>1. Steady => ~HasTransitions(doc)
    BY <1>0, CommandsOf DEF DoSetClipSpeed, InHabit
  <2>2. ~r.ok => r.doc = doc
    BY <1>9 DEF Edited
  <2> DEFINE p == r
  <2>3. p = SetClipSpeed(doc, c, speed) /\ (~p.ok => p.doc = doc)
    BY <2>2
  <2> HIDE DEF p
  <2>4. InHabit(habit, p.doc)
    BY <1>0, <2>1, <2>3, SetClipSpeedInHabit
  <2>5. QED
    BY <2>4 DEF p
<1> HIDE DEF r
<1>11. QED
  BY <1>2, <1>6, <1>7, <1>9, <1>10, ApplyReverts

LEMMA AddTransitionRecorded ==
  ASSUME Timely, Distinct, Sound, Revertible, HabitKept, DoAddTransition
  PROVE  Recorded
<1>1. TypeOK
  BY DEF Sound
<1>0. habit \in Habits /\ IsDocument(doc) /\ InHabit(habit, doc)
  BY <1>1, HabitFactsOf
<1>2. Issued
  BY <1>1, NoFreshFacts, DocFacts DEF DoAddTransition
<1>3. PICK c \in Placed(doc) : Apply(AddTransition(doc, c))
  BY DEF DoAddTransition
<1>5. /\ Clips' \in SUBSET ClipId /\ IsFiniteSet(Clips') /\ Tracks' \in SUBSET TrackId
      /\ imported' \in SUBSET Media /\ Within(doc, Clips', Tracks', imported')
  BY <1>1, <1>2, IssuedFacts
<1> DEFINE r == AddTransition(doc, c)
<1>6. IsOutcome(r, doc, Clips', Tracks', imported')
  BY <1>2, <1>5, AddTransitionOutcome
<1>7. Apply(r)
  BY <1>3
<1>8. IsDocument(doc) /\ Solid(Core(doc)) /\ IsFiniteSet(Placed(doc)) /\ nextClip \notin Placed(doc)
  BY <1>1, DocumentFacts
<1>9. Edited(r, doc)
  BY <1>2, <1>5, <1>8, AddTransitionEdited
<1>10. InHabit(habit, r.doc)
  BY <1>0, CommandsOf, AddTransitionInHabit DEF DoAddTransition
<1> HIDE DEF r
<1>11. QED
  BY <1>2, <1>6, <1>7, <1>9, <1>10, ApplyReverts

LEMMA RemoveTransitionRecorded ==
  ASSUME Timely, Distinct, Sound, Revertible, HabitKept, DoRemoveTransition
  PROVE  Recorded
<1>1. TypeOK
  BY DEF Sound
<1>0. habit \in Habits /\ IsDocument(doc) /\ InHabit(habit, doc)
  BY <1>1, HabitFactsOf
<1>2. Issued
  BY <1>1, NoFreshFacts, DocFacts DEF DoRemoveTransition
<1>3. PICK c \in Placed(doc) : Apply(RemoveTransition(doc, c))
  BY DEF DoRemoveTransition
<1>5. /\ Clips' \in SUBSET ClipId /\ IsFiniteSet(Clips') /\ Tracks' \in SUBSET TrackId
      /\ imported' \in SUBSET Media /\ Within(doc, Clips', Tracks', imported')
  BY <1>1, <1>2, IssuedFacts
<1> DEFINE r == RemoveTransition(doc, c)
<1>6. IsOutcome(r, doc, Clips', Tracks', imported')
  BY <1>2, <1>5, RemoveTransitionOutcome
<1>7. Apply(r)
  BY <1>3
<1>8. IsDocument(doc) /\ Solid(Core(doc)) /\ IsFiniteSet(Placed(doc)) /\ nextClip \notin Placed(doc)
  BY <1>1, DocumentFacts
<1>9. Edited(r, doc)
  BY <1>2, <1>5, <1>8, RemoveTransitionEdited
<1>10. InHabit(habit, r.doc)
  BY <1>0, RemoveTransitionInHabit
<1> HIDE DEF r
<1>11. QED
  BY <1>2, <1>6, <1>7, <1>9, <1>10, ApplyReverts

LEMMA SetTransitionRecorded ==
  ASSUME Timely, Distinct, Sound, Revertible, HabitKept, DoSetTransition
  PROVE  Recorded
<1>1. TypeOK
  BY DEF Sound
<1>0. habit \in Habits /\ IsDocument(doc) /\ InHabit(habit, doc)
  BY <1>1, HabitFactsOf
<1>2. Issued
  BY <1>1, NoFreshFacts, DocFacts DEF DoSetTransition
<1>3. PICK c \in Placed(doc), window \in habit.lengths : Apply(SetTransition(doc, c, window))
  BY DEF DoSetTransition
<1>4. window \in Int
  BY <1>1, HabitFacts, DocFacts
<1>5. /\ Clips' \in SUBSET ClipId /\ IsFiniteSet(Clips') /\ Tracks' \in SUBSET TrackId
      /\ imported' \in SUBSET Media /\ Within(doc, Clips', Tracks', imported')
  BY <1>1, <1>2, IssuedFacts
<1> DEFINE r == SetTransition(doc, c, window)
<1>6. IsOutcome(r, doc, Clips', Tracks', imported')
  BY <1>2, <1>4, <1>5, SetTransitionOutcome
<1>7. Apply(r)
  BY <1>3
<1>8. IsDocument(doc) /\ Solid(Core(doc)) /\ IsFiniteSet(Placed(doc)) /\ nextClip \notin Placed(doc)
  BY <1>1, DocumentFacts
<1>9. Edited(r, doc)
  BY <1>2, <1>4, <1>5, <1>8, SetTransitionEdited
<1>10. InHabit(habit, r.doc)
  BY <1>0, SetTransitionInHabit
<1> HIDE DEF r
<1>11. QED
  BY <1>2, <1>6, <1>7, <1>9, <1>10, ApplyReverts

LEMMA RemoveMediaRecorded ==
  ASSUME Timely, Distinct, Sound, Revertible, HabitKept, DoRemoveMedia
  PROVE  Recorded
<1>1. TypeOK
  BY DEF Sound
<1>0. habit \in Habits /\ IsDocument(doc) /\ InHabit(habit, doc)
  BY <1>1, HabitFactsOf
<1>2. Issued
  BY <1>1, NoFreshFacts, DocFacts DEF DoRemoveMedia
<1>3. PICK m \in Media : Apply(RemoveMedia(doc, m))
  BY DEF DoRemoveMedia
<1>5. /\ Clips' \in SUBSET ClipId /\ IsFiniteSet(Clips') /\ Tracks' \in SUBSET TrackId
      /\ imported' \in SUBSET Media /\ Within(doc, Clips', Tracks', imported')
  BY <1>1, <1>2, IssuedFacts
<1> DEFINE r == RemoveMedia(doc, m)
<1>6. IsOutcome(r, doc, Clips', Tracks', imported')
  BY <1>2, <1>5, RemoveMediaOutcome
<1>7. Apply(r)
  BY <1>3
<1>8. IsDocument(doc) /\ Solid(Core(doc)) /\ IsFiniteSet(Placed(doc)) /\ nextClip \notin Placed(doc)
  BY <1>1, DocumentFacts
<1>9. Edited(r, doc)
  BY <1>2, <1>5, <1>8, RemoveMediaEdited
<1>10. InHabit(habit, r.doc)
  BY <1>0, MediaInHabit
<1> HIDE DEF r
<1>11. QED
  BY <1>2, <1>6, <1>7, <1>9, <1>10, ApplyReverts

LEMMA ImportRecorded ==
  ASSUME Timely, Distinct, Sound, Revertible, HabitKept, DoImport
  PROVE  Recorded
<1>1. TypeOK
  BY DEF Sound
<1>0. habit \in Habits /\ IsDocument(doc) /\ InHabit(habit, doc)
  BY <1>1, HabitFactsOf
<1>2. PICK m \in Media \ imported : imported' = imported \cup {m} /\ Apply(InsertMedia(doc, m))
  BY DEF DoImport
<1>3. nextClip' = nextClip /\ nextTrack' = nextTrack
  BY DEF DoImport
<1>4. Issued /\ m \in imported'
  BY <1>1, <1>2, <1>3 DEF TypeOK, Issued, Clips, Tracks
<1>5. /\ Clips' \in SUBSET ClipId /\ IsFiniteSet(Clips') /\ Tracks' \in SUBSET TrackId
      /\ imported' \in SUBSET Media /\ Within(doc, Clips', Tracks', imported')
  BY <1>1, <1>4, IssuedFacts
<1> DEFINE r == InsertMedia(doc, m)
<1>6. IsOutcome(r, doc, Clips', Tracks', imported')
  BY <1>4, <1>5, InsertMediaOutcome
<1>7. Apply(r)
  BY <1>2
<1>8. IsDocument(doc) /\ Solid(Core(doc)) /\ IsFiniteSet(Placed(doc)) /\ nextClip \notin Placed(doc)
  BY <1>1, DocumentFacts
<1>9. m \in Media /\ m \notin doc.pool
  BY <1>1, <1>2 DEF TypeOK, Within
<1>10. Edited(r, doc)
  BY <1>8, <1>9, InsertMediaEdited
<1>11. InHabit(habit, r.doc)
  BY <1>0, MediaInHabit
<1> HIDE DEF r
<1>12. QED
  BY <1>4, <1>6, <1>7, <1>10, <1>11, ApplyReverts

LEMMA HoldsSame ==
  ASSUME HabitKept, habit' = habit, doc' = doc, file' = file, past' = past, future' = future,
         Base' \in Held
  PROVE  Holds
<1>1. Held' \subseteq Held
  BY DEF Held
<1>2. InHabit(habit, doc')
  BY DEF HabitKept, Held
<1>3. QED
  BY <1>1, <1>2 DEF Holds

(* A step that goes back to the core of a document held.                    *)
LEMMA HoldsBack ==
  ASSUME HabitKept, habit' = habit, file' = file, Base' = doc',
         ToSet(past') \cup ToSet(future') \subseteq Held,
         NEW d \in Held, Core(doc') = Core(d)
  PROVE  Holds
<1>1. Held' \subseteq Held \cup {doc'}
  BY DEF Held
<1>2. InHabit(habit, d)
  BY DEF HabitKept
<1>3. InHabit(habit, doc')
  BY <1>2, CoreInHabit
<1>4. QED
  BY <1>1, <1>3 DEF Holds

LEMMA ImportAgainRecorded ==
  ASSUME Sound, Revertible, HabitKept, DoImportAgain
  PROVE  Recorded
<1>1. /\ revision' = revision + 1 /\ revision \in Nat
      /\ doc' = doc /\ undo' = undo /\ redo' = redo /\ past' = past /\ future' = future
      /\ pending' = pending /\ before' = before /\ file' = file /\ made' = made /\ session' = session
      /\ UNCHANGED <<savedRevision, baseline>> /\ habit' = habit
  BY DEF DoImportAgain, stacks, group, disk, Sound, TypeOK
<1>2. Open' = Open /\ Base' = Base
  BY <1>1 DEF Open, Base, InGroup
<1>0. Holds
  BY <1>1, <1>2, HoldsSame DEF Held
<1>3. Revertible'
  BY <1>1, <1>2 DEF Revertible
<1>4. Retold
  BY <1>1, <1>2 DEF Retold, CoreHistory!history
<1>5. QED
  BY <1>0, <1>1, <1>3, <1>4 DEF Recorded, RevisionStep

(* The newest entry of a stack applies, it restores the document it was     *)
(* recorded on, and its own inverse leads back.                             *)
LEMMA TopReverts ==
  ASSUME Sound, NEW stack, IsStack(stack, Clips, Tracks, imported), stack # << >>,
         NEW docs, Recalls(stack, docs, Core(doc))
  PROVE  LET r == Run(doc, Last(stack)) IN
         /\ r.ok /\ docs # << >> /\ Core(r.doc) = Core(Last(docs))
         /\ Solid(Core(r.doc)) /\ Path(r.inverse, Core(r.doc), Core(doc))
         /\ Recalls(Front(stack), Front(docs), Core(r.doc))
<1>1. /\ Clips \in SUBSET ClipId /\ IsFiniteSet(Clips) /\ Tracks \in SUBSET TrackId
      /\ imported \in SUBSET Media /\ Within(doc, Clips, Tracks, imported)
  BY IdFacts DEF Sound, TypeOK
<1>2. stack \in Seq(ToSet(stack))
  BY DEF IsStack, IsScripts
<1> DEFINE q == Last(stack)
           y == Core(doc)
           w == Core(Last(docs))
           r == Run(doc, q)
<1>3. AreSteps(q, Clips, Tracks, imported)
  BY TopScript
<1>4. docs # << >> /\ Path(q, y, w) /\ Recalls(Front(stack), Front(docs), w)
  BY <1>2, RecallsFront
<1>5. Solid(w)
  BY <1>4 DEF Recalls
<1> HIDE DEF q, w
<1>6. LET s == Run(doc, q) IN
      /\ IsResult(s, doc, Clips, Tracks, imported)
      /\ s.ok /\ Core(s.doc) = w /\ Path(s.inverse, w, Core(doc))
  BY <1>1, <1>3, <1>4, <1>5, RunAlong
<1>7. r.ok /\ Core(r.doc) = w /\ Path(r.inverse, w, y)
  BY <1>6
<1> HIDE DEF r
<1>8. /\ r.ok /\ docs # << >> /\ Core(r.doc) = Core(Last(docs))
      /\ Solid(Core(r.doc)) /\ Path(r.inverse, Core(r.doc), Core(doc))
      /\ Recalls(Front(stack), Front(docs), Core(r.doc))
  BY <1>4, <1>5, <1>7 DEF w
<1>9. QED
  BY <1>8 DEF r, q

LEMMA UndoRecorded ==
  ASSUME Sound, Revertible, HabitKept, Undo
  PROVE  Recorded
<1> DEFINE r == Run(doc, Last(undo))
<1>1. /\ doc' = r.doc /\ ~InGroup /\ undo # << >>
      /\ r.ok => /\ undo' = Front(undo) /\ past' = Front(past)
                 /\ redo' = Pushed(redo, r.inverse) /\ future' = Pushed(future, doc)
      /\ revision' = revision + 1
      /\ UNCHANGED <<made, habit, session, group, disk>>
  BY DEF Undo
<1>2. /\ TypeOK /\ IsStack(undo, Clips, Tracks, imported) /\ revision \in Nat /\ redo \in Seq(ToSet(redo))
  BY StackSeqs DEF Sound, TypeOK
<1>3. Base = doc /\ Base' = doc' /\ Open' = << >>
  BY <1>1 DEF Base, Open, InGroup, group
<1>4. /\ Solid(Core(doc)) /\ (file # NoFile => Solid(Core(file)))
      /\ Recalls(undo, past, Core(doc)) /\ Recalls(redo, future, Core(doc))
  BY <1>3 DEF Revertible
<1>5. /\ r.ok /\ past # << >> /\ Core(r.doc) = Core(Last(past))
      /\ Solid(Core(r.doc)) /\ Path(r.inverse, Core(r.doc), Core(doc))
      /\ Recalls(Front(undo), Front(past), Core(r.doc))
  BY <1>1, <1>2, <1>4, TopReverts
<1> HIDE DEF r
<1> DEFINE q == r.inverse
           S == ToSet(redo) \cup {q}
<1>6. redo \in Seq(S) /\ q \in S
  BY <1>2, SeqMonotonic
<1> HIDE DEF S
<1>7. Recalls(Pushed(redo, q), Pushed(future, doc), Core(r.doc))
  BY <1>4, <1>5, <1>6, RecallsPushed
<1>8. Descends(<< >>, Core(r.doc), Core(r.doc))
  BY <1>5, DescendsNone
<1>9. /\ doc' = r.doc /\ undo' = Front(undo) /\ past' = Front(past) /\ file' = file
      /\ redo' = Pushed(redo, q) /\ future' = Pushed(future, doc)
      /\ made' = made /\ session' = session /\ habit' = habit
  BY <1>1, <1>5 DEF disk
<1>0. Holds
  <2>1. ToSet(Front(past)) \subseteq ToSet(past) /\ Last(past) \in ToSet(past)
    BY <1>5, PastSeqs, FrontSet
  <2>2. ToSet(Pushed(future, doc)) \subseteq ToSet(future) \cup {doc}
    BY PastSeqs, PushedSet
  <2>3. ToSet(past') \cup ToSet(future') \subseteq Held /\ Last(past) \in Held
    BY <1>9, <2>1, <2>2 DEF Held
  <2>4. Core(doc') = Core(Last(past))
    BY <1>5, <1>9
  <2>5. QED
    BY <1>3, <1>9, <2>3, <2>4, HoldsBack
<1>10. Revertible'
  BY <1>3, <1>4, <1>5, <1>7, <1>8, <1>9 DEF Revertible
<1>11. /\ Cores(past) # << >>
       /\ CoreHistory!Last(Cores(past)) = Core(Last(past))
       /\ Cores(Front(past)) = CoreHistory!Front(Cores(past))
  BY <1>5, PastSeqs, CoresFront
<1>12. Cores(Pushed(future, doc)) = CoreHistory!Pushed(Cores(future), Core(doc))
  BY PastSeqs, CoresPushed
<1>13. CoreHistory!Undo
  BY <1>3, <1>5, <1>9, <1>11, <1>12 DEF CoreHistory!Undo
<1>14. Retold
  BY <1>13 DEF Retold, CoreHistory!Next
<1>15. QED
  BY <1>0, <1>1, <1>2, <1>10, <1>14 DEF Recorded, RevisionStep, disk

LEMMA RedoRecorded ==
  ASSUME Sound, Revertible, HabitKept, Redo
  PROVE  Recorded
<1> DEFINE r == Run(doc, Last(redo))
<1>1. /\ doc' = r.doc /\ ~InGroup /\ redo # << >>
      /\ r.ok => /\ redo' = Front(redo) /\ future' = Front(future)
                 /\ undo' = Pushed(undo, r.inverse) /\ past' = Pushed(past, doc)
      /\ revision' = revision + 1
      /\ UNCHANGED <<made, habit, session, group, disk>>
  BY DEF Redo
<1>2. /\ TypeOK /\ IsStack(redo, Clips, Tracks, imported) /\ revision \in Nat /\ undo \in Seq(ToSet(undo))
  BY StackSeqs DEF Sound, TypeOK
<1>3. Base = doc /\ Base' = doc' /\ Open' = << >>
  BY <1>1 DEF Base, Open, InGroup, group
<1>4. /\ Solid(Core(doc)) /\ (file # NoFile => Solid(Core(file)))
      /\ Recalls(redo, future, Core(doc)) /\ Recalls(undo, past, Core(doc))
  BY <1>3 DEF Revertible
<1>5. /\ r.ok /\ future # << >> /\ Core(r.doc) = Core(Last(future))
      /\ Solid(Core(r.doc)) /\ Path(r.inverse, Core(r.doc), Core(doc))
      /\ Recalls(Front(redo), Front(future), Core(r.doc))
  BY <1>1, <1>2, <1>4, TopReverts
<1> HIDE DEF r
<1> DEFINE q == r.inverse
           S == ToSet(undo) \cup {q}
<1>6. undo \in Seq(S) /\ q \in S
  BY <1>2, SeqMonotonic
<1> HIDE DEF S
<1>7. Recalls(Pushed(undo, q), Pushed(past, doc), Core(r.doc))
  BY <1>4, <1>5, <1>6, RecallsPushed
<1>8. Descends(<< >>, Core(r.doc), Core(r.doc))
  BY <1>5, DescendsNone
<1>9. /\ doc' = r.doc /\ redo' = Front(redo) /\ future' = Front(future) /\ file' = file
      /\ undo' = Pushed(undo, q) /\ past' = Pushed(past, doc)
      /\ made' = made /\ session' = session /\ habit' = habit
  BY <1>1, <1>5 DEF disk
<1>0. Holds
  <2>1. ToSet(Front(future)) \subseteq ToSet(future) /\ Last(future) \in ToSet(future)
    BY <1>5, PastSeqs, FrontSet
  <2>2. ToSet(Pushed(past, doc)) \subseteq ToSet(past) \cup {doc}
    BY PastSeqs, PushedSet
  <2>3. ToSet(past') \cup ToSet(future') \subseteq Held /\ Last(future) \in Held
    BY <1>9, <2>1, <2>2 DEF Held
  <2>4. Core(doc') = Core(Last(future))
    BY <1>5, <1>9
  <2>5. QED
    BY <1>3, <1>9, <2>3, <2>4, HoldsBack
<1>10. Revertible'
  BY <1>3, <1>4, <1>5, <1>7, <1>8, <1>9 DEF Revertible
<1>11. /\ Cores(future) # << >>
       /\ CoreHistory!Last(Cores(future)) = Core(Last(future))
       /\ Cores(Front(future)) = CoreHistory!Front(Cores(future))
  BY <1>5, PastSeqs, CoresFront
<1>12. Cores(Pushed(past, doc)) = CoreHistory!Pushed(Cores(past), Core(doc))
  BY PastSeqs, CoresPushed
<1>13. CoreHistory!Redo
  BY <1>3, <1>5, <1>9, <1>11, <1>12 DEF CoreHistory!Redo
<1>14. Retold
  BY <1>13 DEF Retold, CoreHistory!Next
<1>15. QED
  BY <1>0, <1>1, <1>2, <1>10, <1>14 DEF Recorded, RevisionStep, disk

LEMMA BeginGroupRecorded ==
  ASSUME Sound, Revertible, HabitKept, BeginGroup
  PROVE  Recorded
<1>1. /\ ~InGroup /\ pending' = << >> /\ before' = doc /\ doc' = doc /\ file' = file
      /\ undo' = undo /\ redo' = redo /\ past' = past /\ future' = future /\ made' = made /\ session' = session
      /\ revision' = revision /\ revision \in Nat /\ UNCHANGED <<savedRevision, baseline>> /\ habit' = habit
  BY DEF BeginGroup, stacks, disk, Sound, TypeOK
<1>2. Open = << >> /\ Open' = << >> /\ Base = doc /\ Base' = doc
  BY <1>1 DEF Open, Base, InGroup
<1>0. Holds
  BY <1>1, <1>2, HoldsSame DEF Held
<1>3. Revertible'
  BY <1>1, <1>2 DEF Revertible
<1>4. Retold
  BY <1>1, <1>2 DEF Retold, CoreHistory!history
<1>5. QED
  BY <1>0, <1>1, <1>3, <1>4 DEF Recorded, RevisionStep

LEMMA PendingFacts ==
  ASSUME TypeOK, InGroup
  PROVE  /\ pending \in Seq(ToSet(pending))
         /\ \A i \in DOMAIN pending :
              AreSteps(pending[i], Clips, Tracks, imported) /\ pending[i] # << >>
<1> DEFINE X == ToSet(pending)
<1>1. pending \in Seq(X) /\ \A s \in X : s # << >> /\ AreSteps(s, Clips, Tracks, imported)
  BY DEF TypeOK, IsScripts
<1> HIDE DEF X
<1>2. \A i \in DOMAIN pending : pending[i] \in X
  BY <1>1, ListFacts
<1>3. QED
  BY <1>1, <1>2 DEF X

LEMMA CommitGroupRecorded ==
  ASSUME Sound, Revertible, HabitKept, CommitGroup
  PROVE  Recorded
<1> DEFINE p == pending
           q == FlattenSeq(Reverse(p))
           y == Core(doc)
<1>1. /\ InGroup /\ pending' = NoGroup /\ doc' = doc /\ file' = file /\ session' = session
      /\ revision' = revision /\ revision \in Nat /\ UNCHANGED <<savedRevision, baseline>> /\ habit' = habit
      /\ p = << >> => UNCHANGED <<undo, redo, past, future, made>>
      /\ p # << >> => Record(q, before)
  BY DEF CommitGroup, CloseGroup, stacks, disk, Sound, TypeOK
<1>2. Open = p /\ Open' = << >> /\ Base = before /\ Base' = doc
  BY <1>1 DEF Open, Base, InGroup
<1>0. Holds
  <2>1. before \in Held /\ doc \in Held
    BY <1>2 DEF Held
  <2>2. ToSet(past') \cup ToSet(future') \subseteq Held
    <3>1. CASE p = << >>
      BY <1>1, <3>1 DEF Held
    <3>2. CASE p # << >>
      <4>1. Record(q, before)
        BY <1>1, <3>2
      <4> HIDE DEF q
      <4>2. QED
        BY <2>1, <4>1, HeldByRecord
    <3>3. QED
      BY <3>1, <3>2
  <2>3. QED
    BY <1>1, <1>2, <2>1, <2>2, HoldsBack
<1>3. /\ Solid(y) /\ Descends(p, y, Core(Base)) /\ (file # NoFile => Solid(Core(file)))
      /\ Recalls(undo, past, Core(Base)) /\ Recalls(redo, future, Core(Base))
  BY <1>2 DEF Revertible
<1>4. TypeOK
  BY DEF Sound
<1>5. /\ p \in Seq(ToSet(p))
      /\ \A i \in DOMAIN p : AreSteps(p[i], Clips, Tracks, imported) /\ p[i] # << >>
  BY <1>1, <1>4, PendingFacts
<1>6. y = Core(doc)
  OBVIOUS
<1> HIDE DEF y, q
<1>7. Recalls(undo', past', y) /\ Recalls(redo', future', y) /\ Retold
  <2>1. CASE p = << >>
    <3>1. y = Core(Base)
      BY <1>3, <2>1, DescendsEmpty
    <3>2. Retold
      BY <1>1, <1>2, <1>6, <2>1, <3>1 DEF Retold, CoreHistory!history
    <3>3. QED
      BY <1>1, <1>3, <2>1, <3>1, <3>2
  <2>2. CASE p # << >>
    <3>1. Record(q, before)
      BY <1>1, <2>2
    <3>2. Path(q, y, Core(Base))
      BY <1>3, <1>5, <2>2, FlatPath DEF q
    <3>3. /\ Recalls(undo', past', y) /\ Recalls(redo', future', y)
          /\ Cores(past') = CoreHistory!Pushed(Cores(past), Core(Base)) /\ Cores(future') = << >>
          /\ made' = made + 1
      BY <1>2, <1>3, <1>4, <3>1, <3>2, RecordRecalls
    <3>4. CoreHistory!Commit
      BY <1>1, <1>2, <3>3 DEF CoreHistory!Commit
    <3>5. Retold
      BY <3>4 DEF Retold, CoreHistory!Next
    <3>6. QED
      BY <3>3, <3>5
  <2>3. QED
    BY <2>1, <2>2
<1>8. Descends(<< >>, y, y)
  BY <1>3, DescendsNone
<1>9. Revertible'
  BY <1>1, <1>2, <1>3, <1>6, <1>7, <1>8 DEF Revertible
<1>10. QED
  BY <1>0, <1>1, <1>7, <1>9 DEF Recorded, RevisionStep

LEMMA RolledNone ==
  ASSUME NEW d
  PROVE  RolledBack(d, << >>).doc = d
<1> DEFINE none == << >>
           q == Reverse(none)
<1>1. none \in Seq({}) /\ Len(none) = 0
  BY EmptySeq
<1> HIDE DEF none
<1>2. DOMAIN q = 1 .. Len(none) /\ Len(q) = Len(none)
  BY <1>1, ReverseFacts
<1> HIDE DEF q
<1>3. DOMAIN q = 1 .. Len(q) /\ Len(q) \in Nat /\ Len(q) = 0
  BY <1>1, <1>2
<1>4. PICK F : /\ F[0] = Accepted(d, << >>)
               /\ \A i \in 1 .. Len(q) : F[i] = Back(F[i - 1], q[i])
               /\ RolledThrough(d, q) = F[Len(q)]
  BY <1>3, RollFolds
<1>5. RolledThrough(d, q) = Accepted(d, << >>)
  BY <1>3, <1>4
<1>6. RolledBack(d, none) = Accepted(d, << >>)
  BY <1>5, RolledReverse DEF q
<1>7. RolledBack(d, none) = Accepted(d, none)
  BY <1>6 DEF none
<1>8. RolledBack(d, none).doc = d
  BY <1>7 DEF Accepted
<1>9. QED
  BY <1>8 DEF none

LEMMA RollbackGroupRecorded ==
  ASSUME Sound, Revertible, HabitKept, RollbackGroup
  PROVE  Recorded
<1> DEFINE p == pending
           r == RolledBack(doc, p)
           x == Core(Base)
<1>1. /\ InGroup /\ pending' = NoGroup /\ doc' = r.doc /\ file' = file
      /\ undo' = undo /\ redo' = redo /\ past' = past /\ future' = future /\ made' = made /\ session' = session
      /\ revision' = IF p = << >> THEN revision ELSE revision + 1
      /\ revision \in Nat /\ UNCHANGED <<savedRevision, baseline>> /\ habit' = habit
  BY DEF RollbackGroup, CloseGroup, stacks, disk, Sound, TypeOK
<1>2. Open = p /\ Open' = << >> /\ Base' = doc'
  BY <1>1 DEF Open, Base, InGroup
<1>3. /\ Descends(p, Core(doc), x) /\ (file # NoFile => Solid(Core(file)))
      /\ Recalls(undo, past, x) /\ Recalls(redo, future, x)
  BY <1>2 DEF Revertible
<1>4. TypeOK
  BY DEF Sound
<1>5. /\ p \in Seq(ToSet(p))
      /\ \A i \in DOMAIN p : AreSteps(p[i], Clips, Tracks, imported)
  BY <1>1, <1>4, PendingFacts
<1>6. /\ Clips \in SUBSET ClipId /\ IsFiniteSet(Clips) /\ Tracks \in SUBSET TrackId
      /\ imported \in SUBSET Media /\ Within(doc, Clips, Tracks, imported)
  BY <1>4, IdFacts DEF TypeOK
<1>7. x = Core(Base)
  OBVIOUS
<1> HIDE DEF p, x
<1>8. RolledBack(doc, p).ok /\ Core(RolledBack(doc, p).doc) = x
  BY <1>3, <1>5, <1>6, RollsAlong
<1>9. Solid(x)
  BY <1>3 DEF Recalls
<1>10. p = << >> => r.doc = doc
  BY RolledNone
<1> HIDE DEF r
<1>11. Core(doc') = x
  BY <1>1, <1>8 DEF r
<1>0. Holds
  <2>1. Base \in Held /\ ToSet(past') \cup ToSet(future') \subseteq Held
    BY <1>1 DEF Held
  <2>2. QED
    BY <1>1, <1>2, <1>7, <1>11, <2>1, HoldsBack
<1>12. Descends(<< >>, x, x)
  BY <1>9, DescendsNone
<1>13. Revertible'
  BY <1>1, <1>2, <1>3, <1>9, <1>11, <1>12 DEF Revertible
<1>14. RevisionStep
  BY <1>1, <1>10 DEF RevisionStep
<1>15. CoreHistory!GroupedEdit
  BY <1>1, <1>2, <1>7, <1>11 DEF CoreHistory!GroupedEdit
<1>16. Retold
  BY <1>15 DEF Retold, CoreHistory!Next
<1>17. QED
  BY <1>0, <1>1, <1>13, <1>14, <1>16 DEF Recorded

-----------------------------------------------------------------------------
(* The invariant of the history, and what follows from it *)

(* What a step does that saves or replaces the project.                     *)
Settled == Revertible' /\ RevisionStep /\ CleanMeansSaved' /\ Retold /\ Holds

LEMMA SaveSettled ==
  ASSUME Sound, Revertible, HabitKept, Save
  PROVE  Settled
<1>1. /\ file' = doc /\ doc' = doc /\ baseline' = doc /\ pending' = pending /\ before' = before
      /\ undo' = undo /\ redo' = redo /\ past' = past /\ future' = future /\ made' = made /\ session' = session
      /\ habit' = habit
  BY DEF Save, stacks, group
<1>2. Open' = Open /\ Base' = Base
  BY <1>1 DEF Open, Base, InGroup
<1>0. Holds
  <2>1. Held' \subseteq Held
    BY <1>1, <1>2 DEF Held
  <2>2. InHabit(habit, doc')
    BY <1>1 DEF HabitKept, Held
  <2>3. QED
    BY <1>1, <2>1, <2>2 DEF Holds
<1>3. Revertible'
  BY <1>1, <1>2 DEF Revertible
<1>4. Retold
  BY <1>1, <1>2 DEF Retold, CoreHistory!history
<1>5. QED
  BY <1>0, <1>1, <1>3, <1>4 DEF Settled, RevisionStep, CleanMeansSaved

LEMMA ReplacedSettled ==
  ASSUME Sound, Revertible, NEW d, Solid(Core(d)), InHabit(habit, d), Replaced(d)
  PROVE  Settled
<1>1. /\ doc' = d /\ undo' = << >> /\ redo' = << >> /\ past' = << >> /\ future' = << >> /\ pending' = NoGroup
      /\ revision' = revision + 1 /\ revision \in Nat /\ baseline' = d /\ file' = file
      /\ session' = session + 1 /\ made' = made /\ habit' = habit
  BY DEF Replaced, ClearStacks, CloseGroup, Sound, TypeOK
<1>2. Open' = << >> /\ Base' = d
  BY <1>1 DEF Open, Base, InGroup
<1>0. Holds
  BY <1>1, <1>2, NoneInNone DEF Held, Holds
<1>3. Recalls(<< >>, << >>, Core(d)) /\ Descends(<< >>, Core(d), Core(d))
  BY RecallsNone, DescendsNone
<1>4. Revertible'
  BY <1>1, <1>2, <1>3 DEF Revertible
<1>5. CoreHistory!OpenAnother
  BY <1>1, <1>2, NoCores DEF CoreHistory!OpenAnother
<1>6. Retold
  BY <1>5 DEF Retold, CoreHistory!Next
<1>7. QED
  BY <1>0, <1>1, <1>4, <1>6 DEF Settled, RevisionStep, CleanMeansSaved

LEMMA WithMainSolid ==
  ASSUME NEW d, IsDocument(d), Solid(Core(d)), NEW t \in TrackId, t \notin Lanes(d)
  PROVE  Solid(Core(WithMain(d, t)))
<1> DEFINE i == Len(d.order) + 1
           k == "video"
           f == InsertTrack(d, t, NewTrack(k), i)
           q == <<[op |-> "RemoveTrack", id |-> t]>>
           r == AddTrack(d, t, k, i)
<1>1. i \in Nat \ {0}
  BY StackedFacts, ListFacts DEF IsStacked
<1>2. k \in Kind
  BY DEF Kind
<1>3. r = Accepted(f, q)
  BY DEF AddTrack
<1>4. WithMain(d, t) = f
  BY DEF WithMain
<1> HIDE DEF i, k
<1>5. Edited(r, d)
  BY <1>1, <1>2, AddTrackEdited
<1> HIDE DEF f, q
<1>6. r.ok = TRUE /\ r.doc = f
  BY <1>3 DEF Accepted
<1> HIDE DEF r
<1>7. QED
  BY <1>4, <1>5, <1>6 DEF Edited

LEMMA LoadSettled ==
  ASSUME Sound, Revertible, HabitKept, Load
  PROVE  Settled
<1> DEFINE d == NormalizeLanes(file)
<1>1. file # NoFile /\ TypeOK
  BY DEF Load, Sound
<1>2. Within(file, Clips, Tracks, imported) /\ Solid(Core(file))
  BY <1>1 DEF TypeOK, Revertible
<1>0. IsDocument(file) /\ InHabit(habit, file) /\ habit \in Habits
  BY <1>1 DEF TypeOK, HabitKept, Held
<1>3. \/ Replaced(d)
      \/ Replaced(WithMain(d, nextTrack)) /\ FreshTrack
  BY DEF Load
<1>4. /\ IsDocument(d) /\ Lanes(d) \subseteq Tracks /\ Core(file) = Core(d)
  <2>1. /\ IsStacked(file) /\ IsClips(file.clips) /\ file.pool \subseteq Media
        /\ \A c \in Placed(file) : file.clips[c].track \in Lanes(file)
    BY <1>2, StackedFacts DEF Within
  <2>2. /\ IsStacked(d) /\ Restacked(file, d) /\ Lanes(d) = Lanes(file)
        /\ \A t \in Lanes(file) : /\ d.tracks[t].kind = file.tracks[t].kind
                                  /\ d.tracks[t].junctions = file.tracks[t].junctions
    BY <2>1, NormalizeFacts
  <2>5. ASSUME Tidy PROVE d = file
    <3>1. IsZoned(file)
      BY <1>0, <1>2, <2>5, SolidParts
    <3>2. QED
      BY <2>1, <3>1, AlreadyNormal
  <2> HIDE DEF d
  <2>3. IsDocument(d) /\ Lanes(d) \subseteq Tracks
    BY <1>2, <2>1, <2>2, StackedFacts DEF Within, Restacked, Placed
  <2>4. Core(d) = Core(file)
    <3>1. d.clips = file.clips /\ d.pool = file.pool
      BY <2>2 DEF Restacked
    <3>2. Tidy => d.order = file.order /\ \A t \in Lanes(file) : d.tracks[t].main = file.tracks[t].main
      BY <2>5
    <3>3. QED
      BY <1>0, <2>2, <2>3, <3>1, <3>2, SameLanes
  <2>6. QED
    BY <2>3, <2>4
<1>9. InHabit(habit, d)
  BY <1>0, NormalizedInHabit
<1> HIDE DEF d
<1>5. Solid(Core(d))
  BY <1>2, <1>4
<1>6. CASE Replaced(d)
  BY <1>5, <1>6, <1>9, ReplacedSettled
<1>7. CASE Replaced(WithMain(d, nextTrack)) /\ FreshTrack
  <2>1. nextTrack \in TrackId /\ nextTrack \notin Lanes(d)
    BY <1>1, <1>4, <1>7, FreshTrackFacts DEF FreshTrack
  <2> DEFINE e == WithMain(d, nextTrack)
  <2>2. Solid(Core(e)) /\ Replaced(e)
    BY <1>4, <1>5, <1>7, <2>1, WithMainSolid
  <2>4. InHabit(habit, e)
    BY <1>0, <1>4, <1>9, <2>1, WithMainInHabit
  <2> HIDE DEF e
  <2>3. QED
    BY <2>2, <2>4, ReplacedSettled
<1>8. QED
  BY <1>3, <1>6, <1>7

LEMMA NewSessionSettled ==
  ASSUME Sound, Revertible, NewSession
  PROVE  Settled
<1> DEFINE d == EmptyDocument
           e == WithMain(d, nextTrack)
<1>1. FreshTrack /\ Replaced(e)
  BY DEF NewSession
<1>2. nextTrack \in TrackId
  BY <1>1 DEF FreshTrack
<1>3. Within(d, ClipId, TrackId, Media) /\ Lanes(d) = {}
  BY EmptyDocumentFacts
<1>4. \A c \in Placed(d) : FALSE
  <2> DEFINE none == << >>
  <2>1. DOMAIN none = {}
    OBVIOUS
  <2>2. d.clips = none
    BY DEF EmptyDocument
  <2> HIDE DEF none, d
  <2>3. QED
    BY <2>1, <2>2 DEF Placed
<1>9. InHabit(habit, d)
  BY EmptyInHabit
<1> HIDE DEF d
<1>5. IsDocument(d)
  BY <1>3 DEF Within
<1>10. IsZoned(d)
  <2>1. d.order \in Seq({}) /\ MainTracks(d) = {} /\ VideoLanes(d) = {}
    BY <1>3, <1>5 DEF MainTracks, VideoLanes, IsDocument
  <2>2. DOMAIN d.order = {}
    BY <2>1, ListFacts
  <2>3. Cardinality({}) = 0
    BY FS_EmptySet
  <2>4. QED
    BY <2>1, <2>2, <2>3 DEF IsZoned
<1>6. Solid(Core(d))
  BY <1>4, <1>5, <1>10, SolidParts
<1>7. Solid(Core(e))
  BY <1>2, <1>3, <1>5, <1>6, WithMainSolid
<1>11. InHabit(habit, e)
  <2>1. habit \in Habits
    BY DEF Sound, TypeOK
  <2>2. QED
    BY <1>2, <1>3, <1>5, <1>9, <2>1, WithMainInHabit
<1> HIDE DEF e
<1>8. QED
  BY <1>1, <1>7, <1>11, ReplacedSettled

(* The invariant behind the properties of the history.                      *)
Faithful == Sound /\ Revertible /\ CleanMeansSaved /\ HabitKept

LEMMA HabitGoesOn ==
  ASSUME Sound', HabitKept, Holds
  PROVE  HabitKept'
<1>1. IsDocument(doc')
  BY DEF Sound, TypeOK, Within
<1>2. /\ habit' = habit /\ InHabit(habit, doc') /\ Held' \subseteq Held \cup {doc'}
      /\ \A d \in Held : IsDocument(d) /\ InHabit(habit, d)
  BY DEF Holds, HabitKept
<1>3. \A d \in Held' : IsDocument(d) /\ InHabit(habit', d)
  BY <1>1, <1>2
<1>4. QED
  BY <1>3 DEF HabitKept

LEMMA InitFaithful ==
  ASSUME Timely, Init
  PROVE  Faithful /\ CoreHistory!Init
<1>1. Sound
  BY InitSound
<1>2. /\ habit \in Habits /\ doc = habit.start
      /\ undo = << >> /\ redo = << >> /\ past = << >> /\ future = << >>
      /\ pending = NoGroup /\ file = NoFile /\ baseline = doc /\ made = 0 /\ session = 0
  BY DEF Init
<1>3. /\ IsDocument(doc) /\ IsZoned(doc)
      /\ \A c \in Placed(doc) : Fits(doc, c) /\ doc.clips[c].start >= 0
  BY <1>2, EditorAssumption DEF Timely
<1>4. Solid(Core(doc))
  BY <1>3, SolidDocument
<1>5. Open = << >> /\ Base = doc
  BY <1>2 DEF Open, Base, InGroup
<1>6. Recalls(<< >>, << >>, Core(doc)) /\ Descends(<< >>, Core(doc), Core(doc))
  BY <1>4, RecallsNone, DescendsNone
<1>7. Revertible
  BY <1>2, <1>4, <1>5, <1>6 DEF Revertible
<1>8. CoreHistory!Init
  BY <1>2, <1>5, NoCores DEF CoreHistory!Init
<1>10. HabitKept
  <2>1. Held = {doc}
    BY <1>2, <1>5, NoneInNone DEF Held
  <2>2. InHabit(habit, doc)
    BY <1>2, StartInHabit
  <2>3. QED
    BY <1>3, <2>1, <2>2 DEF HabitKept
<1>9. QED
  BY <1>1, <1>2, <1>7, <1>8, <1>10 DEF Faithful, CleanMeansSaved

LEMMA StepFaithful ==
  ASSUME Timely, Distinct, Faithful, [Next]_vars
  PROVE  Faithful' /\ [RevisionStep]_vars /\ Retold
<1>1. Sound /\ Revertible /\ CleanMeansSaved /\ HabitKept
  BY DEF Faithful
<1>2. Sound'
  BY <1>1, StepSound
<1>3. CASE TrackCommand
  <2>1. Recorded
    BY <1>1, <1>3, AddTrackRecorded, RemoveTrackRecorded, MoveTrackRecorded DEF TrackCommand
  <2>2. QED
    BY <1>1, <1>2, <2>1, RevisionTells, HabitGoesOn DEF Recorded, Faithful
<1>4. CASE PlacementCommand
  <2>1. Recorded
    BY <1>1, <1>4, AddClipRecorded, AddGeneratedRecorded, DuplicateClipRecorded, MoveClipRecorded,
       RemoveClipRecorded DEF PlacementCommand
  <2>2. QED
    BY <1>1, <1>2, <2>1, RevisionTells, HabitGoesOn DEF Recorded, Faithful
<1>5. CASE ShapeCommand
  <2>1. Recorded
    BY <1>1, <1>5, SplitClipRecorded, TrimClipRecorded, SetClipSpeedRecorded DEF ShapeCommand
  <2>2. QED
    BY <1>1, <1>2, <2>1, RevisionTells, HabitGoesOn DEF Recorded, Faithful
<1>6. CASE RippleCommand
  <2>1. Recorded
    BY <1>1, <1>6, RippleDeleteRecorded, ShiftClipsRecorded, RippleInsertRecorded DEF RippleCommand
  <2>2. QED
    BY <1>1, <1>2, <2>1, RevisionTells, HabitGoesOn DEF Recorded, Faithful
<1>7. CASE TransitionCommand
  <2>1. Recorded
    BY <1>1, <1>7, AddTransitionRecorded, RemoveTransitionRecorded, SetTransitionRecorded DEF TransitionCommand
  <2>2. QED
    BY <1>1, <1>2, <2>1, RevisionTells, HabitGoesOn DEF Recorded, Faithful
<1>8. CASE MediaCommand
  <2>1. Recorded
    BY <1>1, <1>8, RemoveMediaRecorded, ImportRecorded, ImportAgainRecorded DEF MediaCommand
  <2>2. QED
    BY <1>1, <1>2, <2>1, RevisionTells, HabitGoesOn DEF Recorded, Faithful
<1>9. CASE Undo \/ Redo
  <2>1. Recorded
    BY <1>1, <1>9, UndoRecorded, RedoRecorded
  <2>2. QED
    BY <1>1, <1>2, <2>1, RevisionTells, HabitGoesOn DEF Recorded, Faithful
<1>10. CASE BeginGroup \/ CommitGroup \/ RollbackGroup
  <2>1. Recorded
    BY <1>1, <1>10, BeginGroupRecorded, CommitGroupRecorded, RollbackGroupRecorded
  <2>2. QED
    BY <1>1, <1>2, <2>1, RevisionTells, HabitGoesOn DEF Recorded, Faithful
<1>11. CASE Save \/ Load \/ NewSession
  <2>1. Settled
    BY <1>1, <1>11, SaveSettled, LoadSettled, NewSessionSettled
  <2>2. QED
    BY <1>1, <1>2, <2>1, HabitGoesOn DEF Settled, Faithful
<1>12. CASE UNCHANGED vars
  <2>1. /\ doc' = doc /\ file' = file /\ pending' = pending /\ before' = before
        /\ undo' = undo /\ redo' = redo /\ past' = past /\ future' = future /\ made' = made /\ session' = session
        /\ revision' = revision /\ savedRevision' = savedRevision /\ baseline' = baseline
        /\ habit' = habit
    BY <1>12 DEF vars, stacks, group, disk
  <2>2. Open' = Open /\ Base' = Base
    BY <2>1 DEF Open, Base, InGroup
  <2>3. Revertible' /\ CleanMeansSaved'
    BY <1>1, <2>1, <2>2 DEF Revertible, CleanMeansSaved
  <2>4. Retold
    BY <2>1, <2>2 DEF Retold, CoreHistory!history
  <2>5. HabitKept'
    BY <1>1, <2>1, <2>2 DEF HabitKept, Held
  <2>6. QED
    BY <1>2, <1>12, <2>3, <2>4, <2>5 DEF Faithful
<1>13. QED
  BY <1>3, <1>4, <1>5, <1>6, <1>7, <1>8, <1>9, <1>10, <1>11, <1>12 DEF Next

(* Every document, saved, undone, rolled back or edited, is one from which  *)
(* the open group and then either stack lead step by step to documents that *)
(* fit, each step on the way is accepted, and they all keep to the habit.   *)
THEOREM FaithfulHolds ==
  ASSUME Timely, Distinct
  PROVE  Spec => []Faithful
<1>1. Init => Faithful
  BY InitFaithful
<1>2. Faithful /\ [Next]_vars => Faithful'
  BY StepFaithful
<1>3. QED
  BY <1>1, <1>2, PTL DEF Spec

(* After any command, undo, redo or rollback no two clips of a lane overlap *)
(* and every clip suits its lane and its medium (restore_clip.rs:11-27 puts *)
(* snapshots back without a check).                                         *)
THEOREM ClipsFitHolds ==
  ASSUME Timely, Distinct
  PROVE  Spec => []ClipsFit
<1>1. Faithful => ClipsFit
  <2> SUFFICES ASSUME Faithful PROVE ClipsFit
    OBVIOUS
  <2>2. IsDocument(doc) /\ Solid(Core(doc))
    BY DEF Faithful, Sound, TypeOK, Within, Revertible
  <2>3. QED
    BY <2>2, SolidDocument DEF ClipsFit
<1>2. QED
  BY <1>1, FaithfulHolds, PTL

(* Inverses are infallible once recorded (engine.rs:456): whatever was done *)
(* since, the open group and then all of either stack apply.                *)
THEOREM InversesApplyHolds ==
  ASSUME Timely, Distinct
  PROVE  Spec => []InversesApply
<1>1. Faithful => InversesApply
  <2> SUFFICES ASSUME Faithful PROVE InversesApply
    OBVIOUS
  <2>2. /\ TypeOK /\ Descends(Open, Core(doc), Core(Base))
        /\ Recalls(undo, past, Core(Base)) /\ Recalls(redo, future, Core(Base))
    BY DEF Faithful, Sound, Revertible
  <2>3. /\ Clips \in SUBSET ClipId /\ IsFiniteSet(Clips) /\ Tracks \in SUBSET TrackId
        /\ imported \in SUBSET Media /\ Within(doc, Clips, Tracks, imported)
    BY <2>2, IdFacts DEF TypeOK
  <2>4. IsScripts(Open, Clips, Tracks, imported)
    BY <2>2, NoScripts DEF Open, TypeOK
  <2>5. IsScripts(undo, Clips, Tracks, imported) /\ IsScripts(redo, Clips, Tracks, imported)
    BY <2>2 DEF TypeOK, IsStack
  <2> DEFINE x == Core(Base)
  <2>6. Undoable(undo, x) /\ Undoable(redo, x)
    BY <2>2, StackSeqs, RecallsUndoable
  <2>7. ASSUME NEW stack, IsScripts(stack, Clips, Tracks, imported), Undoable(stack, x)
        PROVE  RolledBack(doc, stack \o Open).ok
    <3> DEFINE X == ToSet(stack) \cup ToSet(Open)
               p == stack \o Open
    <3>1. /\ stack \in Seq(X) /\ Open \in Seq(X)
          /\ \A s \in X : AreSteps(s, Clips, Tracks, imported)
      BY <2>4, <2>7, SeqMonotonic DEF IsScripts
    <3>2. PICK z : Descends(stack, x, z)
      BY <2>7 DEF Undoable
    <3> HIDE DEF X
    <3>3. Descends(p, Core(doc), z)
      BY <2>2, <3>1, <3>2, DescendsCat
    <3>4. p \in Seq(X)
      BY <3>1
    <3> HIDE DEF p
    <3>5. \A i \in DOMAIN p : AreSteps(p[i], Clips, Tracks, imported)
      BY <3>1, <3>4, ListFacts
    <3>6. RolledBack(doc, p).ok
      BY <2>3, <3>3, <3>4, <3>5, RollsAlong
    <3>7. QED
      BY <3>6 DEF p
  <2>8. QED
    BY <2>5, <2>6, <2>7 DEF InversesApply, Open
<1>2. QED
  BY <1>1, FaithfulHolds, PTL

(* A session that reads clean shows the document it last saved, loaded or   *)
(* created (engine.rs:120-124).                                             *)
THEOREM CleanMeansSavedHolds ==
  ASSUME Timely, Distinct
  PROVE  Spec => []CleanMeansSaved
<1>1. Faithful => CleanMeansSaved
  BY DEF Faithful
<1>2. QED
  BY <1>1, FaithfulHolds, PTL

(* The document never changes under the same revision, neither by a         *)
(* rejected command (ripple_insert.rs:9, "Atomic") nor by a rollback.       *)
THEOREM RevisionTracksDocumentHolds ==
  ASSUME Timely, Distinct
  PROVE  Spec => RevisionTracksDocument
<1>1. Faithful /\ [Next]_vars => [RevisionStep]_vars
  BY StepFaithful
<1>2. QED
  BY <1>1, FaithfulHolds, PTL DEF Spec, RevisionTracksDocument

(* What every step of the editor is in the history of cores.                *)
ImplementsCoreUndo == CoreHistory!Spec

(* Undo and redo, and a group that is rolled back, restore the clips, the   *)
(* lanes with their kinds and transitions and the media of the document     *)
(* they return to, and no history is lost but by the limit or another       *)
(* project: the stacks of inverse actions implement a history of documents, *)
(* in any session up to the order of the lanes and the main flag            *)
(* (engine.rs:456).                                                         *)
THEOREM ImplementsCoreUndoHolds ==
  ASSUME Timely, Distinct
  PROVE  Spec => ImplementsCoreUndo
<1>1. Init => CoreHistory!Init
  BY InitFaithful
<1>2. Faithful /\ [Next]_vars => [CoreHistory!Next]_(CoreHistory!history)
  BY StepFaithful DEF Retold
<1>3. QED
  BY <1>1, <1>2, FaithfulHolds, PTL DEF Spec, ImplementsCoreUndo, CoreHistory!Spec

LEMMA CoresInjective ==
  ASSUME NEW p, p \in Seq(ToSet(p)), NEW q, q \in Seq(ToSet(q)), Cores(p) = Cores(q),
         \A d \in ToSet(p), e \in ToSet(q) : Core(d) = Core(e) => d = e
  PROVE  p = q
<1> DEFINE P == ToSet(p)
           Q == ToSet(q)
           m == Len(p)
           n == Len(q)
<1>1. p \in Seq(P) /\ q \in Seq(Q)
  OBVIOUS
<1>2. \A d \in P, e \in Q : Core(d) = Core(e) => d = e
  OBVIOUS
<1> HIDE DEF P, Q
<1>3. /\ Len(Cores(p)) = m /\ \A i \in 1 .. m : Cores(p)[i] = Core(p[i])
      /\ Len(Cores(q)) = n /\ \A i \in 1 .. n : Cores(q)[i] = Core(q[i])
  BY <1>1, CoresFacts
<1>4. m = n /\ n \in Nat
  BY <1>1, <1>3, LenProperties
<1>5. ASSUME NEW i \in 1 .. n PROVE p[i] = q[i]
  <2>1. Core(p[i]) = Core(q[i])
    BY <1>3, <1>4, <1>5
  <2>2. p[i] \in P /\ q[i] \in Q
    BY <1>1, <1>4, <1>5, ElementOfSeq
  <2>3. QED
    BY <1>2, <2>1, <2>2
<1>6. p \in Seq(P \cup Q) /\ q \in Seq(P \cup Q)
  BY <1>1, SeqMonotonic
<1>7. QED
  BY <1>4, <1>5, <1>6, SeqEqual

(* Where sessions are Tidy no two documents have the same core.             *)
LEMMA OneOfACore ==
  ASSUME Tidy, NEW d, IsDocument(d), NEW e, IsDocument(e)
  PROVE  Core(d) = Core(e) => d = e
  BY TidyCore

AreDocuments(q) == q \in Seq(ToSet(q)) /\ \A d \in ToSet(q) : IsDocument(d)

LEMMA ListsTold ==
  ASSUME Tidy, NEW p, AreDocuments(p), NEW q, AreDocuments(q), Cores(p) = Cores(q)
  PROVE  p = q
<1>1. \A d \in ToSet(p), e \in ToSet(q) : Core(d) = Core(e) => d = e
  BY OneOfACore DEF AreDocuments
<1>2. QED
  BY <1>1, CoresInjective DEF AreDocuments

LEMMA NoneTold ==
  ASSUME Tidy, NEW p, AreDocuments(p)
  PROVE  Cores(p) = << >> <=> p = << >>
<1> DEFINE S == ToSet(p)
           n == Len(p)
<1>1. p \in Seq(S)
  BY DEF AreDocuments
<1> HIDE DEF S
<1>2. Len(Cores(p)) = n /\ Cores(p) \in Seq({Core(d) : d \in S})
  BY <1>1, CoresFacts
<1>3. Cores(p) = << >> => p = << >>
  BY <1>1, <1>2, EmptySeq
<1>4. p = << >> => Cores(p) = << >>
  BY NoCores
<1>5. QED
  BY <1>3, <1>4

LEMMA PushedTold ==
  ASSUME Tidy, NEW p, AreDocuments(p), NEW q, AreDocuments(q), NEW d, IsDocument(d),
         Cores(p) = CoreHistory!Pushed(Cores(q), Core(d))
  PROVE  p = Abstract!Pushed(q, d)
<1> DEFINE k == Pushed(q, d)
           S == ToSet(q) \cup {d}
           rest == IF Len(q) >= Limit THEN Tail(q) ELSE q
           more == IF Len(q) < Limit THEN q ELSE Tail(q)
<1>1. q \in Seq(ToSet(q)) /\ \A e \in ToSet(q) : IsDocument(e)
  BY DEF AreDocuments
<1>2. q \in Seq(S) /\ d \in S /\ \A e \in S : IsDocument(e)
  BY <1>1, SeqMonotonic
<1> HIDE DEF S
<1>3. Limit \in Nat /\ Limit >= 1 /\ Len(q) \in Nat
  BY <1>2, LimitFacts, LenProperties
<1>4. rest \in Seq(S) /\ rest = more
  <2>1. CASE Len(q) >= Limit
    <3>1. q # << >>
      BY <1>2, <1>3, <2>1, EmptySeq
    <3>2. Tail(q) \in Seq(S)
      BY <1>2, <3>1, HeadTailProperties
    <3>3. QED
      BY <1>3, <2>1, <3>2
  <2>2. CASE ~(Len(q) >= Limit)
    BY <1>2, <1>3, <2>2
  <2>3. QED
    BY <2>1, <2>2
<1>5. k = Append(rest, d) /\ Abstract!Pushed(q, d) = Append(more, d)
  BY DEF Pushed, Abstract!Pushed
<1> HIDE DEF rest, more, k
<1>6. k \in Seq(S)
  BY <1>2, <1>4, <1>5, AppendProperties
<1>7. AreDocuments(k)
  <2>1. k \in Seq(ToSet(k))
    BY <1>6, OwnElements
  <2>2. \A e \in ToSet(k) : e \in S
    BY <1>6, ListFacts
  <2>3. QED
    BY <1>2, <2>1, <2>2 DEF AreDocuments
<1>8. Cores(k) = CoreHistory!Pushed(Cores(q), Core(d))
  BY <1>1, CoresPushed DEF k
<1>9. p = k
  BY <1>7, <1>8, ListsTold
<1>10. QED
  BY <1>4, <1>5, <1>9

LEMMA FrontTold ==
  ASSUME Tidy, NEW p, AreDocuments(p), NEW q, AreDocuments(q), Cores(q) # << >>,
         Cores(p) = CoreHistory!Front(Cores(q))
  PROVE  /\ q # << >> /\ p = Abstract!Front(q)
         /\ IsDocument(Abstract!Last(q)) /\ CoreHistory!Last(Cores(q)) = Core(Abstract!Last(q))
<1> DEFINE k == Front(q)
           S == ToSet(q)
<1>1. q \in Seq(S) /\ \A e \in S : IsDocument(e)
  BY DEF AreDocuments
<1>2. q # << >>
  BY NoCores
<1>3. CoreHistory!Last(Cores(q)) = Core(Last(q)) /\ Cores(k) = CoreHistory!Front(Cores(q))
  BY <1>1, <1>2, CoresFront
<1>4. k = Abstract!Front(q) /\ Last(q) = Abstract!Last(q)
  BY DEF Front, Last, Abstract!Front, Abstract!Last
<1> HIDE DEF S
<1>5. k \in Seq(S) /\ Last(q) \in S
  BY <1>1, <1>2, FrontFacts
<1> HIDE DEF k
<1>6. AreDocuments(k)
  <2>1. k \in Seq(ToSet(k))
    BY <1>5, OwnElements
  <2>2. \A e \in ToSet(k) : e \in S
    BY <1>5, ListFacts
  <2>3. QED
    BY <1>1, <2>1, <2>2 DEF AreDocuments
<1>7. p = k
  BY <1>3, <1>6, ListsTold
<1>8. QED
  BY <1>1, <1>2, <1>3, <1>4, <1>5, <1>7

(* The history of cores, told with the documents themselves.                *)
LEMMA RetoldInFull ==
  ASSUME Tidy, Faithful, Faithful', Retold
  PROVE  [Abstract!Next]_(Abstract!history)
<1>1. IsDocument(doc) /\ IsDocument(Base) /\ AreDocuments(past) /\ AreDocuments(future)
  BY PastSeqs DEF Faithful, HabitKept, Held, AreDocuments
<1>2. IsDocument(doc') /\ IsDocument(Base') /\ AreDocuments(past') /\ AreDocuments(future')
  <2>1. past' \in Seq(ToSet(past')) /\ future' \in Seq(ToSet(future'))
    BY DEF Faithful, Revertible, Recalls
  <2>2. QED
    BY <2>1 DEF Faithful, HabitKept, Held, AreDocuments
<1> DEFINE base == IF InGroup THEN before ELSE doc
<1>3. Base = base /\ Base' = base'
  BY DEF Base
<1>4. /\ Core(Base) = Core(doc) => base = doc
      /\ Core(Base') = Core(doc') => base' = doc'
      /\ Core(Base') = Core(Base) => base' = base
      /\ Core(doc') = Core(doc) => doc' = doc
      /\ Core(Base') = Core(doc) => base' = doc
  BY <1>1, <1>2, <1>3, OneOfACore
<1>5. /\ Cores(past') = Cores(past) => past' = past
      /\ Cores(future') = Cores(future) => future' = future
      /\ Cores(past') = << >> => past' = << >>
      /\ Cores(future') = << >> => future' = << >>
  BY <1>1, <1>2, ListsTold, NoneTold
<1>6. CASE CoreHistory!Edit
  <2>1. Cores(past') = CoreHistory!Pushed(Cores(past), Core(doc)) /\ Cores(future') = << >>
    BY <1>6 DEF CoreHistory!Edit
  <2>2. past' = Abstract!Pushed(past, doc)
    BY <1>1, <1>2, <2>1, PushedTold
  <2>3. Abstract!Edit
    BY <1>4, <1>5, <1>6, <2>1, <2>2 DEF CoreHistory!Edit, Abstract!Edit
  <2>4. QED
    BY <2>3 DEF Abstract!Next
<1>7. CASE CoreHistory!GroupedEdit
  <2>1. Abstract!GroupedEdit
    BY <1>4, <1>5, <1>7 DEF CoreHistory!GroupedEdit, Abstract!GroupedEdit
  <2>2. QED
    BY <2>1 DEF Abstract!Next
<1>8. CASE CoreHistory!Commit
  <2>1. Cores(past') = CoreHistory!Pushed(Cores(past), Core(Base)) /\ Cores(future') = << >>
    BY <1>8 DEF CoreHistory!Commit
  <2>2. past' = Abstract!Pushed(past, base)
    BY <1>1, <1>2, <1>3, <2>1, PushedTold
  <2>3. Abstract!Commit
    BY <1>4, <1>5, <1>8, <2>1, <2>2 DEF CoreHistory!Commit, Abstract!Commit
  <2>4. QED
    BY <2>3 DEF Abstract!Next
<1>9. CASE CoreHistory!Undo
  <2>1. /\ Cores(past) # << >> /\ Cores(past') = CoreHistory!Front(Cores(past))
        /\ Cores(future') = CoreHistory!Pushed(Cores(future), Core(doc))
        /\ Core(doc') = CoreHistory!Last(Cores(past))
    BY <1>9 DEF CoreHistory!Undo
  <2>2. /\ past # << >> /\ past' = Abstract!Front(past)
        /\ IsDocument(Abstract!Last(past)) /\ Core(doc') = Core(Abstract!Last(past))
    BY <1>1, <1>2, <2>1, FrontTold
  <2>3. doc' = Abstract!Last(past)
    BY <1>2, <2>2, OneOfACore
  <2>4. future' = Abstract!Pushed(future, doc)
    BY <1>1, <1>2, <2>1, PushedTold
  <2>5. Abstract!Undo
    BY <1>4, <1>9, <2>2, <2>3, <2>4 DEF CoreHistory!Undo, Abstract!Undo
  <2>6. QED
    BY <2>5 DEF Abstract!Next
<1>10. CASE CoreHistory!Redo
  <2>1. /\ Cores(future) # << >> /\ Cores(future') = CoreHistory!Front(Cores(future))
        /\ Cores(past') = CoreHistory!Pushed(Cores(past), Core(doc))
        /\ Core(doc') = CoreHistory!Last(Cores(future))
    BY <1>10 DEF CoreHistory!Redo
  <2>2. /\ future # << >> /\ future' = Abstract!Front(future)
        /\ IsDocument(Abstract!Last(future)) /\ Core(doc') = Core(Abstract!Last(future))
    BY <1>1, <1>2, <2>1, FrontTold
  <2>3. doc' = Abstract!Last(future)
    BY <1>2, <2>2, OneOfACore
  <2>4. past' = Abstract!Pushed(past, doc)
    BY <1>1, <1>2, <2>1, PushedTold
  <2>5. Abstract!Redo
    BY <1>4, <1>10, <2>2, <2>3, <2>4 DEF CoreHistory!Redo, Abstract!Redo
  <2>6. QED
    BY <2>5 DEF Abstract!Next
<1>11. CASE CoreHistory!OpenAnother
  <2>1. Abstract!OpenAnother
    BY <1>4, <1>5, <1>11 DEF CoreHistory!OpenAnother, Abstract!OpenAnother
  <2>2. QED
    BY <2>1 DEF Abstract!Next
<1>12. CASE UNCHANGED CoreHistory!history
  <2>1. UNCHANGED Abstract!history
    BY <1>4, <1>5, <1>12 DEF CoreHistory!history, Abstract!history
  <2>2. QED
    BY <2>1
<1>13. QED
  BY <1>6, <1>7, <1>8, <1>9, <1>10, <1>11, <1>12 DEF Retold, CoreHistory!Next

(* The stacks of inverse actions implement the history of whole documents   *)
(* that UndoHistory tells: undo, redo and a group rolled back bring back    *)
(* exactly the document that was there, its transitions, the order of its   *)
(* lanes and the main flag too, in sessions that do not remove lanes among  *)
(* sticker lanes (engine.rs:456).                                           *)
THEOREM ImplementsUndoHolds ==
  ASSUME Timely, Distinct, Tidy
  PROVE  Spec => ImplementsUndo
<1>1. Init => Abstract!Init
  <2> SUFFICES ASSUME Init PROVE Abstract!Init
    OBVIOUS
  <2>1. /\ past = << >> /\ future = << >> /\ made = 0 /\ session = 0 /\ ~InGroup
    BY DEF Init, InGroup
  <2>2. QED
    BY <2>1 DEF Abstract!Init
<1>2. Faithful /\ Faithful' /\ [Next]_vars => [Abstract!Next]_(Abstract!history)
  BY StepFaithful, RetoldInFull
<1>3. QED
  BY <1>1, <1>2, FaithfulHolds, PTL DEF Spec, ImplementsUndo, Abstract!Spec

(* Every transition joins two clips of its lane that abut, whatever was     *)
(* cut, moved, undone or rolled back since it was made (track.rs:127-128),  *)
(* in sessions that do not retime clips where there are transitions.        *)
THEOREM JunctionsLiveHolds ==
  ASSUME Timely, Distinct, Steady
  PROVE  Spec => []JunctionsLive
<1>1. Faithful => JunctionsLive
  BY DEF Faithful, HabitKept, Held, InHabit, JunctionsLive
<1>2. QED
  BY <1>1, FaithfulHolds, PTL
=============================================================================
