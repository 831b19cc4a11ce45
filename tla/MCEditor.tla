------------------------------ MODULE MCEditor ------------------------------
(***************************************************************************)
(* Projects for TLC to start sessions from.                                *)
(***************************************************************************)
EXTENDS Editor

LOCAL Lane(kind, main, junctions) ==
  [kind |-> kind, main |-> main, junctions |-> junctions]

LOCAL Footage(t, start, len, in) == MediaClip(t, CHOOSE m \in Media : TRUE, in, len, start)

(***************************************************************************)
(* A main lane with two abutting clips joined by a transition, and an      *)
(* empty overlay lane above it.                                            *)
(***************************************************************************)
TwoClips ==
  [order |-> <<1, 2>>,
   tracks |-> (1 :> Lane("video", TRUE, 1 :> [right |-> 2, window |-> DefaultWindow])
               @@ 2 :> Lane("video", FALSE, << >>)),
   clips |-> (1 :> Footage(1, 0, 2, 0) @@ 2 :> Footage(1, 2, 2, 0)),
   pool |-> {CHOOSE m \in Media : TRUE}]

(***************************************************************************)
(* A clip at the start of the main lane, an empty audio lane below and a   *)
(* sticker lane above; m1 imported.                                        *)
(***************************************************************************)
OneClip ==
  [order |-> <<1, 2, 3>>,
   tracks |-> (1 :> Lane("audio", FALSE, << >>) @@ 2 :> Lane("video", TRUE, << >>)
               @@ 3 :> Lane("sticker", FALSE, << >>)),
   clips |-> (1 :> Footage(2, 0, 2, 0)),
   pool |-> {CHOOSE m \in Media : TRUE}]

(***************************************************************************)
(* Cutting and joining clips.                                              *)
(***************************************************************************)
Cutting ==
  [start |-> TwoClips, kinds |-> {}, ticks |-> {1}, lengths |-> {1}, speeds |-> {},
   commands |->
     {"SplitClip", "MoveClip", "RemoveClip", "RippleDelete", "ShiftClips",
      "RippleInsert", "AddTransition", "RemoveTransition", "SetTransition",
      "Undo", "Redo", "Group"}]

(***************************************************************************)
(* Placing, trimming and retiming clips, with the media they come from.    *)
(***************************************************************************)
Placing ==
  [start |-> OneClip, kinds |-> {}, ticks |-> {0, 2}, lengths |-> {1}, speeds |-> {1, 2},
   commands |->
     {"AddClip", "AddGenerated", "DuplicateClip", "TrimClip", "SetClipSpeed",
      "RemoveMedia", "Import", "Undo", "Redo", "Group"}]

(***************************************************************************)
(* Arranging lanes, and leaving the project for another.                   *)
(***************************************************************************)
Arranging ==
  [start |-> TwoClips, kinds |-> {"audio", "video"}, ticks |-> {0}, lengths |-> {1},
   speeds |-> {},
   commands |->
     {"AddTrack", "RemoveTrack", "MoveTrack", "Save", "Load", "NewSession",
      "Undo", "Redo", "Group"}]

AllHabits == {Cutting, Placing, Arranging}

(***************************************************************************)
(* These sessions are among those the theorems of EditorProofs speak of.   *)
(***************************************************************************)
ASSUME HabitsAreTimely == Timely
ASSUME HabitsAreTidy == Tidy
ASSUME HabitsAreSteady == Steady
=============================================================================
