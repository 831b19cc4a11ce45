----------------------------- MODULE MCPlayback -----------------------------
(* A name for TLC to check Playback under. *)
EXTENDS Playback
=============================================================================
