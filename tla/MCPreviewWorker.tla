--------------------------- MODULE MCPreviewWorker ---------------------------
(* Small instances of PreviewWorker for TLC. *)
EXTENDS PreviewWorker
=============================================================================
