-------------------------- MODULE MCV4l2Capture ----------------------------
(* Small instances of V4l2Capture. *)
EXTENDS V4l2Capture
=============================================================================
