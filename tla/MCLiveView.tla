----------------------------- MODULE MCLiveView -----------------------------
(* A small instance of LiveView: one text and the empty result tell a newer  *)
(* result from an older one.                                                 *)
EXTENDS LiveView
=============================================================================
