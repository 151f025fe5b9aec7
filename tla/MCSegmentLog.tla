---------------------------- MODULE MCSegmentLog -----------------------------
(* SegmentLog on small bounds. *)
EXTENDS SegmentLog
==============================================================================
