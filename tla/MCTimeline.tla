------------------------------- MODULE MCTimeline -------------------------------
(***************************************************************************)
(* The timeline files with one writer beside the sync task.                *)
(***************************************************************************)
EXTENDS TimelineFiles

\* Every row is noise: the cull may take any of them.
AllRows == 1 .. MaxRows
================================================================================
