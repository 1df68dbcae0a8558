---------------------------- MODULE MCFrameSharing -----------------------------
(* Small instances of FrameSharing. *)
EXTENDS FrameSharing

\* Nothing, a box, a box without an area, and more boxes than slots.
FewFindings == {<<>>, <<TRUE>>, <<FALSE>>, <<TRUE, TRUE>>}
================================================================================
