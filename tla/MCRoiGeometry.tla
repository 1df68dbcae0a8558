---------------------------- MODULE MCRoiGeometry ------------------------------
(* Every outline of up to four points in a corner of a small frame, and every
   triangle in the whole of it. *)
EXTENDS RoiGeometry

Corner == {q \in Point : q.x < 3 /\ q.y < 3}

SmallPolygons == UNION {[1 .. n -> Corner] : n \in 0 .. 4} \cup [1 .. 3 -> Point]
================================================================================
