------------------------------ MODULE RoiGeometry ------------------------------
(***************************************************************************)
(* RuleEngine::isInsideRoi (src/rule_engine.cpp): is the centre of a       *)
(* detection inside the configured region?  The edges count as inside;     *)
(* elsewhere the crossings of the horizontal ray to the right are counted. *)
(*                                                                         *)
(* The quotient the code computes in double is compared without division:  *)
(* it is exact enough to separate an int from a fraction of two ints of    *)
(* the size of a frame, and a point on the quotient is on the edge.        *)
(*                                                                         *)
(* A state is a configuration and a centre that moves about the frame.     *)
(***************************************************************************)
EXTENDS Integers, Sequences, FiniteSets

CONSTANTS Width, Height,  \* the frame: 640 and 480
          Polygons        \* the regions considered: sequences of points

Point == [x : 0 .. Width - 1, y : 0 .. Height - 1]

Vertex == [x : Int, y : Int]

ASSUME RoiAssumption ==
  Width \in Nat /\ Height \in Nat /\ Polygons \subseteq Seq(Vertex)

VARIABLES polygon, centre

vars == <<polygon, centre>>

\* The vertex after the i-th, with the polygon closed.
Follower(p, i) == p[(i % Len(p)) + 1]

\* Twice the area of the triangle a, b, q, signed by the side of ab q lies on.
Cross(q, a, b) == (q.x - a.x) * (b.y - a.y) - (q.y - a.y) * (b.x - a.x)

Between(v, s, t) == (s <= v /\ v <= t) \/ (t <= v /\ v <= s)

\* Mutation: the whole line through a and b.
PointOnLine(q, a, b) == Cross(q, a, b) = 0

PointOnSegment(q, a, b) ==
  Cross(q, a, b) = 0 /\ Between(q.x, a.x, b.x) /\ Between(q.y, a.y, b.y)

\* Mutation: a vertex at the height of q is above it on one side only.
CrossesTwiceAtVertex(q, a, b) ==
  /\ (a.y >= q.y) # (b.y > q.y)
  /\ IF b.y > a.y THEN Cross(q, a, b) < 0 ELSE Cross(q, a, b) > 0

\* The ray from q to the right crosses ab: x < (bx-ax)(y-ay)/(by-ay) + ax.
Crosses(q, a, b) ==
  /\ (a.y > q.y) # (b.y > q.y)
  /\ IF b.y > a.y THEN Cross(q, a, b) < 0 ELSE Cross(q, a, b) > 0

OnBoundary(p, q) == \E i \in DOMAIN p : PointOnSegment(q, p[i], Follower(p, i))

\* Mutation: the edge that closes the polygon is left out.
RayOpen(p, q) == {i \in DOMAIN p : i < Len(p) /\ Crosses(q, p[i], Follower(p, i))}

Ray(p, q) == {i \in DOMAIN p : Crosses(q, p[i], Follower(p, i))}

IsInsideRoi(p, q) ==
  Len(p) >= 3 /\ (OnBoundary(p, q) \/ Cardinality(Ray(p, q)) % 2 = 1)
--------------------------------------------------------------------------------
Init == polygon \in Polygons /\ centre = [x |-> 0, y |-> 0]

\* The next detection's centre.
Move == centre' \in Point \ {centre} /\ UNCHANGED polygon

Next == Move

Spec == Init /\ [][Next]_vars
--------------------------------------------------------------------------------
(* In a triangle, the test says exactly whether the centre is on the inner side
   of all three edges or on one of them; a flat triangle is a segment. *)
InBox(p, q) ==
  /\ \E i, j \in DOMAIN p : p[i].x <= q.x /\ q.x <= p[j].x
  /\ \E i, j \in DOMAIN p : p[i].y <= q.y /\ q.y <= p[j].y

InTriangle(p, q) ==
  /\ \/ \A i \in DOMAIN p : Cross(q, p[i], Follower(p, i)) >= 0
     \/ \A i \in DOMAIN p : Cross(q, p[i], Follower(p, i)) <= 0
  /\ InBox(p, q)

TriangleExact ==
  Len(polygon) = 3 => (IsInsideRoi(polygon, centre) <=> InTriangle(polygon, centre))

(* The answer does not depend on the way the ray is cast: mirroring the picture
   left to right, top to bottom or about its diagonal never changes it, however
   the region's outline turns, touches or crosses itself. *)
MirrorX(q) == [x |-> Width - 1 - q.x, y |-> q.y]
MirrorY(q) == [x |-> q.x, y |-> Height - 1 - q.y]
Transposed(q) == [x |-> q.y, y |-> q.x]
Mapped(p, f(_)) == [i \in DOMAIN p |-> f(p[i])]

AnyRay ==
  LET inside == IsInsideRoi(polygon, centre) IN
  /\ inside <=> IsInsideRoi(Mapped(polygon, MirrorX), MirrorX(centre))
  /\ inside <=> IsInsideRoi(Mapped(polygon, MirrorY), MirrorY(centre))
  /\ inside <=> IsInsideRoi(Mapped(polygon, Transposed), Transposed(centre))

(* The region is what the configuration outlines, wherever its list of points
   starts and whichever way round it goes. *)
Rotated(p) == Append(Tail(p), Head(p))
Reversed(p) == [i \in DOMAIN p |-> p[Len(p) + 1 - i]]

AnyOrder ==
  polygon # <<>> =>
    LET inside == IsInsideRoi(polygon, centre) IN
    /\ inside <=> IsInsideRoi(Rotated(polygon), centre)
    /\ inside <=> IsInsideRoi(Reversed(polygon), centre)
================================================================================
