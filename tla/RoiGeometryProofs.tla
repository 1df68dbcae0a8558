--------------------------- MODULE RoiGeometryProofs ---------------------------
(***************************************************************************)
(* Proofs about RoiGeometry.tla for outlines of any number of points with  *)
(* any coordinates: the region depends neither on the ray the code casts,  *)
(* nor on where the list of points starts or which way it goes, and in a   *)
(* triangle the test is exact.                                             *)
(***************************************************************************)
EXTENDS RoiGeometry, SequenceTheorems, FiniteSetTheorems, FunctionTheorems,
        WellFoundedInduction, TLAPS

(* Facts about one edge. *)

LEMMA CrossIsInt ==
  ASSUME NEW q \in Vertex, NEW a \in Vertex, NEW b \in Vertex
  PROVE  Cross(q, a, b) \in Int
BY DEF Vertex, Cross

(* An edge walked the other way has the centre on its other side. *)
LEMMA CrossTurns ==
  ASSUME NEW q \in Vertex, NEW a \in Vertex, NEW b \in Vertex
  PROVE  Cross(q, b, a) = 0 - Cross(q, a, b)
<1>1. \A u, v, s, t, w, z \in Int :
        (u - w) * (t - z) - (v - z) * (s - w) = 0 - ((u - s) * (z - t) - (v - t) * (w - s))
  OBVIOUS
<1> QED
  BY <1>1 DEF Vertex, Cross

(* Neither test of an edge depends on the direction it is walked in. *)
LEMMA EdgesTurn ==
  ASSUME NEW q \in Vertex, NEW a \in Vertex, NEW b \in Vertex
  PROVE  /\ Crosses(q, b, a) <=> Crosses(q, a, b)
         /\ PointOnSegment(q, b, a) <=> PointOnSegment(q, a, b)
<1>1. Cross(q, a, b) \in Int /\ Cross(q, b, a) = 0 - Cross(q, a, b)
  BY CrossIsInt, CrossTurns
<1>2. q.x \in Int /\ q.y \in Int /\ a.x \in Int /\ a.y \in Int /\ b.x \in Int /\ b.y \in Int
  BY DEF Vertex
<1>3. Crosses(q, b, a) <=> Crosses(q, a, b)
  BY <1>1, <1>2 DEF Crosses
<1>4. PointOnSegment(q, b, a) <=> PointOnSegment(q, a, b)
  BY <1>1, <1>2 DEF PointOnSegment, Between
<1> QED
  BY <1>3, <1>4
--------------------------------------------------------------------------------
(* The outline as a set of edges. *)

(* The place after the i-th: i + 1, and 1 after the last. *)
LEMMA NextPlace ==
  ASSUME NEW n \in Nat \ {0}, NEW i \in 1 .. n
  PROVE  (i % n) + 1 = IF i = n THEN 1 ELSE i + 1
OBVIOUS

LEMMA FollowerIs ==
  ASSUME NEW p \in Seq(Vertex), NEW i \in DOMAIN p
  PROVE  /\ Follower(p, i) = IF i = Len(p) THEN p[1] ELSE p[i + 1]
         /\ Follower(p, i) \in Vertex /\ p[i] \in Vertex
<1>1. Len(p) \in Nat \ {0} /\ i \in 1 .. Len(p)
  OBVIOUS
<1>2. Follower(p, i) = IF i = Len(p) THEN p[1] ELSE p[i + 1]
  BY <1>1, NextPlace DEF Follower
<1>3. p[1] \in Vertex /\ p[i] \in Vertex /\ (i # Len(p) => p[i + 1] \in Vertex)
  BY <1>1
<1> QED
  BY <1>2, <1>3

(* The edge of r at i is the edge of p at j, in one direction or the other. *)
SameEdge(p, j, r, i) ==
  \/ r[i] = p[j] /\ Follower(r, i) = Follower(p, j)
  \/ r[i] = Follower(p, j) /\ Follower(r, i) = p[j]

(* Outlines with the same edges, in any order, are of the same region. *)
LEMMA SameEdgesSameRegion ==
  ASSUME NEW p \in Seq(Vertex), NEW r \in Seq(Vertex), NEW q \in Vertex,
         NEW n \in Nat, Len(p) = n, Len(r) = n, NEW f \in Bijection(1 .. n, 1 .. n),
         \A i \in 1 .. n : SameEdge(p, f[i], r, i)
  PROVE  IsInsideRoi(r, q) <=> IsInsideRoi(p, q)
<1>0. DOMAIN p = 1 .. n /\ DOMAIN r = 1 .. n
  OBVIOUS
<1>1. /\ f \in [1 .. n -> 1 .. n]
      /\ \A i, j \in 1 .. n : f[i] = f[j] => i = j
      /\ \A j \in 1 .. n : \E i \in 1 .. n : f[i] = j
  BY DEF Bijection, Injection, Surjection, IsInjective
<1>2. ASSUME NEW i \in 1 .. n
      PROVE  /\ Crosses(q, r[i], Follower(r, i)) <=>
                  Crosses(q, p[f[i]], Follower(p, f[i]))
             /\ PointOnSegment(q, r[i], Follower(r, i)) <=>
                  PointOnSegment(q, p[f[i]], Follower(p, f[i]))
  <2>1. f[i] \in 1 .. n /\ SameEdge(p, f[i], r, i)
    BY <1>1
  <2>2. p[f[i]] \in Vertex /\ Follower(p, f[i]) \in Vertex
    BY <1>0, <2>1, FollowerIs
  <2> QED
    BY <2>1, <2>2, EdgesTurn DEF SameEdge
<1>3. OnBoundary(r, q) <=> OnBoundary(p, q)
  BY <1>0, <1>1, <1>2 DEF OnBoundary
<1>4. Cardinality(Ray(r, q)) = Cardinality(Ray(p, q))
  <2> DEFINE g == [i \in Ray(r, q) |-> f[i]]
  <2>1. \A i \in 1 .. n : i \in Ray(r, q) <=> f[i] \in Ray(p, q)
    BY <1>0, <1>1, <1>2 DEF Ray
  <2>2. Ray(r, q) \subseteq 1 .. n /\ Ray(p, q) \subseteq 1 .. n
    BY <1>0 DEF Ray
  <2>3. g \in [Ray(r, q) -> Ray(p, q)]
    BY <2>1, <2>2
  <2>4. \A i, j \in Ray(r, q) : g[i] = g[j] => i = j
    BY <1>1, <2>2
  <2>5. \A j \in Ray(p, q) : \E i \in Ray(r, q) : g[i] = j
    BY <1>1, <2>1, <2>2
  <2>6. g \in Bijection(Ray(r, q), Ray(p, q))
    BY <2>3, <2>4, <2>5, Fun_IsBij
  <2>7. IsFiniteSet(1 .. n)
    BY FS_Interval
  <2>8. IsFiniteSet(Ray(r, q))
    BY <2>2, <2>7, FS_Subset
  <2> QED
    BY <2>6, <2>8, FS_Bijection DEF ExistsBijection
<1> QED
  BY <1>3, <1>4 DEF IsInsideRoi
--------------------------------------------------------------------------------
(* The two rearrangements of the places 1 .. n. *)
LEMMA ShiftIsBijection ==
  ASSUME NEW n \in Nat \ {0}
  PROVE  [i \in 1 .. n |-> IF i = n THEN 1 ELSE i + 1] \in Bijection(1 .. n, 1 .. n)
<1> DEFINE f == [i \in 1 .. n |-> IF i = n THEN 1 ELSE i + 1]
<1>1. f \in [1 .. n -> 1 .. n]
  OBVIOUS
<1>2. \A i \in 1 .. n : f[i] = IF i = n THEN 1 ELSE i + 1
  OBVIOUS
<1> HIDE DEF f
<1>3. \A i, j \in 1 .. n : f[i] = f[j] => i = j
  BY <1>2
<1>4. ASSUME NEW j \in 1 .. n
      PROVE  \E i \in 1 .. n : f[i] = j
  <2>1. CASE j = 1
    <3>1. n \in 1 .. n /\ f[n] = 1
      BY <1>2
    <3> QED
      BY <2>1, <3>1
  <2>2. CASE j # 1
    <3>1. j - 1 \in 1 .. n /\ f[j - 1] = j
      BY <1>2, <2>2
    <3> QED
      BY <3>1
  <2> QED
    BY <2>1, <2>2
<1>5. f \in Bijection(1 .. n, 1 .. n)
  BY <1>1, <1>3, <1>4, Fun_IsBij
<1> QED
  BY <1>5 DEF f

LEMMA TurnIsBijection ==
  ASSUME NEW n \in Nat \ {0}
  PROVE  [i \in 1 .. n |-> IF i = n THEN n ELSE n - i] \in Bijection(1 .. n, 1 .. n)
<1> DEFINE f == [i \in 1 .. n |-> IF i = n THEN n ELSE n - i]
<1>1. f \in [1 .. n -> 1 .. n]
  OBVIOUS
<1>2. \A i \in 1 .. n : f[i] = IF i = n THEN n ELSE n - i
  OBVIOUS
<1> HIDE DEF f
<1>3. \A i, j \in 1 .. n : f[i] = f[j] => i = j
  BY <1>2
<1>4. ASSUME NEW j \in 1 .. n
      PROVE  f[j] \in 1 .. n /\ f[f[j]] = j
  <2>1. f[j] \in 1 .. n /\ f[j] = IF j = n THEN n ELSE n - j
    BY <1>1, <1>2
  <2>2. f[f[j]] = IF f[j] = n THEN n ELSE n - f[j]
    BY <1>2, <2>1
  <2> QED
    BY <2>1, <2>2
<1>5. f \in Bijection(1 .. n, 1 .. n)
  BY <1>1, <1>3, <1>4, Fun_IsBij
<1> QED
  BY <1>5 DEF f

(* The list may start at any point. *)
LEMMA RotationKeeps ==
  ASSUME NEW n \in Nat \ {0}, NEW p \in Seq(Vertex), Len(p) = n,
         NEW q \in Vertex
  PROVE  IsInsideRoi(Rotated(p), q) <=> IsInsideRoi(p, q)
<1> DEFINE r == Rotated(p)
           f == [i \in 1 .. n |-> IF i = n THEN 1 ELSE i + 1]
<1>1. n \in Nat \ {0} /\ DOMAIN p = 1 .. n
  OBVIOUS
<1>2. /\ Tail(p) \in Seq(Vertex) /\ Len(Tail(p)) = n - 1
      /\ \A i \in 1 .. n - 1 : Tail(p)[i] = p[i + 1]
      /\ Head(p) = p[1] /\ Head(p) \in Vertex
  BY <1>1, HeadTailProperties
<1>3. /\ r \in Seq(Vertex) /\ Len(r) = n
      /\ \A i \in 1 .. n - 1 : r[i] = p[i + 1]
      /\ r[n] = p[1]
  BY <1>1, <1>2, AppendProperties DEF Rotated
<1> HIDE DEF r
<1>4. DOMAIN r = 1 .. n
  BY <1>3
<1>5. f \in Bijection(1 .. n, 1 .. n)
  BY <1>1, ShiftIsBijection
<1>f. \A i \in 1 .. n : f[i] \in 1 .. n /\ f[i] = IF i = n THEN 1 ELSE i + 1
  BY <1>1
<1> HIDE DEF f
<1>6. ASSUME NEW i \in 1 .. n
      PROVE  SameEdge(p, f[i], r, i)
  <2>1. i \in 1 .. n /\ f[i] \in 1 .. n
    BY <1>f
  <2>2. Follower(r, i) = IF i = n THEN r[1] ELSE r[i + 1]
    BY <1>3, FollowerIs
  <2>3. Follower(p, f[i]) = IF f[i] = n THEN p[1] ELSE p[f[i] + 1]
    BY <1>1, <2>1, FollowerIs
  <2>4. r[i] = p[f[i]]
    BY <1>f, <1>3, <2>1
  <2>5. Follower(r, i) = Follower(p, f[i])
    BY <1>f, <1>3, <2>1, <2>2, <2>3
  <2> QED
    BY <2>4, <2>5 DEF SameEdge
<1> HIDE DEF f
<1>7. Len(r) = Len(p)
  BY <1>3
<1>8. IsInsideRoi(r, q) <=> IsInsideRoi(p, q)
  BY <1>3, <1>5, <1>6, <1>7, SameEdgesSameRegion
<1> QED
  BY <1>8 DEF r

(* The list may go either way round. *)
LEMMA ReversalKeeps ==
  ASSUME NEW n \in Nat \ {0}, NEW p \in Seq(Vertex), Len(p) = n,
         NEW q \in Vertex
  PROVE  IsInsideRoi(Reversed(p), q) <=> IsInsideRoi(p, q)
<1> DEFINE r == Reversed(p)
           f == [i \in 1 .. n |-> IF i = n THEN n ELSE n - i]
<1>1. n \in Nat \ {0} /\ DOMAIN p = 1 .. n
  OBVIOUS
<1>2. r = [i \in 1 .. n |-> p[n + 1 - i]]
  BY <1>1 DEF Reversed
<1>3. \A i \in 1 .. n : n + 1 - i \in 1 .. n
  BY <1>1
<1>4. r \in [1 .. n -> Vertex]
  BY <1>1, <1>2, <1>3
<1>5. r \in Seq(Vertex) /\ Len(r) = n /\ DOMAIN r = 1 .. n
  BY <1>1, <1>4
<1>6. \A i \in 1 .. n : r[i] = p[n + 1 - i]
  BY <1>2
<1> HIDE DEF r
<1>7. f \in Bijection(1 .. n, 1 .. n)
  BY <1>1, TurnIsBijection
<1>f. \A i \in 1 .. n : f[i] \in 1 .. n /\ f[i] = IF i = n THEN n ELSE n - i
  BY <1>1
<1> HIDE DEF f
<1>8. ASSUME NEW i \in 1 .. n
      PROVE  SameEdge(p, f[i], r, i)
  <2>1. i \in 1 .. n /\ f[i] \in 1 .. n
    BY <1>f
  <2>2. Follower(r, i) = IF i = n THEN r[1] ELSE r[i + 1]
    BY <1>5, FollowerIs
  <2>3. Follower(p, f[i]) = IF f[i] = n THEN p[1] ELSE p[f[i] + 1]
    BY <1>1, <2>1, FollowerIs
  <2>4. CASE i = n
    <3>1. r[n] = p[1] /\ r[1] = p[n]
      BY <1>1, <1>6
    <3> QED
      BY <1>f, <2>2, <2>3, <2>4, <3>1, <1>1 DEF SameEdge
  <2>5. CASE i # n
    <3>1. f[i] = n - i /\ f[i] # n
      BY <1>f, <2>5
    <3>2. r[i] = p[n + 1 - i] /\ r[i + 1] = p[n - i]
      <4>1. i + 1 \in 1 .. n /\ n + 1 - (i + 1) = n - i
        BY <2>1, <2>5
      <4> QED
        BY <1>6, <2>1, <4>1
    <3>3. f[i] + 1 = n + 1 - i
      BY <1>1, <2>1, <3>1
    <3>4. Follower(p, f[i]) = r[i]
      BY <2>3, <3>1, <3>2, <3>3
    <3>5. Follower(r, i) = p[f[i]]
      BY <2>2, <2>5, <3>1, <3>2
    <3> QED
      BY <3>4, <3>5 DEF SameEdge
  <2> QED
    BY <2>4, <2>5
<1> HIDE DEF f
<1>9. IsInsideRoi(r, q) <=> IsInsideRoi(p, q)
  BY <1>5, <1>7, <1>8, SameEdgesSameRegion
<1> QED
  BY <1>9 DEF r
--------------------------------------------------------------------------------
(* An edge seen from the centre: from (u, v) to (s, t). *)

Hit(u, v, s, t) ==
  /\ v * s - u * t = 0
  /\ ~(u > 0 /\ s > 0) /\ ~(u < 0 /\ s < 0)
  /\ ~(v > 0 /\ t > 0) /\ ~(v < 0 /\ t < 0)

CutsRay(u, v, s, t) ==
  /\ ~(v > 0 <=> t > 0)
  /\ t > v => v * s - u * t < 0
  /\ t <= v => v * s - u * t > 0

LEMMA SeenFromCentre ==
  ASSUME NEW q \in Vertex, NEW a \in Vertex, NEW b \in Vertex
  PROVE  /\ Crosses(q, a, b) <=> CutsRay(a.x - q.x, a.y - q.y, b.x - q.x, b.y - q.y)
         /\ PointOnSegment(q, a, b) <=> Hit(a.x - q.x, a.y - q.y, b.x - q.x, b.y - q.y)
         /\ Cross(q, a, b) = (a.y - q.y) * (b.x - q.x) - (a.x - q.x) * (b.y - q.y)
<1> DEFINE u == a.x - q.x
           v == a.y - q.y
           s == b.x - q.x
           t == b.y - q.y
<1>1. /\ q.x \in Int /\ q.y \in Int /\ a.x \in Int /\ a.y \in Int /\ b.x \in Int /\ b.y \in Int
      /\ u \in Int /\ v \in Int /\ s \in Int /\ t \in Int
  BY DEF Vertex
<1>2. Cross(q, a, b) = v * s - u * t
  <2>1. \A k, l, m, n, w, z \in Int :
          (k - m) * (z - n) - (l - n) * (w - m) = (n - l) * (w - k) - (m - k) * (z - l)
    OBVIOUS
  <2> QED
    BY <1>1, <2>1 DEF Cross
<1>3. v * s - u * t \in Int
  BY <1>1
<1>4. /\ a.y > q.y <=> v > 0
      /\ b.y > q.y <=> t > 0
      /\ b.y > a.y <=> t > v
      /\ t <= v <=> ~(t > v)
      /\ Between(q.x, a.x, b.x) <=> ~(u > 0 /\ s > 0) /\ ~(u < 0 /\ s < 0)
      /\ Between(q.y, a.y, b.y) <=> ~(v > 0 /\ t > 0) /\ ~(v < 0 /\ t < 0)
  BY <1>1 DEF Between
<1> HIDE DEF u, v, s, t
<1>5. Crosses(q, a, b) <=> CutsRay(u, v, s, t)
  BY <1>2, <1>3, <1>4 DEF Crosses, CutsRay
<1>6. PointOnSegment(q, a, b) <=> Hit(u, v, s, t)
  BY <1>2, <1>3, <1>4 DEF PointOnSegment, Hit
<1> QED
  BY <1>2, <1>5, <1>6 DEF u, v, s, t

LEMMA Signs ==
  ASSUME NEW m \in Int, NEW k \in Int
  PROVE  /\ m * k \in Int
         /\ m > 0 /\ k > 0 => m * k > 0
         /\ m < 0 /\ k < 0 => m * k > 0
         /\ m > 0 /\ k < 0 => m * k < 0
         /\ m < 0 /\ k > 0 => m * k < 0
         /\ m = 0 \/ k = 0 => m * k = 0
         /\ m * (-k) = -(m * k)
         /\ (-m) * k = -(m * k)
         /\ m * k = k * m
<1>1. m > 0 /\ k > 0 => m * k > 0
  OBVIOUS
<1>2. m < 0 /\ k < 0 => m * k > 0
  OBVIOUS
<1>3. m > 0 /\ k < 0 => m * k < 0
  OBVIOUS
<1>4. m < 0 /\ k > 0 => m * k < 0
  OBVIOUS
<1>5. (m = 0 \/ k = 0 => m * k = 0) /\ m * (-k) = -(m * k) /\ (-m) * k = -(m * k)
  OBVIOUS
<1> QED
  BY <1>1, <1>2, <1>3, <1>4, <1>5

(* The ray to the left crosses the other edges that pass from one side of the
   horizontal line to the other. *)
LEMMA LeftRay ==
  ASSUME NEW u \in Int, NEW v \in Int, NEW s \in Int, NEW t \in Int, ~Hit(u, v, s, t)
  PROVE  ~(CutsRay(u, v, s, t) <=> CutsRay(-u, v, -s, t)) <=> ~(v > 0 <=> t > 0)
<1>1. v * (-s) - (-u) * t = -(v * s - u * t) /\ v * s \in Int /\ u * t \in Int
  BY Signs
<1>2. ASSUME v > 0, t <= 0, v * s - u * t = 0
      PROVE  ~(u > 0 /\ s > 0) /\ ~(u < 0 /\ s < 0)
  BY <1>2, Signs
<1>3. ASSUME t > 0, v <= 0, v * s - u * t = 0
      PROVE  ~(u > 0 /\ s > 0) /\ ~(u < 0 /\ s < 0)
  BY <1>3, Signs
<1>4. ~(v > 0 <=> t > 0) => v * s - u * t # 0
  BY <1>2, <1>3 DEF Hit
<1> QED
  BY <1>1, <1>4 DEF CutsRay

(* Counting the points at the height of the centre as above it or as below it
   differs by the edges with one end on the ray. *)
LEMMA LowerRay ==
  ASSUME NEW u \in Int, NEW v \in Int, NEW s \in Int, NEW t \in Int, ~Hit(u, v, s, t)
  PROVE  ~(CutsRay(u, v, s, t) <=> CutsRay(u, -v, s, -t)) <=>
           ~(v = 0 /\ u > 0 <=> t = 0 /\ s > 0)
<1>1. /\ (-v) * s - u * (-t) = -(v * s - u * t)
      /\ v * s \in Int /\ u * t \in Int
  BY Signs
<1>2. CASE v = 0
  BY <1>1, <1>2, Signs DEF CutsRay, Hit
<1>3. CASE t = 0
  BY <1>1, <1>3, Signs DEF CutsRay, Hit
<1>4. CASE v # 0 /\ t # 0
  BY <1>1, <1>4 DEF CutsRay
<1> QED
  BY <1>2, <1>3, <1>4

(* The ray to the right and the vertical one bound a quadrant, which an edge
   enters or leaves across one of them. *)
LEMMA VerticalRay ==
  ASSUME NEW u \in Int, NEW v \in Int, NEW s \in Int, NEW t \in Int, ~Hit(u, v, s, t)
  PROVE  ~(CutsRay(u, v, s, t) <=> CutsRay(v, u, t, s)) <=>
           ~(u > 0 /\ v > 0 <=> s > 0 /\ t > 0)
<1>1. /\ u * t - v * s = -(v * s - u * t)
      /\ v * s \in Int /\ u * t \in Int
  BY Signs
<1>2. CASE u > 0 /\ v > 0
  BY <1>1, <1>2, Signs DEF CutsRay, Hit
<1>3. CASE s > 0 /\ t > 0
  BY <1>1, <1>3, Signs DEF CutsRay, Hit
<1>4. CASE ~(u > 0 /\ v > 0) /\ ~(s > 0 /\ t > 0)
  BY <1>1, <1>4, Signs DEF CutsRay, Hit
<1> QED
  BY <1>2, <1>3, <1>4

(* None of this moves an edge onto the centre or off it. *)
LEMMA HitSeen ==
  ASSUME NEW u \in Int, NEW v \in Int, NEW s \in Int, NEW t \in Int
  PROVE  /\ Hit(-u, v, -s, t) <=> Hit(u, v, s, t)
         /\ Hit(u, -v, s, -t) <=> Hit(u, v, s, t)
         /\ Hit(v, u, t, s) <=> Hit(u, v, s, t)
<1>1. /\ v * (-s) - (-u) * t = -(v * s - u * t)
      /\ (-v) * s - u * (-t) = -(v * s - u * t)
      /\ u * t - v * s = -(v * s - u * t)
      /\ v * s \in Int /\ u * t \in Int
  BY Signs
<1> QED
  BY <1>1 DEF Hit
--------------------------------------------------------------------------------
(* Around a closed outline, what is entered is left as often. *)

Less == {p \in Nat \X Nat : p[1] < p[2]}

LEMMA LeastNumber ==
  ASSUME NEW T, T \subseteq Nat, T # {}
  PROVE  \E m \in T : \A k \in T : m <= k
<1>1. IsWellFoundedOn(Less, Nat)
  BY NatLessThanWellFounded DEF OpToRel, Less
<1>2. PICK m \in T : \A k \in T : ~(<<k, m>> \in Less)
  BY <1>1, WFMin
<1>3. ASSUME NEW k \in T
      PROVE  m <= k
  <2>1. k \in Nat /\ m \in Nat
    OBVIOUS
  <2>2. <<k, m>> \in Less <=> k < m
    BY <2>1 DEF Less
  <2> QED
    BY <1>2, <2>1, <2>2
<1> QED
  BY <1>3

\* The place after the i-th of n.
Place(n, i) == IF i = n THEN 1 ELSE i + 1

\* The edges, by their first place, that lead into G or out of it.
Turns(n, G) == {i \in 1 .. n : ~(i \in G <=> Place(n, i) \in G)}

LEMMA TurnsAreEven ==
  ASSUME NEW n \in Nat \ {0}, NEW G
  PROVE  IsFiniteSet(Turns(n, G)) /\ Cardinality(Turns(n, G)) % 2 = 0
<1> DEFINE UpTo(k) == {i \in 1 .. k - 1 : ~(i \in G <=> i + 1 \in G)}
           Even(k) == Cardinality(UpTo(k)) % 2 = 0
           bad == {k \in 1 .. n : ~(Even(k) <=> (1 \in G <=> k \in G))}
<1>1. ASSUME NEW k \in 1 .. n
      PROVE  IsFiniteSet(UpTo(k)) /\ Cardinality(UpTo(k)) \in Nat
  <2>1. IsFiniteSet(1 .. k - 1)
    BY FS_Interval
  <2>2. UpTo(k) \in SUBSET (1 .. k - 1)
    OBVIOUS
  <2> HIDE DEF UpTo
  <2>3. IsFiniteSet(UpTo(k))
    BY <2>1, <2>2, FS_Subset
  <2> QED
    BY <2>3, FS_CardinalityType
<1>2. Even(1)
  <2>1. UpTo(1) = {}
    OBVIOUS
  <2>2. Cardinality(UpTo(1)) = 0
    BY <2>1, FS_EmptySet
  <2> QED
    BY <2>2
<1>3. ASSUME NEW k \in 1 .. n - 1
      PROVE  Even(k + 1) <=> (Even(k) <=> (k \in G <=> k + 1 \in G))
  <2>1. UpTo(k + 1) = IF k \in G <=> k + 1 \in G THEN UpTo(k) ELSE UpTo(k) \cup {k}
    OBVIOUS
  <2>2. k \notin UpTo(k)
    OBVIOUS
  <2>3. k \in 1 .. n
    OBVIOUS
  <2> HIDE DEF UpTo
  <2>4. IsFiniteSet(UpTo(k)) /\ Cardinality(UpTo(k)) \in Nat
    BY <1>1, <2>3
  <2>5. Cardinality(UpTo(k) \cup {k}) = Cardinality(UpTo(k)) + 1
    BY <2>2, <2>4, FS_AddElement
  <2>6. (Cardinality(UpTo(k)) + 1) % 2 = 0 <=> ~(Cardinality(UpTo(k)) % 2 = 0)
    BY <2>4
  <2>7. CASE k \in G <=> k + 1 \in G
    BY <2>1, <2>7
  <2>8. CASE ~(k \in G <=> k + 1 \in G)
    BY <2>1, <2>5, <2>6, <2>8
  <2> QED
    BY <2>7, <2>8
<1>4. bad = {}
  <2> SUFFICES ASSUME bad # {} PROVE FALSE
    OBVIOUS
  <2>1. bad \subseteq Nat /\ bad \subseteq 1 .. n
    OBVIOUS
  <2>2. PICK m \in bad : \A k \in bad : m <= k
    BY <2>1, LeastNumber
  <2>3. m # 1
    BY <1>2, <2>2
  <2>4. m \in 1 .. n /\ m - 1 \in 1 .. n - 1 /\ m - 1 \in 1 .. n /\ (m - 1) + 1 = m
    BY <2>1, <2>3
  <2>5. m - 1 \notin bad
    BY <2>2, <2>4
  <2>6. Even(m) <=> (Even(m - 1) <=> (m - 1 \in G <=> m \in G))
    BY <1>3, <2>4
  <2>7. Even(m - 1) <=> (1 \in G <=> m - 1 \in G)
    BY <2>4, <2>5
  <2>8. ~(Even(m) <=> (1 \in G <=> m \in G))
    BY <2>2
  <2> QED
    BY <2>6, <2>7, <2>8
<1>5. Even(n) <=> (1 \in G <=> n \in G)
  BY <1>4
<1>6. Turns(n, G) = IF n \in G <=> 1 \in G THEN UpTo(n) ELSE UpTo(n) \cup {n}
  BY DEF Turns, Place
<1>7. n \notin UpTo(n) /\ n \in 1 .. n
  OBVIOUS
<1> HIDE DEF UpTo
<1>8. IsFiniteSet(UpTo(n)) /\ Cardinality(UpTo(n)) \in Nat
  BY <1>1, <1>7
<1>9. /\ IsFiniteSet(UpTo(n) \cup {n})
      /\ Cardinality(UpTo(n) \cup {n}) = Cardinality(UpTo(n)) + 1
  BY <1>7, <1>8, FS_AddElement
<1>10. (Cardinality(UpTo(n)) + 1) % 2 = 0 <=> ~(Cardinality(UpTo(n)) % 2 = 0)
  BY <1>8
<1>11. CASE n \in G <=> 1 \in G
  BY <1>5, <1>6, <1>8, <1>11
<1>12. CASE ~(n \in G <=> 1 \in G)
  BY <1>5, <1>6, <1>9, <1>10, <1>12
<1> QED
  BY <1>11, <1>12

(* Sets that differ in the edges that lead into G or out of it are both even or
   both odd. *)
LEMMA ParityKept ==
  ASSUME NEW n \in Nat \ {0}, NEW G, NEW A \in SUBSET (1 .. n), NEW B \in SUBSET (1 .. n),
         \A i \in 1 .. n : ~(i \in A <=> i \in B) <=> i \in Turns(n, G)
  PROVE  Cardinality(A) % 2 = Cardinality(B) % 2
<1>1. Turns(n, G) = (A \ B) \cup (B \ A)
  BY DEF Turns
<1>2. IsFiniteSet(A) /\ IsFiniteSet(B)
  <2>1. IsFiniteSet(1 .. n)
    BY FS_Interval
  <2> QED
    BY <2>1, FS_Subset
<1>3. /\ IsFiniteSet(A \ B) /\ IsFiniteSet(B \ A) /\ IsFiniteSet(A \cap B)
      /\ Cardinality(A \ B) = Cardinality(A) - Cardinality(A \cap B)
      /\ Cardinality(B \ A) = Cardinality(B) - Cardinality(A \cap B)
  <2>1. B \cap A = A \cap B
    OBVIOUS
  <2>2. /\ IsFiniteSet(A \ B) /\ Cardinality(A \ B) = Cardinality(A) - Cardinality(A \cap B)
    BY <1>2, FS_Difference
  <2>3. /\ IsFiniteSet(B \ A) /\ Cardinality(B \ A) = Cardinality(B) - Cardinality(B \cap A)
    BY <1>2, FS_Difference
  <2>4. IsFiniteSet(A \cap B)
    BY <1>2, FS_Intersection
  <2> QED
    BY <2>1, <2>2, <2>3, <2>4
<1>4. Cardinality((A \ B) \cup (B \ A)) = Cardinality(A \ B) + Cardinality(B \ A)
  <2>1. Cardinality((A \ B) \cap (B \ A)) = 0
    <3>1. (A \ B) \cap (B \ A) = {}
      OBVIOUS
    <3> QED
      BY <3>1, FS_EmptySet
  <2>2. Cardinality((A \ B) \cup (B \ A)) = Cardinality(A \ B) + Cardinality(B \ A)
                                                - Cardinality((A \ B) \cap (B \ A))
    BY <1>3, FS_Union
  <2>3. Cardinality(A \ B) \in Nat /\ Cardinality(B \ A) \in Nat
    BY <1>3, FS_CardinalityType
  <2> QED
    BY <2>1, <2>2, <2>3
<1>5. Cardinality(A) \in Nat /\ Cardinality(B) \in Nat /\ Cardinality(A \cap B) \in Nat
  BY <1>2, <1>3, FS_CardinalityType
<1>6. \A x, y, z \in Nat : ((x - z) + (y - z)) % 2 = 0 => x % 2 = y % 2
  OBVIOUS
<1>7. ((Cardinality(A) - Cardinality(A \cap B)) + (Cardinality(B) - Cardinality(A \cap B))) % 2 = 0
  BY <1>1, <1>3, <1>4, TurnsAreEven
<1> QED
  BY <1>5, <1>6, <1>7
--------------------------------------------------------------------------------
(* Two outlines, or the same seen from another centre, with the same number of
   points: if no edge is on one centre only, and the edges that cross one ray only
   are those that lead into G or out of it, the answer is the same. *)
LEMMA RaysAgree ==
  ASSUME NEW n \in Nat \ {0}, NEW p \in Seq(Vertex), NEW r \in Seq(Vertex),
         Len(p) = n, Len(r) = n, NEW q, NEW c, NEW G,
         \A i \in 1 .. n : PointOnSegment(q, p[i], Follower(p, i)) <=>
                             PointOnSegment(c, r[i], Follower(r, i)),
         \A i \in 1 .. n : ~PointOnSegment(q, p[i], Follower(p, i)) =>
           (~(Crosses(q, p[i], Follower(p, i)) <=> Crosses(c, r[i], Follower(r, i))) <=>
              ~(i \in G <=> Place(n, i) \in G))
  PROVE  IsInsideRoi(p, q) <=> IsInsideRoi(r, c)
<1>1. DOMAIN p = 1 .. n /\ DOMAIN r = 1 .. n
  OBVIOUS
<1>2. OnBoundary(p, q) <=> OnBoundary(r, c)
  BY <1>1 DEF OnBoundary
<1>3. CASE OnBoundary(p, q)
  BY <1>2, <1>3 DEF IsInsideRoi
<1>4. CASE ~OnBoundary(p, q)
  <2>1. \A i \in 1 .. n : ~PointOnSegment(q, p[i], Follower(p, i))
    BY <1>1, <1>4 DEF OnBoundary
  <2>2. /\ Ray(p, q) \in SUBSET (1 .. n) /\ Ray(r, c) \in SUBSET (1 .. n)
        /\ \A i \in 1 .. n : i \in Ray(p, q) <=> Crosses(q, p[i], Follower(p, i))
        /\ \A i \in 1 .. n : i \in Ray(r, c) <=> Crosses(c, r[i], Follower(r, i))
    BY <1>1 DEF Ray
  <2>3. \A i \in 1 .. n : i \in Turns(n, G) <=> ~(i \in G <=> Place(n, i) \in G)
    BY DEF Turns
  <2>4. \A i \in 1 .. n : ~(i \in Ray(p, q) <=> i \in Ray(r, c)) <=> i \in Turns(n, G)
    BY <2>1, <2>2, <2>3
  <2>5. Cardinality(Ray(p, q)) % 2 = Cardinality(Ray(r, c)) % 2
    BY <2>2, <2>4, ParityKept
  <2> QED
    BY <1>2, <2>5 DEF IsInsideRoi
<1> QED
  BY <1>3, <1>4

(* What an edge and its mirror image are to the centre and its image. *)
LEMMA EdgesMirrored ==
  ASSUME NEW q \in Vertex, NEW a \in Vertex, NEW b \in Vertex, Width \in Int, Height \in Int
  PROVE  /\ PointOnSegment(MirrorX(q), MirrorX(a), MirrorX(b)) <=> PointOnSegment(q, a, b)
         /\ PointOnSegment(MirrorY(q), MirrorY(a), MirrorY(b)) <=> PointOnSegment(q, a, b)
         /\ PointOnSegment(Transposed(q), Transposed(a), Transposed(b)) <=>
              PointOnSegment(q, a, b)
         /\ ~PointOnSegment(q, a, b) =>
              /\ ~(Crosses(q, a, b) <=> Crosses(MirrorX(q), MirrorX(a), MirrorX(b))) <=>
                   ~(a.y > q.y <=> b.y > q.y)
              /\ ~(Crosses(q, a, b) <=> Crosses(MirrorY(q), MirrorY(a), MirrorY(b))) <=>
                   ~(a.y = q.y /\ a.x > q.x <=> b.y = q.y /\ b.x > q.x)
              /\ ~(Crosses(q, a, b) <=> Crosses(Transposed(q), Transposed(a), Transposed(b))) <=>
                   ~(a.x > q.x /\ a.y > q.y <=> b.x > q.x /\ b.y > q.y)
<1> DEFINE u == a.x - q.x
           v == a.y - q.y
           s == b.x - q.x
           t == b.y - q.y
<1>1. /\ q.x \in Int /\ q.y \in Int /\ a.x \in Int /\ a.y \in Int /\ b.x \in Int /\ b.y \in Int
      /\ u \in Int /\ v \in Int /\ s \in Int /\ t \in Int
  BY DEF Vertex
<1>2. /\ a.x > q.x <=> u > 0
      /\ a.y > q.y <=> v > 0
      /\ a.y = q.y <=> v = 0
      /\ b.x > q.x <=> s > 0
      /\ b.y > q.y <=> t > 0
      /\ b.y = q.y <=> t = 0
  BY <1>1
<1>3. \A w \in Vertex : MirrorX(w) \in Vertex /\ MirrorY(w) \in Vertex /\ Transposed(w) \in Vertex
  BY DEF Vertex, MirrorX, MirrorY, Transposed
<1>4. /\ MirrorX(a).x - MirrorX(q).x = -u /\ MirrorX(a).y - MirrorX(q).y = v
      /\ MirrorX(b).x - MirrorX(q).x = -s /\ MirrorX(b).y - MirrorX(q).y = t
  BY <1>1 DEF MirrorX
<1>5. /\ MirrorY(a).x - MirrorY(q).x = u /\ MirrorY(a).y - MirrorY(q).y = -v
      /\ MirrorY(b).x - MirrorY(q).x = s /\ MirrorY(b).y - MirrorY(q).y = -t
  BY <1>1 DEF MirrorY
<1>6. /\ Transposed(a).x - Transposed(q).x = v /\ Transposed(a).y - Transposed(q).y = u
      /\ Transposed(b).x - Transposed(q).x = t /\ Transposed(b).y - Transposed(q).y = s
  BY <1>1 DEF Transposed
<1>7. /\ Crosses(q, a, b) <=> CutsRay(u, v, s, t)
      /\ PointOnSegment(q, a, b) <=> Hit(u, v, s, t)
  BY SeenFromCentre
<1> HIDE DEF u, v, s, t
<1>8. /\ Crosses(MirrorX(q), MirrorX(a), MirrorX(b)) <=> CutsRay(-u, v, -s, t)
      /\ PointOnSegment(MirrorX(q), MirrorX(a), MirrorX(b)) <=> Hit(-u, v, -s, t)
  BY <1>3, <1>4, SeenFromCentre
<1>9. /\ Crosses(MirrorY(q), MirrorY(a), MirrorY(b)) <=> CutsRay(u, -v, s, -t)
      /\ PointOnSegment(MirrorY(q), MirrorY(a), MirrorY(b)) <=> Hit(u, -v, s, -t)
  BY <1>3, <1>5, SeenFromCentre
<1>10. /\ Crosses(Transposed(q), Transposed(a), Transposed(b)) <=> CutsRay(v, u, t, s)
       /\ PointOnSegment(Transposed(q), Transposed(a), Transposed(b)) <=> Hit(v, u, t, s)
  BY <1>3, <1>6, SeenFromCentre
<1>11. /\ Hit(-u, v, -s, t) <=> Hit(u, v, s, t)
       /\ Hit(u, -v, s, -t) <=> Hit(u, v, s, t)
       /\ Hit(v, u, t, s) <=> Hit(u, v, s, t)
  BY <1>1, HitSeen
<1>12. ~Hit(u, v, s, t) =>
         /\ ~(CutsRay(u, v, s, t) <=> CutsRay(-u, v, -s, t)) <=> ~(v > 0 <=> t > 0)
         /\ ~(CutsRay(u, v, s, t) <=> CutsRay(u, -v, s, -t)) <=>
              ~(v = 0 /\ u > 0 <=> t = 0 /\ s > 0)
         /\ ~(CutsRay(u, v, s, t) <=> CutsRay(v, u, t, s)) <=>
              ~(u > 0 /\ v > 0 <=> s > 0 /\ t > 0)
  <2>1. ~Hit(u, v, s, t) =>
          (~(CutsRay(u, v, s, t) <=> CutsRay(-u, v, -s, t)) <=> ~(v > 0 <=> t > 0))
    BY <1>1, LeftRay
  <2>2. ~Hit(u, v, s, t) =>
          (~(CutsRay(u, v, s, t) <=> CutsRay(u, -v, s, -t)) <=>
             ~(v = 0 /\ u > 0 <=> t = 0 /\ s > 0))
    BY <1>1, LowerRay
  <2>3. ~Hit(u, v, s, t) =>
          (~(CutsRay(u, v, s, t) <=> CutsRay(v, u, t, s)) <=>
             ~(u > 0 /\ v > 0 <=> s > 0 /\ t > 0))
    BY <1>1, VerticalRay
  <2> QED
    BY <2>1, <2>2, <2>3
<1> QED
  BY <1>2, <1>7, <1>8, <1>9, <1>10, <1>11, <1>12

(* Places, for the edges of outlines of n points. *)
LEMMA EdgePlaces ==
  ASSUME NEW n \in Nat \ {0}, NEW p \in Seq(Vertex), Len(p) = n
  PROVE  \A i \in 1 .. n : /\ p[i] \in Vertex /\ Place(n, i) \in 1 .. n
                          /\ Follower(p, i) = p[Place(n, i)]
<1>1. DOMAIN p = 1 .. n /\ \A i \in 1 .. n : p[i] \in Vertex
  OBVIOUS
<1>2. \A i \in 1 .. n : Place(n, i) \in 1 .. n
  BY DEF Place
<1>3. \A i \in 1 .. n : Follower(p, i) = p[Place(n, i)]
  BY <1>1, FollowerIs DEF Place
<1> QED
  BY <1>1, <1>2, <1>3

LEMMA MirrorsTyped ==
  ASSUME Width \in Int, Height \in Int, NEW v \in Vertex
  PROVE  MirrorX(v) \in Vertex /\ MirrorY(v) \in Vertex /\ Transposed(v) \in Vertex
BY DEF Vertex, MirrorX, MirrorY, Transposed

(* The ray may go to the left. *)
LEMMA MirrorXKeeps ==
  ASSUME Width \in Int, Height \in Int, NEW p \in Seq(Vertex), NEW q \in Vertex
  PROVE  IsInsideRoi(p, q) <=> IsInsideRoi(Mapped(p, MirrorX), MirrorX(q))
<1> DEFINE r == [i \in DOMAIN p |-> MirrorX(p[i])]
           G == {i \in 1 .. Len(p) : p[i].y > q.y}
<1>1. Mapped(p, MirrorX) = r
  BY DEF Mapped
<1>2. /\ Len(p) \in Nat /\ DOMAIN p = 1 .. Len(p)
      /\ \A i \in 1 .. Len(p) : p[i] \in Vertex
  OBVIOUS
<1>3. r \in [1 .. Len(p) -> Vertex]
  BY <1>2, MirrorsTyped
<1>4. /\ r \in Seq(Vertex) /\ Len(r) = Len(p)
      /\ \A i \in 1 .. Len(p) : r[i] = MirrorX(p[i])
      /\ \A i \in 1 .. Len(p) : i \in G <=> p[i].y > q.y
  BY <1>2, <1>3
<1> HIDE DEF r, G
<1>5. CASE Len(p) < 3
  BY <1>1, <1>4, <1>5 DEF IsInsideRoi
<1>6. CASE Len(p) >= 3
  <2>0. Len(p) \in Nat \ {0}
    BY <1>2, <1>6
  <2>1. PICK n \in Nat \ {0} : Len(p) = n
    BY <2>0, Zenon
  <2>2. /\ \A i \in 1 .. n : /\ p[i] \in Vertex /\ Place(n, i) \in 1 .. n
                             /\ Follower(p, i) = p[Place(n, i)]
        /\ \A i \in 1 .. n : Follower(r, i) = r[Place(n, i)]
    BY <1>4, <2>1, EdgePlaces
  <2>3. \A i \in 1 .. n : i \in G <=> p[i].y > q.y
    BY <1>4, <2>1
  <2>4. ASSUME NEW i \in 1 .. n
        PROVE  /\ PointOnSegment(q, p[i], Follower(p, i)) <=>
                    PointOnSegment(MirrorX(q), r[i], Follower(r, i))
               /\ ~PointOnSegment(q, p[i], Follower(p, i)) =>
                    (~(Crosses(q, p[i], Follower(p, i)) <=>
                         Crosses(MirrorX(q), r[i], Follower(r, i))) <=>
                       ~(i \in G <=> Place(n, i) \in G))
    <3>1. /\ p[i] \in Vertex /\ Follower(p, i) \in Vertex
          /\ Follower(p, i) = p[Place(n, i)] /\ Place(n, i) \in 1 .. n
          /\ r[i] = MirrorX(p[i]) /\ Follower(r, i) = MirrorX(Follower(p, i))
      BY <1>4, <2>1, <2>2
    <3> QED
      BY <2>3, <3>1, EdgesMirrored
  <2>5. IsInsideRoi(p, q) <=> IsInsideRoi(r, MirrorX(q))
    BY <1>4, <2>1, <2>4, RaysAgree
  <2> QED
    BY <1>1, <2>5
<1>7. Len(p) < 3 \/ Len(p) >= 3
  BY <1>2
<1> QED
  BY <1>5, <1>6, <1>7

(* A point of the outline at the height of the centre may count as above it. *)
LEMMA MirrorYKeeps ==
  ASSUME Width \in Int, Height \in Int, NEW p \in Seq(Vertex), NEW q \in Vertex
  PROVE  IsInsideRoi(p, q) <=> IsInsideRoi(Mapped(p, MirrorY), MirrorY(q))
<1> DEFINE r == [i \in DOMAIN p |-> MirrorY(p[i])]
           G == {i \in 1 .. Len(p) : p[i].y = q.y /\ p[i].x > q.x}
<1>1. Mapped(p, MirrorY) = r
  BY DEF Mapped
<1>2. /\ Len(p) \in Nat /\ DOMAIN p = 1 .. Len(p)
      /\ \A i \in 1 .. Len(p) : p[i] \in Vertex
  OBVIOUS
<1>3. r \in [1 .. Len(p) -> Vertex]
  BY <1>2, MirrorsTyped
<1>4. /\ r \in Seq(Vertex) /\ Len(r) = Len(p)
      /\ \A i \in 1 .. Len(p) : r[i] = MirrorY(p[i])
      /\ \A i \in 1 .. Len(p) : i \in G <=> p[i].y = q.y /\ p[i].x > q.x
  BY <1>2, <1>3
<1> HIDE DEF r, G
<1>5. CASE Len(p) < 3
  BY <1>1, <1>4, <1>5 DEF IsInsideRoi
<1>6. CASE Len(p) >= 3
  <2>0. Len(p) \in Nat \ {0}
    BY <1>2, <1>6
  <2>1. PICK n \in Nat \ {0} : Len(p) = n
    BY <2>0, Zenon
  <2>2. /\ \A i \in 1 .. n : /\ p[i] \in Vertex /\ Place(n, i) \in 1 .. n
                             /\ Follower(p, i) = p[Place(n, i)]
        /\ \A i \in 1 .. n : Follower(r, i) = r[Place(n, i)]
    BY <1>4, <2>1, EdgePlaces
  <2>3. \A i \in 1 .. n : i \in G <=> p[i].y = q.y /\ p[i].x > q.x
    BY <1>4, <2>1
  <2>4. ASSUME NEW i \in 1 .. n
        PROVE  /\ PointOnSegment(q, p[i], Follower(p, i)) <=>
                    PointOnSegment(MirrorY(q), r[i], Follower(r, i))
               /\ ~PointOnSegment(q, p[i], Follower(p, i)) =>
                    (~(Crosses(q, p[i], Follower(p, i)) <=>
                         Crosses(MirrorY(q), r[i], Follower(r, i))) <=>
                       ~(i \in G <=> Place(n, i) \in G))
    <3>1. /\ p[i] \in Vertex /\ Follower(p, i) \in Vertex
          /\ Follower(p, i) = p[Place(n, i)] /\ Place(n, i) \in 1 .. n
          /\ r[i] = MirrorY(p[i]) /\ Follower(r, i) = MirrorY(Follower(p, i))
      BY <1>4, <2>1, <2>2
    <3> QED
      BY <2>3, <3>1, EdgesMirrored
  <2>5. IsInsideRoi(p, q) <=> IsInsideRoi(r, MirrorY(q))
    BY <1>4, <2>1, <2>4, RaysAgree
  <2> QED
    BY <1>1, <2>5
<1>7. Len(p) < 3 \/ Len(p) >= 3
  BY <1>2
<1> QED
  BY <1>5, <1>6, <1>7

(* The ray may be a vertical one. *)
LEMMA TransposedKeeps ==
  ASSUME Width \in Int, Height \in Int, NEW p \in Seq(Vertex), NEW q \in Vertex
  PROVE  IsInsideRoi(p, q) <=> IsInsideRoi(Mapped(p, Transposed), Transposed(q))
<1> DEFINE r == [i \in DOMAIN p |-> Transposed(p[i])]
           G == {i \in 1 .. Len(p) : p[i].x > q.x /\ p[i].y > q.y}
<1>1. Mapped(p, Transposed) = r
  BY DEF Mapped
<1>2. /\ Len(p) \in Nat /\ DOMAIN p = 1 .. Len(p)
      /\ \A i \in 1 .. Len(p) : p[i] \in Vertex
  OBVIOUS
<1>3. r \in [1 .. Len(p) -> Vertex]
  BY <1>2, MirrorsTyped
<1>4. /\ r \in Seq(Vertex) /\ Len(r) = Len(p)
      /\ \A i \in 1 .. Len(p) : r[i] = Transposed(p[i])
      /\ \A i \in 1 .. Len(p) : i \in G <=> p[i].x > q.x /\ p[i].y > q.y
  BY <1>2, <1>3
<1> HIDE DEF r, G
<1>5. CASE Len(p) < 3
  BY <1>1, <1>4, <1>5 DEF IsInsideRoi
<1>6. CASE Len(p) >= 3
  <2>0. Len(p) \in Nat \ {0}
    BY <1>2, <1>6
  <2>1. PICK n \in Nat \ {0} : Len(p) = n
    BY <2>0, Zenon
  <2>2. /\ \A i \in 1 .. n : /\ p[i] \in Vertex /\ Place(n, i) \in 1 .. n
                             /\ Follower(p, i) = p[Place(n, i)]
        /\ \A i \in 1 .. n : Follower(r, i) = r[Place(n, i)]
    BY <1>4, <2>1, EdgePlaces
  <2>3. \A i \in 1 .. n : i \in G <=> p[i].x > q.x /\ p[i].y > q.y
    BY <1>4, <2>1
  <2>4. ASSUME NEW i \in 1 .. n
        PROVE  /\ PointOnSegment(q, p[i], Follower(p, i)) <=>
                    PointOnSegment(Transposed(q), r[i], Follower(r, i))
               /\ ~PointOnSegment(q, p[i], Follower(p, i)) =>
                    (~(Crosses(q, p[i], Follower(p, i)) <=>
                         Crosses(Transposed(q), r[i], Follower(r, i))) <=>
                       ~(i \in G <=> Place(n, i) \in G))
    <3>1. /\ p[i] \in Vertex /\ Follower(p, i) \in Vertex
          /\ Follower(p, i) = p[Place(n, i)] /\ Place(n, i) \in 1 .. n
          /\ r[i] = Transposed(p[i]) /\ Follower(r, i) = Transposed(Follower(p, i))
      BY <1>4, <2>1, <2>2
    <3> QED
      BY <2>3, <3>1, EdgesMirrored
  <2>5. IsInsideRoi(p, q) <=> IsInsideRoi(r, Transposed(q))
    BY <1>4, <2>1, <2>4, RaysAgree
  <2> QED
    BY <1>1, <2>5
<1>7. Len(p) < 3 \/ Len(p) >= 3
  BY <1>2
<1> QED
  BY <1>5, <1>6, <1>7
--------------------------------------------------------------------------------
(* A triangle seen from the centre. *)

Tested(u1, v1, u2, v2, u3, v3) ==
  \/ Hit(u1, v1, u2, v2) \/ Hit(u2, v2, u3, v3) \/ Hit(u3, v3, u1, v1)
  \/ CutsRay(u1, v1, u2, v2) <=> (CutsRay(u2, v2, u3, v3) <=> CutsRay(u3, v3, u1, v1))

Around(u1, v1, u2, v2, u3, v3) ==
  /\ \/ v1 * u2 - u1 * v2 >= 0 /\ v2 * u3 - u2 * v3 >= 0 /\ v3 * u1 - u3 * v1 >= 0
     \/ v1 * u2 - u1 * v2 <= 0 /\ v2 * u3 - u2 * v3 <= 0 /\ v3 * u1 - u3 * v1 <= 0
  /\ u1 <= 0 \/ u2 <= 0 \/ u3 <= 0
  /\ u1 >= 0 \/ u2 >= 0 \/ u3 >= 0
  /\ v1 <= 0 \/ v2 <= 0 \/ v3 <= 0
  /\ v1 >= 0 \/ v2 >= 0 \/ v3 >= 0

Exact(u1, v1, u2, v2, u3, v3) ==
  Tested(u1, v1, u2, v2, u3, v3) <=> Around(u1, v1, u2, v2, u3, v3)

(* It does not matter which corner comes first. *)
LEMMA ExactTurns ==
  ASSUME NEW u1, NEW v1, NEW u2, NEW v2, NEW u3, NEW v3, Exact(u2, v2, u3, v3, u1, v1)
  PROVE  Exact(u1, v1, u2, v2, u3, v3)
<1>1. Tested(u2, v2, u3, v3, u1, v1) <=> Tested(u1, v1, u2, v2, u3, v3)
  BY DEF Tested
<1>2. Around(u2, v2, u3, v3, u1, v1) <=> Around(u1, v1, u2, v2, u3, v3)
  BY DEF Around
<1> QED
  BY <1>1, <1>2 DEF Exact

(* The corners, weighted with the areas opposite to them, balance at the centre. *)
LEMMA Balance ==
  ASSUME NEW u1 \in Int, NEW v1 \in Int, NEW u2 \in Int, NEW v2 \in Int,
         NEW u3 \in Int, NEW v3 \in Int
  PROVE  /\ (v2 * u3 - u2 * v3) * v1 + (v3 * u1 - u3 * v1) * v2 + (v1 * u2 - u1 * v2) * v3 = 0
         /\ (v2 * u3 - u2 * v3) * u1 + (v3 * u1 - u3 * v1) * u2 + (v1 * u2 - u1 * v2) * u3 = 0
OBVIOUS

(* A centre on an edge is in the triangle. *)
LEMMA HitIsAround ==
  ASSUME NEW u1 \in Int, NEW v1 \in Int, NEW u2 \in Int, NEW v2 \in Int,
         NEW u3 \in Int, NEW v3 \in Int, Hit(u1, v1, u2, v2)
  PROVE  Around(u1, v1, u2, v2, u3, v3)
<1> DEFINE a == v2 * u3 - u2 * v3
           b == v3 * u1 - u3 * v1
<1>1. v1 * u2 - u1 * v2 = 0 /\ a \in Int /\ b \in Int
  BY Signs DEF Hit
<1>2. a * v1 + b * v2 = 0 /\ a * u1 + b * u2 = 0
  <2>1. /\ a * v1 + b * v2 + (v1 * u2 - u1 * v2) * v3 = 0
        /\ a * u1 + b * u2 + (v1 * u2 - u1 * v2) * u3 = 0
    BY Balance
  <2> HIDE DEF a, b
  <2> QED
    BY <1>1, <2>1, Signs
<1>3. u1 = 0 /\ v1 = 0 /\ u2 = 0 /\ v2 = 0 => a = 0 /\ b = 0
  BY Signs
<1> HIDE DEF a, b
<1>4. ~(u1 > 0 /\ u2 > 0) /\ ~(u1 < 0 /\ u2 < 0) /\ ~(v1 > 0 /\ v2 > 0) /\ ~(v1 < 0 /\ v2 < 0)
  BY DEF Hit
<1>5. ASSUME a > 0, b < 0
      PROVE  FALSE
  <2>1. v1 = 0 /\ v2 = 0
    BY <1>1, <1>2, <1>4, <1>5, Signs
  <2>2. u1 = 0 /\ u2 = 0
    BY <1>1, <1>2, <1>4, <1>5, Signs
  <2> QED
    BY <1>3, <1>5, <2>1, <2>2
<1>6. ASSUME a < 0, b > 0
      PROVE  FALSE
  <2>1. v1 = 0 /\ v2 = 0
    BY <1>1, <1>2, <1>4, <1>6, Signs
  <2>2. u1 = 0 /\ u2 = 0
    BY <1>1, <1>2, <1>4, <1>6, Signs
  <2> QED
    BY <1>3, <1>6, <2>1, <2>2
<1>7. (a >= 0 /\ b >= 0) \/ (a <= 0 /\ b <= 0)
  BY <1>1, <1>5, <1>6
<1> QED
  BY <1>1, <1>4, <1>7 DEF Around, a, b

LEMMA OnEdgeExact ==
  ASSUME NEW u1 \in Int, NEW v1 \in Int, NEW u2 \in Int, NEW v2 \in Int,
         NEW u3 \in Int, NEW v3 \in Int,
         Hit(u1, v1, u2, v2) \/ Hit(u2, v2, u3, v3) \/ Hit(u3, v3, u1, v1)
  PROVE  Exact(u1, v1, u2, v2, u3, v3)
<1>1. CASE Hit(u1, v1, u2, v2)
  <2>1. Around(u1, v1, u2, v2, u3, v3)
    BY <1>1, HitIsAround
  <2> QED
    BY <1>1, <2>1 DEF Exact, Tested
<1>2. CASE Hit(u2, v2, u3, v3)
  <2>1. Around(u2, v2, u3, v3, u1, v1)
    BY <1>2, HitIsAround
  <2>2. Around(u1, v1, u2, v2, u3, v3)
    BY <2>1 DEF Around
  <2> QED
    BY <1>2, <2>2 DEF Exact, Tested
<1>3. CASE Hit(u3, v3, u1, v1)
  <2>1. Around(u3, v3, u1, v1, u2, v2)
    BY <1>3, HitIsAround
  <2>2. Around(u1, v1, u2, v2, u3, v3)
    BY <2>1 DEF Around
  <2> QED
    BY <1>3, <2>2 DEF Exact, Tested
<1> QED
  BY <1>1, <1>2, <1>3

(* No corner is above the centre: if none of the edges is on it, it is outside. *)
LEMMA AllBelowExact ==
  ASSUME NEW u1 \in Int, NEW v1 \in Int, NEW u2 \in Int, NEW v2 \in Int,
         NEW u3 \in Int, NEW v3 \in Int,
         v1 <= 0, v2 <= 0, v3 <= 0,
         ~Hit(u1, v1, u2, v2), ~Hit(u2, v2, u3, v3), ~Hit(u3, v3, u1, v1)
  PROVE  Exact(u1, v1, u2, v2, u3, v3)
<1>1. ~Tested(u1, v1, u2, v2, u3, v3)
  BY DEF Tested, CutsRay
<1> DEFINE a == v1 * u2 - u1 * v2
           b == v2 * u3 - u2 * v3
           c == v3 * u1 - u3 * v1
<1>2. a \in Int /\ b \in Int /\ c \in Int
  BY Signs
<1>3. b * v1 + c * v2 + a * v3 = 0
  BY Balance
<1>4. /\ v1 = 0 /\ v2 = 0 => a = 0
      /\ v2 = 0 /\ v3 = 0 => b = 0
      /\ v3 = 0 /\ v1 = 0 => c = 0
  BY Signs
<1>5. /\ v1 = 0 => a = -(u1 * v2) /\ c = v3 * u1
      /\ v2 = 0 => b = -(u2 * v3) /\ a = v1 * u2
      /\ v3 = 0 => c = -(u3 * v1) /\ b = v2 * u3
  BY Signs
<1>6. /\ ~(a = 0 /\ ~(u1 > 0 /\ u2 > 0) /\ ~(u1 < 0 /\ u2 < 0) /\ ~(v1 < 0 /\ v2 < 0))
      /\ ~(b = 0 /\ ~(u2 > 0 /\ u3 > 0) /\ ~(u2 < 0 /\ u3 < 0) /\ ~(v2 < 0 /\ v3 < 0))
      /\ ~(c = 0 /\ ~(u3 > 0 /\ u1 > 0) /\ ~(u3 < 0 /\ u1 < 0) /\ ~(v3 < 0 /\ v1 < 0))
  BY DEF Hit
<1>7. Around(u1, v1, u2, v2, u3, v3) =>
        /\ (a >= 0 /\ b >= 0 /\ c >= 0) \/ (a <= 0 /\ b <= 0 /\ c <= 0)
        /\ u1 <= 0 \/ u2 <= 0 \/ u3 <= 0
        /\ u1 >= 0 \/ u2 >= 0 \/ u3 >= 0
        /\ v1 >= 0 \/ v2 >= 0 \/ v3 >= 0
  BY DEF Around
<1> HIDE DEF a, b, c
<1>8. ASSUME Around(u1, v1, u2, v2, u3, v3)
      PROVE  FALSE
  <2>1. b * v1 = 0 /\ c * v2 = 0 /\ a * v3 = 0
    BY <1>2, <1>3, <1>7, <1>8, Signs
  <2>2. (b = 0 \/ v1 = 0) /\ (c = 0 \/ v2 = 0) /\ (a = 0 \/ v3 = 0)
    BY <1>2, <2>1, Signs
  <2>3. CASE v1 = 0
    BY <1>2, <1>4, <1>5, <1>6, <1>7, <1>8, <2>2, <2>3, Signs
  <2>4. CASE v2 = 0
    BY <1>2, <1>4, <1>5, <1>6, <1>7, <1>8, <2>2, <2>4, Signs
  <2>5. CASE v3 = 0
    BY <1>2, <1>4, <1>5, <1>6, <1>7, <1>8, <2>2, <2>5, Signs
  <2> QED
    BY <1>7, <1>8, <2>3, <2>4, <2>5
<1> QED
  BY <1>1, <1>8 DEF Exact

LEMMA AllAboveExact ==
  ASSUME NEW u1 \in Int, NEW v1 \in Int, NEW u2 \in Int, NEW v2 \in Int,
         NEW u3 \in Int, NEW v3 \in Int,
         v1 > 0, v2 > 0, v3 > 0
  PROVE  Exact(u1, v1, u2, v2, u3, v3)
<1>1. ~Tested(u1, v1, u2, v2, u3, v3)
  BY DEF Tested, CutsRay, Hit
<1>2. ~Around(u1, v1, u2, v2, u3, v3)
  BY DEF Around
<1> QED
  BY <1>1, <1>2 DEF Exact

(* One corner above the centre: two edges may cross the ray. *)
LEMMA OneAboveExact ==
  ASSUME NEW u1 \in Int, NEW v1 \in Int, NEW u2 \in Int, NEW v2 \in Int,
         NEW u3 \in Int, NEW v3 \in Int,
         v1 > 0, v2 <= 0, v3 <= 0,
         ~Hit(u1, v1, u2, v2), ~Hit(u2, v2, u3, v3), ~Hit(u3, v3, u1, v1)
  PROVE  Exact(u1, v1, u2, v2, u3, v3)
<1> DEFINE a == v1 * u2 - u1 * v2
           b == v2 * u3 - u2 * v3
           c == v3 * u1 - u3 * v1
<1>2. a \in Int /\ b \in Int /\ c \in Int
  BY Signs
<1>3. b * v1 + c * v2 + a * v3 = 0 /\ b * u1 + c * u2 + a * u3 = 0
  BY Balance
<1>4. /\ ~CutsRay(u2, v2, u3, v3)
      /\ CutsRay(u1, v1, u2, v2) <=> a > 0
      /\ CutsRay(u3, v3, u1, v1) <=> c < 0
  BY <1>2 DEF CutsRay
<1>5. Tested(u1, v1, u2, v2, u3, v3) <=> ~(a > 0 <=> c < 0)
  <2> HIDE DEF a, b, c
  <2> QED
    BY <1>4 DEF Tested
<1>6. a # 0
  <2>1. a = 0 => (u1 > 0 /\ u2 > 0) \/ (u1 < 0 /\ u2 < 0)
    BY DEF Hit
  <2>2. v1 * u2 \in Int /\ u1 * v2 \in Int /\ a = v1 * u2 - u1 * v2
    BY Signs
  <2> HIDE DEF a
  <2> QED
    BY <2>1, <2>2, Signs
<1>7. c # 0
  <2>1. c = 0 => (u3 > 0 /\ u1 > 0) \/ (u3 < 0 /\ u1 < 0)
    BY DEF Hit
  <2>2. v3 * u1 \in Int /\ u3 * v1 \in Int /\ c = v3 * u1 - u3 * v1
    BY Signs
  <2> HIDE DEF c
  <2> QED
    BY <2>1, <2>2, Signs
<1>8. Around(u1, v1, u2, v2, u3, v3) <=>
        /\ (a >= 0 /\ b >= 0 /\ c >= 0) \/ (a <= 0 /\ b <= 0 /\ c <= 0)
        /\ u1 <= 0 \/ u2 <= 0 \/ u3 <= 0
        /\ u1 >= 0 \/ u2 >= 0 \/ u3 >= 0
  BY DEF Around
<1> HIDE DEF a, b, c
<1>9. CASE a > 0 /\ c > 0
  <2>1. b >= 0
    BY <1>2, <1>3, <1>9, Signs
  <2>2. u1 <= 0 \/ u2 <= 0 \/ u3 <= 0
    BY <1>2, <1>3, <1>9, <2>1, Signs
  <2>3. u1 >= 0 \/ u2 >= 0 \/ u3 >= 0
    BY <1>2, <1>3, <1>9, <2>1, Signs
  <2> QED
    BY <1>2, <1>5, <1>8, <1>9, <2>1, <2>2, <2>3 DEF Exact
<1>10. CASE a < 0 /\ c < 0
  <2>1. b <= 0
    BY <1>2, <1>3, <1>10, Signs
  <2>2. u1 <= 0 \/ u2 <= 0 \/ u3 <= 0
    BY <1>2, <1>3, <1>10, <2>1, Signs
  <2>3. u1 >= 0 \/ u2 >= 0 \/ u3 >= 0
    BY <1>2, <1>3, <1>10, <2>1, Signs
  <2> QED
    BY <1>2, <1>5, <1>8, <1>10, <2>1, <2>2, <2>3 DEF Exact
<1>11. CASE (a > 0 /\ c < 0) \/ (a < 0 /\ c > 0)
  BY <1>2, <1>5, <1>8, <1>11 DEF Exact
<1> QED
  BY <1>2, <1>6, <1>7, <1>9, <1>10, <1>11

(* Two corners above it. *)
LEMMA TwoAboveExact ==
  ASSUME NEW u1 \in Int, NEW v1 \in Int, NEW u2 \in Int, NEW v2 \in Int,
         NEW u3 \in Int, NEW v3 \in Int,
         v1 <= 0, v2 > 0, v3 > 0,
         ~Hit(u1, v1, u2, v2), ~Hit(u2, v2, u3, v3), ~Hit(u3, v3, u1, v1)
  PROVE  Exact(u1, v1, u2, v2, u3, v3)
<1> DEFINE a == v1 * u2 - u1 * v2
           b == v2 * u3 - u2 * v3
           c == v3 * u1 - u3 * v1
<1>2. a \in Int /\ b \in Int /\ c \in Int
  BY Signs
<1>3. b * v1 + c * v2 + a * v3 = 0 /\ b * u1 + c * u2 + a * u3 = 0
  BY Balance
<1>4. /\ ~CutsRay(u2, v2, u3, v3)
      /\ CutsRay(u1, v1, u2, v2) <=> a < 0
      /\ CutsRay(u3, v3, u1, v1) <=> c > 0
  BY <1>2 DEF CutsRay
<1>5. Tested(u1, v1, u2, v2, u3, v3) <=> ~(a < 0 <=> c > 0)
  <2> HIDE DEF a, b, c
  <2> QED
    BY <1>4 DEF Tested
<1>6. a # 0
  <2>1. a = 0 => (u1 > 0 /\ u2 > 0) \/ (u1 < 0 /\ u2 < 0)
    BY DEF Hit
  <2>2. v1 * u2 \in Int /\ u1 * v2 \in Int /\ a = v1 * u2 - u1 * v2
    BY Signs
  <2> HIDE DEF a
  <2> QED
    BY <2>1, <2>2, Signs
<1>7. c # 0
  <2>1. c = 0 => (u3 > 0 /\ u1 > 0) \/ (u3 < 0 /\ u1 < 0)
    BY DEF Hit
  <2>2. v3 * u1 \in Int /\ u3 * v1 \in Int /\ c = v3 * u1 - u3 * v1
    BY Signs
  <2> HIDE DEF c
  <2> QED
    BY <2>1, <2>2, Signs
<1>8. Around(u1, v1, u2, v2, u3, v3) <=>
        /\ (a >= 0 /\ b >= 0 /\ c >= 0) \/ (a <= 0 /\ b <= 0 /\ c <= 0)
        /\ u1 <= 0 \/ u2 <= 0 \/ u3 <= 0
        /\ u1 >= 0 \/ u2 >= 0 \/ u3 >= 0
  BY DEF Around
<1> HIDE DEF a, b, c
<1>9. CASE a > 0 /\ c > 0
  <2>1. b >= 0
    BY <1>2, <1>3, <1>9, Signs
  <2>2. u1 <= 0 \/ u2 <= 0 \/ u3 <= 0
    BY <1>2, <1>3, <1>9, <2>1, Signs
  <2>3. u1 >= 0 \/ u2 >= 0 \/ u3 >= 0
    BY <1>2, <1>3, <1>9, <2>1, Signs
  <2> QED
    BY <1>2, <1>5, <1>8, <1>9, <2>1, <2>2, <2>3 DEF Exact
<1>10. CASE a < 0 /\ c < 0
  <2>1. b <= 0
    BY <1>2, <1>3, <1>10, Signs
  <2>2. u1 <= 0 \/ u2 <= 0 \/ u3 <= 0
    BY <1>2, <1>3, <1>10, <2>1, Signs
  <2>3. u1 >= 0 \/ u2 >= 0 \/ u3 >= 0
    BY <1>2, <1>3, <1>10, <2>1, Signs
  <2> QED
    BY <1>2, <1>5, <1>8, <1>10, <2>1, <2>2, <2>3 DEF Exact
<1>11. CASE (a > 0 /\ c < 0) \/ (a < 0 /\ c > 0)
  BY <1>2, <1>5, <1>8, <1>11 DEF Exact
<1> QED
  BY <1>2, <1>6, <1>7, <1>9, <1>10, <1>11

(* In a triangle, an edge is met or an odd number of edges cross the ray exactly
   if the centre is on the inner side of all edges. *)
LEMMA TriangleSeen ==
  ASSUME NEW u1 \in Int, NEW v1 \in Int, NEW u2 \in Int, NEW v2 \in Int,
         NEW u3 \in Int, NEW v3 \in Int
  PROVE  Exact(u1, v1, u2, v2, u3, v3)
<1>1. CASE Hit(u1, v1, u2, v2) \/ Hit(u2, v2, u3, v3) \/ Hit(u3, v3, u1, v1)
  BY <1>1, OnEdgeExact
<1>2. CASE ~Hit(u1, v1, u2, v2) /\ ~Hit(u2, v2, u3, v3) /\ ~Hit(u3, v3, u1, v1)
  <2>1. CASE v1 <= 0 /\ v2 <= 0 /\ v3 <= 0
    BY <1>2, <2>1, AllBelowExact
  <2>2. CASE v1 > 0 /\ v2 > 0 /\ v3 > 0
    BY <2>2, AllAboveExact
  <2>3. CASE v1 > 0 /\ v2 <= 0 /\ v3 <= 0
    BY <1>2, <2>3, OneAboveExact
  <2>4. CASE v2 > 0 /\ v3 <= 0 /\ v1 <= 0
    <3>1. Exact(u2, v2, u3, v3, u1, v1)
      BY <1>2, <2>4, OneAboveExact
    <3> QED
      BY <3>1, ExactTurns
  <2>5. CASE v3 > 0 /\ v1 <= 0 /\ v2 <= 0
    <3>1. Exact(u3, v3, u1, v1, u2, v2)
      BY <1>2, <2>5, OneAboveExact
    <3>2. Exact(u2, v2, u3, v3, u1, v1)
      BY <3>1, ExactTurns
    <3> QED
      BY <3>2, ExactTurns
  <2>6. CASE v1 <= 0 /\ v2 > 0 /\ v3 > 0
    BY <1>2, <2>6, TwoAboveExact
  <2>7. CASE v2 <= 0 /\ v3 > 0 /\ v1 > 0
    <3>1. Exact(u2, v2, u3, v3, u1, v1)
      BY <1>2, <2>7, TwoAboveExact
    <3> QED
      BY <3>1, ExactTurns
  <2>8. CASE v3 <= 0 /\ v1 > 0 /\ v2 > 0
    <3>1. Exact(u3, v3, u1, v1, u2, v2)
      BY <1>2, <2>8, TwoAboveExact
    <3>2. Exact(u2, v2, u3, v3, u1, v1)
      BY <3>1, ExactTurns
    <3> QED
      BY <3>2, ExactTurns
  <2>9. \A v \in Int : v <= 0 \/ v > 0
    OBVIOUS
  <2> QED
    BY <2>1, <2>2, <2>3, <2>4, <2>5, <2>6, <2>7, <2>8, <2>9
<1> QED
  BY <1>1, <1>2

(* Of three edges, an odd number is in R. *)
LEMMA OddOfThree ==
  ASSUME NEW R \in SUBSET (1 .. 3)
  PROVE  Cardinality(R) % 2 = 1 <=> (1 \in R <=> (2 \in R <=> 3 \in R))
<1> DEFINE S == R \ {3}
           T == S \ {2}
           U == T \ {1}
<1>1. IsFiniteSet(R) /\ Cardinality(R) \in Nat
  <2>1. \A n \in Int : IsFiniteSet(1 .. n)
    BY FS_Interval
  <2>2. PICK n \in Int : n = 3
    OBVIOUS
  <2>3. IsFiniteSet(1 .. n) /\ R \in SUBSET (1 .. n)
    BY <2>1, <2>2
  <2>4. IsFiniteSet(R)
    BY <2>3, FS_Subset
  <2> QED
    BY <2>4, FS_CardinalityType
<1>2. (1 \in T <=> 1 \in R) /\ (2 \in S <=> 2 \in R)
  OBVIOUS
<1>3. U = {}
  <2>1. \A i \in 1 .. 3 : i = 1 \/ i = 2 \/ i = 3
    OBVIOUS
  <2> QED
    BY <2>1
<1>4. IsFiniteSet(S) /\ Cardinality(S) = IF 3 \in R THEN Cardinality(R) - 1 ELSE Cardinality(R)
  BY <1>1, FS_RemoveElement
<1> HIDE DEF S
<1>5. IsFiniteSet(T) /\ Cardinality(T) = IF 2 \in S THEN Cardinality(S) - 1 ELSE Cardinality(S)
  BY <1>4, FS_RemoveElement
<1> HIDE DEF T
<1>6. Cardinality(U) = IF 1 \in T THEN Cardinality(T) - 1 ELSE Cardinality(T)
  BY <1>5, FS_RemoveElement
<1>7. Cardinality(U) = 0
  BY <1>3, FS_EmptySet
<1> HIDE DEF U
<1>8. Cardinality(S) \in Nat /\ Cardinality(T) \in Nat
  BY <1>4, <1>5, FS_CardinalityType
<1> QED
  BY <1>1, <1>2, <1>4, <1>5, <1>6, <1>7, <1>8

(* The test of a triangle says what its three half-planes say. *)
LEMMA TriangleKeeps ==
  ASSUME NEW p \in Seq(Vertex), Len(p) = 3, NEW q \in Vertex
  PROVE  IsInsideRoi(p, q) <=> InTriangle(p, q)
<1>1. DOMAIN p = 1 .. 3 /\ p[1] \in Vertex /\ p[2] \in Vertex /\ p[3] \in Vertex
  <2>1. \A n \in Nat : Len(p) = n => DOMAIN p = 1 .. n /\ \A i \in 1 .. n : p[i] \in Vertex
    OBVIOUS
  <2>2. DOMAIN p = 1 .. 3
    BY <2>1
  <2> QED
    BY <2>1, <2>2
<1>2. Follower(p, 1) = p[2] /\ Follower(p, 2) = p[3] /\ Follower(p, 3) = p[1]
  BY <1>1, FollowerIs
<1> DEFINE u(i) == p[i].x - q.x
           v(i) == p[i].y - q.y
<1>3. /\ u(1) \in Int /\ v(1) \in Int /\ u(2) \in Int /\ v(2) \in Int
      /\ u(3) \in Int /\ v(3) \in Int
  <2>1. \A w \in Vertex : w.x - q.x \in Int /\ w.y - q.y \in Int
    BY DEF Vertex
  <2> QED
    BY <1>1, <2>1
<1>4. \A i \in 1 .. 3 : i = 1 \/ i = 2 \/ i = 3
  OBVIOUS
<1>5. /\ 1 \in Ray(p, q) <=> CutsRay(u(1), v(1), u(2), v(2))
      /\ 2 \in Ray(p, q) <=> CutsRay(u(2), v(2), u(3), v(3))
      /\ 3 \in Ray(p, q) <=> CutsRay(u(3), v(3), u(1), v(1))
      /\ Ray(p, q) \in SUBSET (1 .. 3)
  <2>1. /\ 1 \in Ray(p, q) <=> Crosses(q, p[1], p[2])
        /\ 2 \in Ray(p, q) <=> Crosses(q, p[2], p[3])
        /\ 3 \in Ray(p, q) <=> Crosses(q, p[3], p[1])
        /\ Ray(p, q) \in SUBSET (1 .. 3)
    BY <1>1, <1>2 DEF Ray
  <2> QED
    BY <1>1, <2>1, SeenFromCentre
<1>6. OnBoundary(p, q) <=> \/ Hit(u(1), v(1), u(2), v(2)) \/ Hit(u(2), v(2), u(3), v(3))
                           \/ Hit(u(3), v(3), u(1), v(1))
  <2>1. OnBoundary(p, q) <=> \/ PointOnSegment(q, p[1], p[2]) \/ PointOnSegment(q, p[2], p[3])
                             \/ PointOnSegment(q, p[3], p[1])
    BY <1>1, <1>2, <1>4 DEF OnBoundary
  <2> QED
    BY <1>1, <2>1, SeenFromCentre
<1>7. IsInsideRoi(p, q) <=> Tested(u(1), v(1), u(2), v(2), u(3), v(3))
  <2>1. Cardinality(Ray(p, q)) % 2 = 1 <=>
          (1 \in Ray(p, q) <=> (2 \in Ray(p, q) <=> 3 \in Ray(p, q)))
    BY <1>5, OddOfThree
  <2>2. IsInsideRoi(p, q) <=> OnBoundary(p, q) \/ Cardinality(Ray(p, q)) % 2 = 1
    BY DEF IsInsideRoi
  <2> HIDE DEF u, v
  <2> QED
    BY <1>5, <1>6, <2>1, <2>2 DEF Tested
<1>8. InTriangle(p, q) <=> Around(u(1), v(1), u(2), v(2), u(3), v(3))
  <2>1. /\ Cross(q, p[1], p[2]) = v(1) * u(2) - u(1) * v(2)
        /\ Cross(q, p[2], p[3]) = v(2) * u(3) - u(2) * v(3)
        /\ Cross(q, p[3], p[1]) = v(3) * u(1) - u(3) * v(1)
    BY <1>1, SeenFromCentre
  <2>2. /\ (\A i \in DOMAIN p : Cross(q, p[i], Follower(p, i)) >= 0) <=>
              /\ Cross(q, p[1], p[2]) >= 0 /\ Cross(q, p[2], p[3]) >= 0
              /\ Cross(q, p[3], p[1]) >= 0
        /\ (\A i \in DOMAIN p : Cross(q, p[i], Follower(p, i)) <= 0) <=>
              /\ Cross(q, p[1], p[2]) <= 0 /\ Cross(q, p[2], p[3]) <= 0
              /\ Cross(q, p[3], p[1]) <= 0
    BY <1>1, <1>2, <1>4
  <2>3. /\ \A i \in 1 .. 3 : p[i].x <= q.x <=> u(i) <= 0
        /\ \A i \in 1 .. 3 : q.x <= p[i].x <=> u(i) >= 0
        /\ \A i \in 1 .. 3 : p[i].y <= q.y <=> v(i) <= 0
        /\ \A i \in 1 .. 3 : q.y <= p[i].y <=> v(i) >= 0
    <3>1. q.x \in Int /\ q.y \in Int
      BY DEF Vertex
    <3>2. ASSUME NEW i \in 1 .. 3
          PROVE  /\ p[i].x <= q.x <=> u(i) <= 0
                 /\ q.x <= p[i].x <=> u(i) >= 0
                 /\ p[i].y <= q.y <=> v(i) <= 0
                 /\ q.y <= p[i].y <=> v(i) >= 0
      <4>1. p[i] \in Vertex
        BY <1>1, <1>4
      <4>2. p[i].x \in Int /\ p[i].y \in Int
        BY <4>1 DEF Vertex
      <4>3. \A m, k \in Int : (m <= k <=> m - k <= 0) /\ (k <= m <=> m - k >= 0)
        OBVIOUS
      <4> QED
        BY <3>1, <4>2, <4>3
    <3> HIDE DEF u, v
    <3> QED
      BY <3>2
  <2> HIDE DEF u, v
  <2>4. InBox(p, q) <=> /\ \E i, j \in 1 .. 3 : u(i) <= 0 /\ u(j) >= 0
                        /\ \E i, j \in 1 .. 3 : v(i) <= 0 /\ v(j) >= 0
    BY <1>1, <2>3 DEF InBox
  <2>5. InBox(p, q) <=> /\ u(1) <= 0 \/ u(2) <= 0 \/ u(3) <= 0
                        /\ u(1) >= 0 \/ u(2) >= 0 \/ u(3) >= 0
                        /\ v(1) <= 0 \/ v(2) <= 0 \/ v(3) <= 0
                        /\ v(1) >= 0 \/ v(2) >= 0 \/ v(3) >= 0
    BY <1>4, <2>4
  <2> QED
    BY <2>1, <2>2, <2>5 DEF InTriangle, Around
<1>9. Exact(u(1), v(1), u(2), v(2), u(3), v(3))
  <2> HIDE DEF u, v
  <2> QED
    BY <1>3, TriangleSeen
<1> HIDE DEF u, v
<1> QED
  BY <1>7, <1>8, <1>9 DEF Exact
--------------------------------------------------------------------------------
(* The states. *)
StateInv == polygon \in Polygons /\ centre \in Vertex

LEMMA StatesTyped == Spec => []StateInv
<1>1. Init => StateInv
  BY DEF Init, StateInv, Vertex
<1>2. StateInv /\ [Next]_vars => StateInv'
  BY RoiAssumption DEF StateInv, Next, Move, vars, Point, Vertex
<1> QED
  BY <1>1, <1>2, PTL DEF Spec

(* AnyOrder for every outline: whichever of its points the configuration names
   first and whichever way round it lists them, the region is the same. *)
THEOREM OrderIsFree == Spec => []AnyOrder
<1>1. ASSUME StateInv, polygon # <<>>
      PROVE  /\ IsInsideRoi(polygon, centre) <=> IsInsideRoi(Rotated(polygon), centre)
             /\ IsInsideRoi(polygon, centre) <=> IsInsideRoi(Reversed(polygon), centre)
  <2>1. polygon \in Seq(Vertex) /\ centre \in Vertex
    BY <1>1, RoiAssumption DEF StateInv
  <2>2. Len(polygon) \in Nat \ {0}
    BY <1>1, <2>1
  <2> QED
    BY <2>1, <2>2, RotationKeeps, ReversalKeeps
<1>2. StateInv => AnyOrder
  BY <1>1 DEF AnyOrder
<1> QED
  BY <1>2, StatesTyped, PTL

(* AnyRay for every outline: whether a centre is inside does not depend on the ray
   the code casts from it, however the outline crosses itself. *)
THEOREM RayIsFree == Spec => []AnyRay
<1>1. ASSUME StateInv
      PROVE  AnyRay
  <2>1. polygon \in Seq(Vertex) /\ centre \in Vertex /\ Width \in Int /\ Height \in Int
    BY <1>1, RoiAssumption DEF StateInv
  <2> QED
    BY <2>1, MirrorXKeeps, MirrorYKeeps, TransposedKeeps DEF AnyRay
<1> QED
  BY <1>1, StatesTyped, PTL

(* TriangleExact for every triangle: the test says exactly whether the centre is on
   the inner side of its edges or on one of them. *)
THEOREM TrianglesAreExact == Spec => []TriangleExact
<1>1. ASSUME StateInv
      PROVE  TriangleExact
  <2>1. polygon \in Seq(Vertex) /\ centre \in Vertex
    BY <1>1, RoiAssumption DEF StateInv
  <2> QED
    BY <2>1, TriangleKeeps DEF TriangleExact
<1> QED
  BY <1>1, StatesTyped, PTL
================================================================================
