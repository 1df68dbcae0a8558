SPECIFICATION Spec
CONSTANTS
  Width = 4
  Height = 4
  Polygons <- SmallPolygons
INVARIANTS TriangleExact AnyRay AnyOrder
