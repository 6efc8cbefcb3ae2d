----------------------------- MODULE GmlGeometry -----------------------------
(***************************************************************************)
(* How the conversion scripts (scripts/normalize/) put the areas of a      *)
(* national GML file together.  A feature refers to a surface, a surface   *)
(* to the curves of its rings, an orientable curve to the curve it runs    *)
(* along or against.                                                       *)
(*                                                                         *)
(* normalize_river_flood.py reads the elements once, frees each curve and  *)
(* each surface when it is used, and counts what it cannot resolve.  The   *)
(* older scripts pass over a curve they do not find.                       *)
(*                                                                         *)
(* A point is a number, a path a sequence of points.  An element is        *)
(*   [kind |-> "curve", id, segments]                                      *)
(*   [kind |-> "orientable", id, base, reversed]                           *)
(*   [kind |-> "surface", id, patches], each [exterior, interior], the     *)
(*        rings of a patch as sequences of curve ids                       *)
(*   [kind |-> "feature", bounds, grade].                                  *)
(* What is read of a feature is [polygons, grade].                         *)
(***************************************************************************)
EXTENDS Integers, Sequences, FiniteSets, SequencesExt

LoneCurves(elements) == SelectSeq(elements, LAMBDA e : e.kind = "curve")
Orientables(elements) == SelectSeq(elements, LAMBDA e : e.kind = "orientable")
Surfaces(elements) == SelectSeq(elements, LAMBDA e : e.kind = "surface")
AreaFeatures(elements) == SelectSeq(elements, LAMBDA e : e.kind = "feature")

\* Paths that meet share the point once.
Joined(path, next) ==
    IF path # <<>> /\ next # <<>> /\ Last(path) = Head(next) THEN path \o Tail(next)
    ELSE path \o next
Chained(paths) == FoldLeft(Joined, <<>>, paths)
ClosedPath(path) ==
    IF path = <<>> \/ Head(path) = Last(path) THEN path ELSE Append(path, Head(path))

FirstOnly(s) == IF s = <<>> THEN <<>> ELSE <<Head(s)>>
Without(f, ids) == Restrict(f, DOMAIN f \ ids)
AreaRead(drawn, feature) == [polygons |-> drawn, grade |-> feature.grade]

-----------------------------------------------------------------------------
(* normalize_river_flood.py                                                *)

NothingRead == [curves |-> <<>>, surfaces |-> <<>>, features |-> <<>>, unresolved |-> 0]

\* Mutant: a curve that is not there is passed over, as the older scripts do.
BuildRingOfTheRest(s, ring) ==
    LET there == SelectSeq(ring, LAMBDA id : id \in DOMAIN s.curves)
        path == ClosedPath(Chained([i \in DOMAIN there |-> s.curves[there[i]]]))
    IN  IF ~s.ok THEN s
        ELSE [s EXCEPT !.rings = Append(@, path), !.ok = Len(path) >= 4]

\* _build_ring(): curves are taken until one is missing, and are gone then.
BuildRing(s, ring) ==
    LET Found(n) == \A i \in 1 .. n : /\ ring[i] \in DOMAIN s.curves
                                      /\ \A j \in 1 .. i - 1 : ring[j] # ring[i]
        taken == SubSeq(ring, 1, Max({n \in 0 .. Len(ring) : Found(n)}))
        path == ClosedPath(Chained([i \in DOMAIN taken |-> s.curves[taken[i]]]))
    IN  IF ~s.ok THEN s
        ELSE [s EXCEPT !.curves = Without(@, Range(taken)),
                       !.rings = Append(@, path),
                       !.ok = taken = ring /\ Len(path) >= 4]

\* _build_surface(): one exterior ring for each patch; holes stay rings of their own.
BuildPatch(s, patch) ==
    LET built == FoldLeft(BuildRing, [s EXCEPT !.rings = <<>>], patch.exterior \o patch.interior)
    IN  CASE ~s.ok -> s
          [] Len(patch.exterior) # 1 -> [s EXCEPT !.ok = FALSE]
          [] OTHER -> [built EXCEPT !.polygons = Append(@, built.rings)]
BuildSurface(curves, surface) ==
    LET start == [curves |-> curves, rings |-> <<>>, polygons |-> <<>>, ok |-> surface.patches # <<>>]
    IN  FoldLeft(BuildPatch, start, surface.patches)

\* The loop of _parse_a31_xml_stream()
A31Element(m, e) ==
    CASE e.kind = "curve" ->
            IF Chained(e.segments) = <<>> THEN m
            ELSE [m EXCEPT !.curves = (e.id :> Chained(e.segments)) @@ @]
      [] e.kind = "orientable" ->
            IF e.base \notin DOMAIN m.curves THEN m
            ELSE LET base == m.curves[e.base]
                     path == IF e.reversed THEN Reverse(base) ELSE base
                 IN  [m EXCEPT !.curves = (e.id :> path) @@ Without(@, {e.base})]
      [] e.kind = "surface" ->
            LET built == BuildSurface(m.curves, e) IN
            [m EXCEPT !.curves = built.curves,
                      !.surfaces = IF built.ok THEN (e.id :> built.polygons) @@ @ ELSE @]
      [] e.kind = "feature" ->
            IF e.bounds \notin DOMAIN m.surfaces THEN [m EXCEPT !.unresolved = @ + 1]
            ELSE [m EXCEPT !.features = Append(@, AreaRead(m.surfaces[e.bounds], e)),
                           !.surfaces = Without(@, {e.bounds})]

ParseA31(elements) == FoldLeft(A31Element, NothingRead, elements)

-----------------------------------------------------------------------------
(* The older scripts                                                       *)

\* What is found of a ring
LooseChain(curves, ring) ==
    Chained([i \in DOMAIN ring |-> IF ring[i] \in DOMAIN curves THEN curves[ring[i]] ELSE <<>>])
\* All curve members of a surface, those of its holes as well
MembersOf(surface) ==
    FlattenSeq([i \in DOMAIN surface.patches |->
        FlattenSeq(surface.patches[i].exterior \o surface.patches[i].interior)])
OneRing(path) == << <<ClosedPath(path)>> >>

IdsOf(elements) == {elements[i].id : i \in DOMAIN elements}
Element(elements, id) == elements[CHOOSE i \in DOMAIN elements : elements[i].id = id]

\* normalize_flood.py reads the file twice.  The last list of points of a curve counts;
\* orientable curves are unknown to it.
LegacyCurves(elements) ==
    [id \in IdsOf(LoneCurves(elements)) |-> Last(Element(LoneCurves(elements), id).segments)]
ParseLegacyFlood(elements) ==
    LET surfaces == Surfaces(elements)
        ring(f) == LooseChain(LegacyCurves(elements), MembersOf(Element(surfaces, f.bounds)))
        read == SelectSeq(AreaFeatures(elements),
                    LAMBDA f : f.bounds \in IdsOf(surfaces) /\ Len(ring(f)) >= 3)
    IN  [i \in DOMAIN read |-> AreaRead(OneRing(ring(read[i])), read[i])]

\* normalize_tsunami.py: _collect_curves(), _collect_surfaces(), _load_gml_bytes()
TsunamiCurves(elements) ==
    LET lone == [id \in IdsOf(LoneCurves(elements)) |-> Head(Element(LoneCurves(elements), id).segments)]
        WithOrientable(curves, e) ==
            IF e.base \notin DOMAIN curves THEN curves
            ELSE (e.id :> IF e.reversed THEN Reverse(curves[e.base]) ELSE curves[e.base]) @@ curves
    IN  FoldLeft(WithOrientable, lone, Orientables(elements))
ParseTsunami(elements) ==
    LET surfaces == Surfaces(elements)
        ring(f) == LooseChain(TsunamiCurves(elements), MembersOf(Element(surfaces, f.bounds)))
        read == SelectSeq(AreaFeatures(elements),
                    LAMBDA f : f.bounds \in IdsOf(surfaces) /\ ring(f) # <<>> /\ f.grade # <<>>)
    IN  [i \in DOMAIN read |-> AreaRead(OneRing(ring(read[i])), read[i])]

\* normalize_landslide.py reads the elements once.  The first exterior ring counts, with
\* every hole that has points; a surface is used once, its curves are kept.
ParseLandslide(elements) ==
    LET Polygon(curves, surface) ==
            LET patches == surface.patches
                exteriors == FlattenSeq([i \in DOMAIN patches |-> patches[i].exterior])
                rings == FirstOnly(exteriors)
                            \o FlattenSeq([i \in DOMAIN patches |-> patches[i].interior])
                paths == [i \in DOMAIN rings |-> LooseChain(curves, rings[i])]
                drawn == SelectSeq(paths, LAMBDA path : Len(path) >= 3)
            IN  IF exteriors = <<>> \/ Len(paths[1]) < 3 THEN <<>>
                ELSE [i \in DOMAIN drawn |-> ClosedPath(drawn[i])]
        Step(m, e) ==
            CASE e.kind = "curve" -> [m EXCEPT !.curves = (e.id :> Head(e.segments)) @@ @]
              [] e.kind = "surface" ->
                    IF Polygon(m.curves, e) = <<>> THEN m
                    ELSE [m EXCEPT !.surfaces = (e.id :> <<Polygon(m.curves, e)>>) @@ @]
              [] e.kind = "feature" /\ e.bounds \in DOMAIN m.surfaces ->
                    [m EXCEPT !.features = Append(@, AreaRead(m.surfaces[e.bounds], e)),
                              !.surfaces = Without(@, {e.bounds})]
              [] OTHER -> m
    IN  FoldLeft(Step, NothingRead, elements).features

-----------------------------------------------------------------------------
(* What a file says: the boundary of a feature, as a set of edges          *)

EdgesAlong(path) ==
    {<<path[i], path[i + 1]>> : i \in 1 .. Len(path) - 1} \ {<<p, p>> : p \in Range(path)}

PointsOf(elements, id) ==
    LET points(curve) == FlattenSeq(Element(LoneCurves(elements), curve).segments) IN
    IF id \in IdsOf(LoneCurves(elements)) THEN points(id)
    ELSE LET e == Element(Orientables(elements), id) IN
         IF e.reversed THEN Reverse(points(e.base)) ELSE points(e.base)
RingEdges(elements, ring) ==
    LET path == FlattenSeq([i \in DOMAIN ring |-> PointsOf(elements, ring[i])]) IN
    EdgesAlong(Append(path, Head(path)))

SurfaceRings(surface) ==
    UNION {Range(surface.patches[i].exterior \o surface.patches[i].interior) : i \in DOMAIN surface.patches}
Boundary(elements, feature) ==
    UNION {RingEdges(elements, r) : r \in SurfaceRings(Element(Surfaces(elements), feature.bounds))}
PolygonEdges(drawn) ==
    UNION {UNION {EdgesAlong(drawn[i][j]) : j \in DOMAIN drawn[i]} : i \in DOMAIN drawn}

\* Every reference of the feature leads somewhere.
Resolved(elements, feature) ==
    /\ feature.bounds \in IdsOf(Surfaces(elements))
    /\ \A r \in SurfaceRings(Element(Surfaces(elements), feature.bounds)) :
          r # <<>> /\ \A id \in Range(r) :
            \/ id \in IdsOf(LoneCurves(elements))
            \/ /\ id \in IdsOf(Orientables(elements))
               /\ Element(Orientables(elements), id).base \in IdsOf(LoneCurves(elements))
===============================================================================
