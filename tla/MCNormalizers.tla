---------------------------- MODULE MCNormalizers ----------------------------
(***************************************************************************)
(* Source files with the areas that are hard to draw: rings of several     *)
(* curves, holes, reversed and shared curves, two patches, references that *)
(* lead nowhere.                                                           *)
(***************************************************************************)
EXTENDS Normalizers

Curve(id, path) == [kind |-> "curve", id |-> id, segments |-> <<path>>]
Pieces(id, first, second) == [kind |-> "curve", id |-> id, segments |-> <<first, second>>]
Against(id, base) == [kind |-> "orientable", id |-> id, base |-> base, reversed |-> TRUE]
Along(id, base) == [kind |-> "orientable", id |-> id, base |-> base, reversed |-> FALSE]
Patch(exterior, interior) == [exterior |-> exterior, interior |-> interior]
Surface(id, patches) == [kind |-> "surface", id |-> id, patches |-> patches]
AreaOn(bounds, grade) == [kind |-> "feature", bounds |-> bounds, grade |-> grade]

West == <<1, 2, 3>>
East == <<3, 4, 1>>
TwoCurves == <<Curve("w", West), Curve("e", East)>>
SquareOn(id) == Surface(id, <<Patch(<< <<"w", "e">> >>, <<>>)>>)
Hole == Curve("h", <<5, 6, 7, 5>>)
Farther == Curve("f", <<11, 12, 13, 11>>)

\* The geometry of a file, and the surfaces its features refer to
GmlShape(elements, bounds) == [elements |-> elements, bounds |-> bounds]
PlainSquare == GmlShape(TwoCurves \o <<SquareOn("s")>>, <<"s">>)
HoledSquare == GmlShape(TwoCurves \o <<Hole, Surface("s", <<Patch(<< <<"w", "e">> >>, << <<"h">> >>)>>)>>, <<"s">>)
Reversed ==
    GmlShape(<<Curve("w", West), Curve("b", <<1, 4, 3>>), Against("e", "b"), SquareOn("s")>>, <<"s">>)
Forward == GmlShape(<<Curve("w", West), Curve("b", East), Along("e", "b"), SquareOn("s")>>, <<"s">>)
InPieces ==
    GmlShape(<<Pieces("w", <<1, 2>>, <<2, 3>>), Curve("e", East), SquareOn("s")>>, <<"s">>)
TwoPatches ==
    GmlShape(TwoCurves \o <<Farther, Surface("s", <<Patch(<< <<"w", "e">> >>, <<>>), Patch(<< <<"f">> >>, <<>>)>>)>>,
          <<"s">>)
TwoAreas ==
    GmlShape(TwoCurves \o <<Farther, SquareOn("s"), Surface("t", <<Patch(<< <<"f">> >>, <<>>)>>)>>, <<"s", "t">>)
SharedCurve == GmlShape(TwoCurves \o <<SquareOn("s"), SquareOn("t")>>, <<"s", "t">>)
SharedSurface == GmlShape(TwoCurves \o <<SquareOn("s")>>, <<"s", "s">>)
NoEast == GmlShape(<<Curve("w", West), Farther, SquareOn("s"), Surface("t", <<Patch(<< <<"f">> >>, <<>>)>>)>>,
                <<"s", "t">>)
NoSurface == GmlShape(TwoCurves \o <<SquareOn("s")>>, <<"s", "u">>)
TwoExteriors == GmlShape(TwoCurves \o <<Farther, Surface("s", <<Patch(<< <<"w", "e">>, <<"f">> >>, <<>>)>>)>>, <<"s">>)
FlatLine == GmlShape(<<Curve("l", <<1, 2>>), Surface("s", <<Patch(<< <<"l">> >>, <<>>)>>)>>, <<"s">>)
GmlShapes == {PlainSquare, HoledSquare, Reversed, Forward, InPieces, TwoPatches, TwoAreas, SharedCurve,
           SharedSurface, NoEast, NoSurface, TwoExteriors, FlatLine}

GmlFile(shape, grade) ==
    [form |-> "gml",
     elements |-> shape.elements \o [i \in DOMAIN shape.bounds |-> AreaOn(shape.bounds[i], grade)]]
JsonFile(grades) ==
    [form |-> "json",
     features |-> [i \in DOMAIN grades |-> [polygons |-> << <<<<i, i + 1, i + 2, i>>>> >>, grade |-> grades[i]]]]
NoAreas == [form |-> "json", features |-> <<[polygons |-> <<>>, grade |-> <<>>]>>]
MixedFile(grade) == [form |-> "json", features |-> JsonFile(<<grade, grade>>).features \o NoAreas.features]
Archive(files) == [form |-> "zip", files |-> files]
Unopened(form) == [form |-> "broken", as |-> form]

RiverOf(rank, code, text) == [flood_rank |-> rank, water_depth |-> code, text |-> text]
CodeOf(code) == RiverOf(Open, code, Open)
DepthOf(from, to) == [from |-> from, to |-> to]
RiverGrades == {CodeOf(c) : c \in 1 .. 6} \cup {RiverOf(2, 4, 5), RiverOf(Open, Open, 5), CodeOf(Open)}
TableGrades == Range(DepthTable) \cup {<<>>, DepthOf(2000, Open)}
TsunamiGrades == TableGrades \cup {DepthOf(50, 100), DepthOf(30, 100)}

Lone(files) == {<<f>> : f \in files}
Archives(gmls, grade) ==
    Lone({Archive(<<g>>) : g \in gmls}
         \cup {Archive(<<JsonFile(<<grade>>), GmlFile(PlainSquare, grade)>>), Archive(<<Unopened("gml"), GmlFile(TwoAreas, grade)>>),
               Archive(<<>>), Unopened("zip"), Archive(<<Unopened("json")>>), Archive(<<Unopened("gml")>>),
               Archive(<<MixedFile(grade), JsonFile(<<grade>>)>>), Archive(<<NoAreas>>)})

MCRawSources ==
    [river_flood |->
        Archives({GmlFile(s, CodeOf(3)) : s \in GmlShapes} \cup {GmlFile(PlainSquare, g) : g \in RiverGrades}, CodeOf(3))
        \cup {<<Archive(<<GmlFile(TwoAreas, CodeOf(2)), Archive(<<GmlFile(PlainSquare, CodeOf(6))>>), Unopened("zip")>>)>>,
              <<Archive(<<GmlFile(HoledSquare, CodeOf(1))>>), JsonFile(<<CodeOf(4)>>)>>, <<MixedFile(CodeOf(1)), Unopened("json")>>,
              <<GmlFile(PlainSquare, CodeOf(3))>>},
     flood |->
        Lone({GmlFile(s, CodeOf(3)) : s \in GmlShapes} \cup {GmlFile(PlainSquare, g) : g \in {CodeOf(6), CodeOf(Open)}}
             \cup {Unopened("gml")}),
     tsunami |->
        Archives({GmlFile(s, DepthOf(50, 100)) : s \in GmlShapes} \cup {GmlFile(PlainSquare, g) : g \in TsunamiGrades},
                 DepthOf(50, 100))
        \cup Lone({JsonFile(<<g>>) : g \in TsunamiGrades} \cup {MixedFile(DepthOf(30, 50)), GmlFile(PlainSquare, DepthOf(30, 50))}),
     landslide |->
        Archives({GmlFile(s, z) : s \in GmlShapes, z \in {1, 2, 9}}, 2),
     storm_surge |-> Archives({JsonFile(<<g>>) : g \in TableGrades}, DepthOf(30, 50)) \cup {<<JsonFile(<<<<>>>>)>>},
     inland_flood |-> Archives({JsonFile(<<g>>) : g \in TableGrades}, DepthOf(30, 50)) \cup {<<Unopened("json")>>}]

\* No dataset is ingested.
NormalizerIdle ==
    /\ normalizer = [script |-> "", source |-> <<>>] /\ toRead = <<>> /\ gathered = <<>>
    /\ converted = [state |-> "old", features |-> <<>>] /\ outcome = "idle"

NormalizerSpec == NormalizerInit /\ [][NormalizerNext]_normalizerVars
================================================================================
