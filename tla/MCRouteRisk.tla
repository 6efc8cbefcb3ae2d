---------------------------- MODULE MCRouteRisk -----------------------------
(* A small instance of RouteRisk: two routes between two points.               *)
EXTENDS RouteRisk

Vertex(p, m) == [at |-> p, metres |-> m]
MCRoutes ==
    <<[path |-> <<Vertex("a", 0), Vertex("b", 2), Vertex("a", 3), Vertex("b", 4)>>,
       metres |-> 4, seconds |-> 5],
      [path |-> <<Vertex("b", 0), Vertex("a", 1)>>, metres |-> 1, seconds |-> 6]>>

RainOf(down, current, ahead) == [down |-> down, now |-> current, ahead |-> ahead]
MCForecast ==
    {RainOf(TRUE, "unknown", <<>>), RainOf(FALSE, "unknown", <<"unknown">>),
     RainOf(FALSE, "none", <<"none">>), RainOf(FALSE, "moderate", <<"strong">>),
     RainOf(FALSE, "severe", <<"strong">>)}

MCAlerts ==
    {[status |-> "unavailable", severity |-> "none"]}
    \cup {[status |-> "ok", severity |-> s] : s \in {"none", "unknown", "warning"}}

ZonesOf(flood, tsunami, lowland) ==
    [flood |-> flood, tsunami |-> tsunami, lowland_poor_drainage |-> lowland]
MCZones ==
    {<<>>, ZonesOf("unknown", "outside", "inside"), ZonesOf("inside", "outside", "inside"),
     ZonesOf("inside", "inside", "inside")}

MCKikikurus ==
    {[status |-> "ok", inund |-> "danger", flood |-> "normal", land |-> "caution"],
     [status |-> "ok", inund |-> "normal", flood |-> "danger", land |-> "unknown"]}
=============================================================================
