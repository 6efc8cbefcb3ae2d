--------------------------- MODULE WeatherAlerts ----------------------------
(***************************************************************************)
(* The warnings and the rain at a point, from what the JMA published       *)
(* (jma_weather_adapter.py, weather_alert_service.py,                      *)
(* jma_warning_service.py).                                                *)
(*                                                                         *)
(* The JMA publishes reports one after the other; a report tells the       *)
(* status of some kinds of warning in some areas, and the file that is     *)
(* fetched holds reports in any order.  Names of warnings are reduced to   *)
(* the grade they contain.                                                 *)
(***************************************************************************)
EXTENDS Naturals, Sequences, FiniteSets, SequencesExt

CONSTANTS
    AlertAreas,     \* area codes
    AlertCodes,     \* codes of warnings
    CodeSeverity,   \* [code -> severity], of the codes that the table knows
    NameGrade,      \* [code -> the grade that its published name contains]
    CityArea,       \* [city -> its class 20 area], of the cities that have one
    CityLabels,     \* [city -> the class 10 areas its name matches]
    AreaLabel,      \* [area -> its name]
    MaxReports      \* bound on the reports in a file

ASSUME AlertAssumption ==
    /\ DOMAIN CodeSeverity \subseteq AlertCodes
    /\ NameGrade \in [AlertCodes -> {"emergency", "warning", "advisory", "unknown"}]
    /\ DOMAIN AreaLabel = AlertAreas
    /\ MaxReports \in Nat

VARIABLES
    publisher,      \* "r8", "legacy" (the new file is not there), "down"
    reports,        \* the entries of the file: [at, area, code, lifted]
    issued          \* the time of the newest report

alertVars == <<publisher, reports, issued>>

AlertInit == publisher = "r8" /\ reports = <<>> /\ issued = 0

-----------------------------------------------------------------------------
(* One warning *)

\* The code decides; an unknown code leaves it to the name.
Severity(code) ==
    IF code \in DOMAIN CodeSeverity THEN CodeSeverity[code] ELSE NameGrade[code]

\* The grade shown: that of the name, else the severity.
AlertLevel(code) == IF NameGrade[code] # "unknown" THEN NameGrade[code] ELSE Severity(code)

AlertItem(e) ==
    [area |-> e.area, code |-> e.code, severity |-> Severity(e.code), level |-> AlertLevel(e.code)]

-----------------------------------------------------------------------------
(* The file.  _parse_r8_payload() keeps one entry of each area and code.   *)

Pair(e) == <<e.area, e.code>>

\* NewerOnly keeps the first of two entries of the same time.
NewerOnly(kept, e) ==
    IF Pair(e) \in DOMAIN kept /\ kept[Pair(e)].at >= e.at THEN kept
    ELSE [p \in DOMAIN kept \cup {Pair(e)} |-> IF p = Pair(e) THEN e ELSE kept[p]]

\* Of two entries of the same time the later one in the file counts.
Newer(kept, e) ==
    IF Pair(e) \in DOMAIN kept /\ kept[Pair(e)].at > e.at THEN kept
    ELSE [p \in DOMAIN kept \cup {Pair(e)} |-> IF p = Pair(e) THEN e ELSE kept[p]]

Latest(entries) == FoldLeft(Newer, <<>>, entries)

R8Items(entries) ==
    LET latest == Latest(entries) IN
    {AlertItem(latest[p]) : p \in {q \in DOMAIN latest : ~latest[q].lifted}}

\* The old file is the state of one moment: every entry that is not lifted.
LegacyItems(entries) == {AlertItem(e) : e \in {d \in ToSet(entries) : ~d.lifted}}

-----------------------------------------------------------------------------
(* A place *)

\* A city that is in no table gets the warnings of the whole prefecture.
FilteredForCity(items, city) ==
    CASE city \in DOMAIN CityArea -> {i \in items : i.area = CityArea[city]}
      [] city \notin DOMAIN CityArea /\ CityLabels[city] # {} ->
            {i \in items : AreaLabel[i.area] \in CityLabels[city]}
      [] OTHER -> items

SeverityOrder(s) ==
    CASE s = "emergency" -> 4 [] s = "warning" -> 3 [] s = "advisory" -> 2
      [] s = "unknown" -> 1 [] OTHER -> 0

MaxSeverity(items) ==
    IF items = {} THEN "none"
    ELSE (CHOOSE i \in items : \A j \in items :
              SeverityOrder(j.severity) <= SeverityOrder(i.severity)).severity

\* With an empty cache; how old a cached answer may be is in LiveCaches.
AlertsForLocation(city) ==
    LET fetched == IF publisher = "r8" THEN R8Items(reports) ELSE LegacyItems(reports)
        items == FilteredForCity(fetched, city) IN
    IF publisher = "down" THEN [status |-> "unavailable", severity |-> "none", alerts |-> {}]
    ELSE [status |-> "ok", severity |-> MaxSeverity(items), alerts |-> items]

\* What the page of warnings is told.
WarningsForLocation(city) ==
    LET raw == AlertsForLocation(city) IN
    [ok |-> raw.status # "unavailable",
     has_warning |-> raw.severity \in {"emergency", "warning"},
     has_unknown |-> \E a \in raw.alerts : a.severity = "unknown",
     max_level |-> raw.severity]

-----------------------------------------------------------------------------
(* The JMA.  A report may carry the time of the one before it, and stand   *)
(* anywhere in the file when it is newer.                                  *)

IssueReport(area, code, lifted) ==
    /\ publisher = "r8"
    /\ Len(reports) < MaxReports
    /\ \E at \in {issued, issued + 1} :
           LET e == [at |-> at, area |-> area, code |-> code, lifted |-> lifted] IN
           /\ issued' = at
           /\ reports' \in {Append(reports, e)}
                           \cup IF at > issued THEN {<<e>> \o reports} ELSE {}
    /\ UNCHANGED publisher

PublisherChanges(how) ==
    /\ publisher # how
    /\ publisher' = how
    /\ reports' = IF how = "legacy"        \* what is in force, in one report
                  THEN SelectSeq(reports, LAMBDA e : e = Latest(reports)[Pair(e)])
                  ELSE reports
    /\ UNCHANGED issued

AlertNext ==
    \/ \E area \in AlertAreas, code \in AlertCodes, lifted \in BOOLEAN :
           IssueReport(area, code, lifted)
    \/ \E how \in {"legacy", "down"} : PublisherChanges(how)

AlertSpec == AlertInit /\ [][AlertNext]_alertVars

-----------------------------------------------------------------------------
(* Properties *)

\* The last word of the JMA on a kind of warning in an area.
LastWord(area, code) ==
    LET about == {i \in DOMAIN reports : Pair(reports[i]) = <<area, code>>}
        last == CHOOSE i \in about : \A j \in about :
                    \/ reports[j].at < reports[i].at
                    \/ reports[j].at = reports[i].at /\ j <= i IN
    IF about = {} THEN "never" ELSE IF reports[last].lifted THEN "lifted" ELSE "in_force"

\* A place is told of a kind of warning that is in force in its area, and of no
\* other, in whatever order the reports of its issue, change and cancellation
\* stand in the file.
InForceIsListed ==
    publisher = "r8" =>
        \A city \in DOMAIN CityArea, code \in AlertCodes :
            (LastWord(CityArea[city], code) = "in_force")
            <=> (\E a \in AlertsForLocation(city).alerts : a.code = code)
=============================================================================
