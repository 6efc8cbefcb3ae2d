---------------------------- MODULE DataConsole ------------------------------
(***************************************************************************)
(* What the data operations console says of a dataset                      *)
(* (data_ops_service.py, with dataset_runtime_reconcile.py and             *)
(* runtime_provenance.py): a status for its source, canonical, derived     *)
(* files, runtime, tile and the record of provenance that the runtime      *)
(* carries, and the worst of them.                                         *)
(*                                                                         *)
(* `sight` is what the files of the node say, each possibly from another    *)
(* time: the acquisition in use, the raw file, the canonical, the routing  *)
(* and its meta, the build record and the version in data_runtime/current. *)
(* A sha stands for a content.  The dataset is a flood dataset (its        *)
(* runtime file is derived from the canonical) or one whose canonical      *)
(* itself is served.                                                       *)
(***************************************************************************)
EXTENDS SourceContract

CONSTANTS
    Sights,     \* field of `sight` -> the values to choose from
    FirstSights,    \* where everything fits together
    MaxDifferences  \* bound on the fields in which `sight` differs from such a sight

VARIABLE sight
    \* [def, acquisition, raw, canonical, failed, meta, routing, build, view, tile, upstream]

\* The values that a field takes.
SeenOf(f) == Sights[f] \cup {first[f] : first \in FirstSights}

\* What is seen are records, and the files that a dataset registers are of its region.
ASSUME ConsoleAssumption ==
    /\ DOMAIN Sights = {"def", "acquisition", "raw", "canonical", "failed", "meta", "routing",
                         "build", "view", "tile", "upstream"}
    /\ \A first \in FirstSights : first = [f \in DOMAIN Sights |-> first[f]]
    /\ \A m \in SeenOf("meta") : m = Missing \/ m = [source |-> m.source, artifact |-> m.artifact]
    /\ \A def \in SeenOf("def") :
          /\ def.expected = [n \in DOMAIN def.expected |-> def.expected[n]]
          /\ RegionCodes(def, DOMAIN def.expected) \subseteq {def.code}

Differences(o, first) == Cardinality({f \in DOMAIN o : o[f] # first[f]})
Observe ==
    \E f \in DOMAIN Sights : \E v \in Sights[f] :
        /\ v # sight[f] /\ sight' = [sight EXCEPT ![f] = v]
        /\ \E first \in FirstSights : Differences(sight', first) <= MaxDifferences
ConsoleInit == sight \in FirstSights
ConsoleNext == Observe
ConsoleSpec == ConsoleInit /\ [][ConsoleNext]_sight

-----------------------------------------------------------------------------
(* The runtime: what current serves against what this node would publish   *)

Flood(o) == o.def.layer = "flood"

\* load_meta(), routing_paths_for_canonical(): the meta is read where the canonical is, or by
\* the path it once had when the dataset is verified by its record.
HasMeta(o) == o.meta # Missing /\ (o.canonical # Missing \/ o.def.byRecord)

\* _source_sha(), _artifact_record_source_sha()
SourceSha(o) ==
    IF ~Flood(o) THEN o.canonical
    ELSE IF ~HasMeta(o) THEN Missing
    ELSE IF o.canonical = Missing
         THEN IF o.build # Missing /\ o.build.artifact = o.meta.artifact
                                   /\ o.build.canonical = o.meta.source
              THEN o.meta.artifact ELSE Missing
    ELSE IF o.canonical # o.meta.source THEN "stale-derived"
    ELSE o.meta.artifact

\* reconcile_dataset()
RuntimeStatus(o) ==
    IF ~o.view.ok THEN "unknown"
    ELSE IF o.view.artifact \in o.def.superseded THEN "superseded_served"
    ELSE IF SourceSha(o) \in o.def.superseded THEN "superseded_source"
    ELSE IF o.view.artifact = Missing THEN IF o.view.deployed THEN "stale" ELSE "not_published"
    ELSE IF SourceSha(o) = Missing THEN "unknown"
    ELSE IF SourceSha(o) = o.view.artifact THEN "published"
    ELSE "mismatch"

\* runtime_section()
RuntimeSection(o) ==
    LET status == RuntimeStatus(o) IN
    CASE status = "published" -> "OK"
      [] status \in {"mismatch", "not_published"} -> "WARNING"
      [] status \in {"stale", "superseded_served", "superseded_source"} -> "ERROR"
      [] OTHER -> "UNKNOWN"

\* loader_contract(): whether the public backend reads the file that is served.
BackendSection(o) ==
    CASE RuntimeStatus(o) = "unknown" /\ ~(o.view.ok /\ o.view.artifact # Missing) -> "UNKNOWN"
      [] o.view.artifact = Missing -> "NOT_APPLICABLE"
      [] o.def.loaded = "no" -> "WARNING"
      [] o.def.loaded = "unknown" -> "UNKNOWN"
      [] OTHER -> "UNOBSERVED"

-----------------------------------------------------------------------------
(* The record of provenance that was published with the runtime            *)

\* verify_runtime() and runtime_provenance_section(): a readable record is compared with the
\* manifest, with what the layer promises of its canonical, and with the meta of the routing.
RecordStatus(o) ==
    LET r == o.view.record IN
    CASE r = Missing -> "ABSENT"
      [] ~r.readable -> "INVALID"
      [] r.artifact # o.view.artifact -> "MISMATCH"
      [] r.tile # Missing /\ r.tile # o.view.tile -> "MISMATCH"
      [] ~Flood(o) /\ (r.canonical # r.artifact \/ r.canonical \in o.def.superseded) -> "MISMATCH"
      [] Flood(o) /\ o.canonical # Missing /\ o.meta # Missing /\ o.meta.artifact = r.artifact
                  /\ o.meta.source # r.canonical -> "MISMATCH"
      [] OTHER -> "VERIFIED"

HasRecord(o) == o.view.ok /\ o.view.artifact # Missing
RecordSection(o) ==
    CASE ~HasRecord(o) -> "NOT_APPLICABLE"
      [] RecordStatus(o) = "VERIFIED" -> "OK"
      [] RecordStatus(o) = "ABSENT" -> "UNKNOWN"
      [] OTHER -> "ERROR"

-----------------------------------------------------------------------------
(* The source *)

\* What the runtime says it was made of, once its record is verified.
RuntimeSource(o) ==
    IF HasRecord(o) /\ RecordStatus(o) = "VERIFIED" THEN o.view.record.source ELSE Missing
SourceRecord(o) == IF o.acquisition # Missing THEN o.acquisition ELSE RuntimeSource(o)

\* provenance_missing
SourceIncomplete(o) ==
    \/ ~o.def.named
    \/ SourceRecord(o) = Missing
    \/ o.acquisition # Missing /\ (o.acquisition.method = "legacy_unknown" \/ o.acquisition.files = <<>>)

\* _raw_cache_status(): the raw file is not the one in use.
RawIsStale(o) ==
    LET r == SourceRecord(o)
        names == (IF o.acquisition # Missing THEN {} ELSE ToSet(NamesOf(r.files)))
                 \cup ({r.outer} \ {Missing})
    IN  /\ o.raw # Missing /\ r # Missing
        /\ names # {} /\ o.raw.file.name \notin names

\* Mutant: the verdict that was stored with the record.
StoredValidity(o) == IF SourceRecord(o) = Missing THEN "unknown" ELSE SourceRecord(o).validity

\* acquisition_section(): the stored verdict may be of another definition and is judged again.
SourceValidity(o) ==
    LET r == SourceRecord(o)
        stored == IF r = Missing THEN "unknown" ELSE r.validity
        identity == Identity(o.def, r.files)
    IN  CASE o.raw # Missing /\ RawOfOtherRegion(o.def, o.raw) /\ ~RawIsStale(o) ->
                "provenance_mismatch"
          [] r = Missing \/ stored = "provenance_mismatch" -> stored
          [] identity = "SOURCE_MISMATCH" -> "provenance_mismatch"
          [] identity # "EXPECTED_SOURCE_MATCH" /\ stored = "valid" -> "unknown"
          [] OTHER -> stored

SourceSection(o) ==
    CASE SourceValidity(o) = "provenance_mismatch" -> "ERROR"
      [] SourceIncomplete(o) \/ SourceValidity(o) # "valid" -> "WARNING"
      [] OTHER -> "OK"

-----------------------------------------------------------------------------
(* Canonical, derived files and tile *)

\* transform_section(): a canonical that is not on this node may be verified by its record.
ByRecordHere(o) == Flood(o) /\ o.def.byRecord /\ o.canonical = Missing
CanonicalSection(o) ==
    CASE ByRecordHere(o) -> "NOT_APPLICABLE"
      [] o.canonical = Missing -> "WARNING"
      [] o.failed -> "ERROR"
      [] OTHER -> "OK"

\* transform_section(), _artifact_record_derived()
DerivedSection(o) ==
    IF ~Flood(o) \/ (o.canonical = Missing /\ ~o.def.byRecord) THEN "NOT_APPLICABLE"
    ELSE IF /\ o.meta # Missing /\ o.routing
            /\ IF o.canonical # Missing THEN o.canonical = o.meta.source
               ELSE /\ o.build # Missing
                    /\ o.build.artifact = o.meta.artifact /\ o.build.canonical = o.meta.source
         THEN "OK" ELSE "ERROR"

\* tile_section(): the version's tile, the mirror that Martin reads and Martin's catalog.
TileSection(o) ==
    CASE o.def.tile = "not_applicable" -> "NOT_APPLICABLE"
      [] ~o.view.ok -> "UNKNOWN"
      [] o.view.tile = Missing ->
            CASE o.def.tile = "required" -> "ERROR" [] o.def.tile = "optional" -> "WARNING"
              [] OTHER -> "UNKNOWN"
      [] o.tile.mirror # o.view.tile -> "ERROR"     \* sizes stand for contents
      [] o.tile.broken -> "ERROR"
      [] o.tile.catalog = "without" -> "ERROR"
      [] OTHER -> "OK"

\* derived_section(): a dataset made of others says so of every input, by sha and by the
\* status their sources have in the same console.
UpstreamSection(o) ==
    CASE o.upstream = Missing -> SourceSection(o)
      [] \E i \in o.upstream.inputs : i.actual \notin {i.expected, Missing} -> "ERROR"
      [] o.upstream.output \notin {o.upstream.expected, Missing} -> "ERROR"
      [] \/ \E i \in o.upstream.inputs : i.actual = Missing \/ i.source # "OK"
         \/ Missing \in {o.upstream.output, o.upstream.expected} -> "WARNING"
      [] OTHER -> "OK"

-----------------------------------------------------------------------------
ConsoleSections(o) ==
    [source |-> UpstreamSection(o), canonical |-> CanonicalSection(o),
     derived |-> DerivedSection(o), runtime |-> RuntimeSection(o),
     backend |-> BackendSection(o), record |-> RecordSection(o), tile |-> TileSection(o)]

Grade(status) ==
    CASE status = "ERROR" -> 3 [] status = "WARNING" -> 2 [] status = "UNKNOWN" -> 1
      [] status = "OK" -> 0 [] OTHER -> -1

\* _overall(): the worst of what was observed.
Overall(o) ==
    LET worst == Max({Grade(status) : status \in Range(ConsoleSections(o))})
    IN  CASE worst = 3 -> "ERROR" [] worst = 2 -> "WARNING" [] worst = 0 -> "OK"
          [] OTHER -> "UNKNOWN"

\* When the console calls everything OK, the chain holds from end to end: the files of the
\* source are the registered ones by name and by sha and of no other region, or every
\* dataset it was made of is the one that is there and is OK itself; what is served was
\* made of the canonical that the record names (and that this node has, if it has one),
\* nothing superseded is served, and a tile that is looked at is in the mirror of Martin
\* as it is in the version.
OkChainHolds ==
    sight # <<>> /\ Overall(sight) = "OK" =>
        /\ sight.upstream = Missing =>
               /\ ShaByName(SourceRecord(sight).files) = sight.def.expected
               /\ Missing \notin Range(sight.def.expected)
               /\ RegionCodes(sight.def, ToSet(NamesOf(SourceRecord(sight).files))) \subseteq {sight.def.code}
        /\ sight.upstream # Missing =>
               /\ \A i \in sight.upstream.inputs : i.actual = i.expected /\ i.source = "OK"
               /\ sight.upstream.output = sight.upstream.expected
        /\ Flood(sight) /\ sight.canonical # Missing =>
               /\ sight.meta = [source |-> sight.canonical, artifact |-> sight.view.artifact]
               /\ sight.view.record.canonical = sight.canonical
        /\ ~Flood(sight) => sight.canonical = sight.view.artifact
        /\ sight.view.artifact \notin sight.def.superseded
        /\ sight.def.tile # "not_applicable" /\ sight.view.tile # Missing =>
               sight.tile.mirror = sight.view.tile
=============================================================================
