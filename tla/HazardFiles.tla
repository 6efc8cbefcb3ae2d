----------------------------- MODULE HazardFiles ------------------------------
(***************************************************************************)
(* Which file a viewer is given for a hazard of a region.  The routes of   *)
(* api/hazards.py stream it out of the current version under a lease, or   *)
(* look for it, one place after another, among the paths of the active     *)
(* dataset (hazard_dataset_service.py), in the runtime tree and in the     *)
(* data lake; the description of a hazard names the tiles of its map.      *)
(*                                                                         *)
(* Versions are published, datasets deployed, mapped and rolled back and   *)
(* tiles built and retired meanwhile, between any two of these looks, each *)
(* by a process of its own; the public server itself reads the mappings    *)
(* when it starts and never again.  Requests do not disturb one another,   *)
(* so there is one at a time.  A file is what its directory and its name   *)
(* say it is, and about a dataset, which may be another; leases and the    *)
(* streaming itself are RuntimeLease's.                                    *)
(***************************************************************************)
EXTENDS Naturals, FiniteSets, SequencesExt

CONSTANTS
    HazardDatasets, \* dataset -> [type, region, exposed]
    HazardTrees,    \* versions: sets of files [type, region, named, about, size]
    RuntimeFiles,   \* files that a deploy may have left in the runtime tree
    LakeFiles,      \* normalized files
    LegacyFiles,    \* data/hazard
    TileFiles,      \* tiles: [type, region, named, stem, about, size, temporary]
    FirstMappings,  \* what may be mapped when the routes are first asked
    NoFile,         \* no file, no dataset
    MaxShelfChanges \* bound on changes

VARIABLES
    outlook,    \* all that the routes look at; <<>> at first
    query       \* a request for a hazard, and what it has found; <<>> at first
viewerVars == <<outlook, query>>

\* What a job writes is where its dataset belongs: the directory, or the name where the
\* directory is no region's, is that of the dataset it is about.
WhereItBelongs(f) ==
    /\ f.about \in DOMAIN HazardDatasets /\ HazardDatasets[f.about].type = f.type
    /\ HazardDatasets[f.about].region = IF f.region = "" THEN f.named ELSE f.region

\* Tiles of several regions share a directory, but the names of all begin with their own.
TileNamedForItsRegion(t) ==
    /\ t.about \in DOMAIN HazardDatasets /\ HazardDatasets[t.about].type = t.type
    /\ HazardDatasets[t.about].region = t.named
    /\ t.stem \in DOMAIN HazardDatasets => HazardDatasets[t.stem].region = t.named

\* One dataset of a hazard and a region is active.
OneActive(mapping) ==
    \A d, e \in mapping :
        HazardDatasets[d].type = HazardDatasets[e].type
        /\ HazardDatasets[d].region = HazardDatasets[e].region => d = e

ASSUME HazardFilesAssumption ==
    /\ \A d \in DOMAIN HazardDatasets : HazardDatasets[d].region # ""
    /\ \A tree \in HazardTrees :
          IsFiniteSet(tree) /\ \A f \in tree : f.size \in Nat /\ WhereItBelongs(f)
    /\ \A f \in RuntimeFiles \cup LakeFiles : f.region # "" /\ WhereItBelongs(f)
    /\ IsFiniteSet(TileFiles)
    /\ \A t \in TileFiles : t.size \in Nat /\ TileNamedForItsRegion(t)
    /\ \A mapped \in FirstMappings : OneActive(mapped) /\ mapped \subseteq DOMAIN HazardDatasets
    /\ NoFile \notin DOMAIN HazardDatasets /\ NoFile \notin TileFiles
    /\ NoFile \notin RuntimeFiles \cup LakeFiles

ShownTypes == {HazardDatasets[d].type : d \in DOMAIN HazardDatasets}
HazardRegions == {HazardDatasets[d].region : d \in DOMAIN HazardDatasets}
Largest(files) == CHOOSE f \in files : \A g \in files : g.size <= f.size

-----------------------------------------------------------------------------
(* The active dataset: hazard_dataset_service.py *)

ActiveDataset(type, region) ==
    LET mapped == {d \in outlook.known : HazardDatasets[d].type = type
                                         /\ HazardDatasets[d].region = region}
    IN IF mapped = {} THEN NoFile ELSE CHOOSE d \in mapped : TRUE
PathOfDataset(d) ==
    LET p == outlook.paths[d]
    IN IF p.runtime # NoFile THEN p.runtime
       ELSE IF p.validated # NoFile THEN p.validated ELSE p.normalized
\* A path may be noted of a file that is gone.
ActivePath(type, region) ==
    LET d == ActiveDataset(type, region) IN IF d = NoFile THEN NoFile ELSE PathOfDataset(d)
IsThere(file) == file \in outlook.runtime \cup outlook.lake

\* The directory of the region, else what is named for the region beside it.
InRegion(files, type, region) ==
    {f \in files : f.type = type /\ f.region = region}
NamedForRegion(files, type, region) ==
    {f \in files : f.type = type /\ f.region = "" /\ f.named = region}
VersionedFiles(type, region) ==
    LET inside == InRegion(outlook.tree, type, region)
    IN IF inside # {} THEN inside ELSE NamedForRegion(outlook.tree, type, region)

NotThere == [status |-> 404]
Failure == [status |-> 500]
Found(file, tier) == [status |-> 200, file |-> file, tier |-> tier]

\* _try_resolve_from_current(): a link that was never set is no failure here.
ResolvedFromCurrent(type, region) ==
    IF ~outlook.leases \/ outlook.link = "absent" THEN NotThere
    ELSE IF outlook.link = "broken" THEN Failure
    ELSE IF VersionedFiles(type, region) = {} THEN NotThere
    ELSE Found(Largest(VersionedFiles(type, region)), "version")

-----------------------------------------------------------------------------
(* What there is, and what of it a request could have seen *)

\* What concerns a hazard of a region, at one moment.
Moment(type, region) ==
    [link |-> outlook.link, versioned |-> VersionedFiles(type, region),
     own |-> ActivePath(type, region), runtime |-> InRegion(outlook.runtime, type, region),
     lake |-> InRegion(outlook.lake, type, region), tiles |-> InRegion(outlook.tiles, type, region)]

NoPaths == [runtime |-> NoFile, validated |-> NoFile, normalized |-> NoFile]
HazardFilesInit == outlook = <<>> /\ query = <<>>
FirstLook ==
    /\ outlook = <<>>
    /\ \E ready \in BOOLEAN, mapped \in FirstMappings :
         outlook' = [leases |-> ready, link |-> "absent", tree |-> {}, runtime |-> {}, lake |-> {},
                     legacy |-> LegacyFiles, tiles |-> {}, mapping |-> mapped, known |-> mapped,
                     paths |-> [d \in DOMAIN HazardDatasets |-> NoPaths], changes |-> 0]
    /\ UNCHANGED query

\* A request that is not answered yet sees one more moment.
Notice ==
    \/ query = <<>> /\ UNCHANGED query
    \/ \E type \in ShownTypes, region \in HazardRegions :
          /\ query # <<>> /\ query.type = type /\ query.region = region
          /\ query' = IF query.step = "answered" THEN query
                     ELSE [query EXCEPT !.moments = @ \cup {Moment(type, region)'}]
Changes(next) ==
    /\ outlook # <<>> /\ outlook.changes < MaxShelfChanges
    /\ outlook' = [next EXCEPT !.changes = @ + 1]
    /\ Notice

PublishTree ==
    \E tree \in HazardTrees :
        outlook.leases /\ Changes([outlook EXCEPT !.tree = tree, !.link = "current"])
LinkBreaks == outlook.link = "current" /\ Changes([outlook EXCEPT !.link = "broken"])
NormalizeFile ==
    \E f \in LakeFiles : Changes([outlook EXCEPT !.lake = @ \cup {f},
                                                 !.paths[f.about].normalized = f])
\* A deploy copies the file and notes its path; a rollback may take the file away, and
\* a comparison with what is published (apply_to_state()) the path.
DeployFile ==
    \E f \in RuntimeFiles : Changes([outlook EXCEPT !.runtime = @ \cup {f},
                                                    !.paths[f.about].runtime = f])
WithdrawFile ==
    \E f \in outlook.runtime : Changes([outlook EXCEPT !.runtime = @ \ {f}])
ForgetPath ==
    \E d \in DOMAIN HazardDatasets :
        outlook.paths[d].runtime # NoFile /\ Changes([outlook EXCEPT !.paths[d].runtime = NoFile])
BuildTiles == \E t \in TileFiles : Changes([outlook EXCEPT !.tiles = @ \cup {t}])
RetireTiles == \E t \in outlook.tiles : Changes([outlook EXCEPT !.tiles = @ \ {t}])
\* The administration's process writes the mapping.
MapActive(d) ==
    LET same == {e \in outlook.mapping : HazardDatasets[e].type = HazardDatasets[d].type
                                         /\ HazardDatasets[e].region = HazardDatasets[d].region}
    IN  d \notin outlook.mapping /\ Changes([outlook EXCEPT !.mapping = (@ \ same) \cup {d}])
UnmapActive(d) ==
    d \in outlook.mapping /\ Changes([outlook EXCEPT !.mapping = @ \ {d}])
\* The public server starts again and reads the mappings; a request is cut off.
ServerRestarts ==
    /\ outlook # <<>>
    /\ outlook' = [outlook EXCEPT !.known = outlook.mapping]
    /\ query' = <<>>

-----------------------------------------------------------------------------
(* The routes: api/hazards.py *)

Exposed(type, region) ==
    \E d \in DOMAIN HazardDatasets :
        /\ HazardDatasets[d].type = type /\ HazardDatasets[d].region = region
        /\ HazardDatasets[d].exposed
WithheldTypes == [flood |-> 413, pseudo_inland_flood |-> 422, lowland_poor_drainage |-> 422]

\* A request is at its first look.
HazardRequest(kind, type, region, step) ==
    [kind |-> kind, type |-> type, region |-> region, step |-> step, dataset |-> NoFile,
     own |-> NoFile, tier |-> "", tiles |-> {}, moments |-> {Moment(type, region)},
     answer |-> NotThere]
\* get_inland_flood() and its like, get_active_hazard_geojson() for the types whose file
\* is not given out, and get_active_hazard_meta().
AskForHazard ==
    /\ outlook # <<>> /\ query = <<>> /\ UNCHANGED outlook
    /\ \E type \in ShownTypes, region \in HazardRegions :
         \/ query' = HazardRequest("description", type, region, "resolve")
         \/ /\ type \in DOMAIN WithheldTypes
            /\ query' = HazardRequest("withheld", type, region, "version")
         \/ /\ type \notin DOMAIN WithheldTypes /\ Exposed(type, region)
            /\ query' = HazardRequest("file", type, region, "version")

QueryAt(kind, step) ==
    outlook # <<>> /\ query # <<>> /\ query.kind = kind /\ query.step = step /\ UNCHANGED outlook
GoesOnTo(step) == query' = [query EXCEPT !.step = step]
Replies(answer) == query' = [query EXCEPT !.step = "answered", !.answer = answer]
LeaveHazard == query # <<>> /\ query.step = "answered" /\ query' = <<>> /\ UNCHANGED outlook

\* _runtime_stream_or_none(): without leases there are no versions; with them, a link
\* that cannot be followed is a failure.
\* Mutant: it is taken for a tree that was never published.
LenientStream(type, region) ==
    IF outlook.leases /\ outlook.link = "current" /\ VersionedFiles(type, region) # {}
    THEN Found(Largest(VersionedFiles(type, region)), "version") ELSE NotThere
Streamed(type, region) ==
    IF ~outlook.leases THEN NotThere
    ELSE IF outlook.link # "current" THEN Failure
    ELSE IF VersionedFiles(type, region) = {} THEN NotThere
    ELSE Found(Largest(VersionedFiles(type, region)), "version")
LookInVersion ==
    /\ QueryAt("file", "version")
    /\ LET streamed == Streamed(query.type, query.region)
       IN IF streamed = NotThere THEN GoesOnTo("active") ELSE Replies(streamed)

\* _find_hazard_file_for_region(): the file of the active dataset, or the first of the
\* runtime directory, of the lake, and for Tokyo of the legacy files, whatever these are.
LookUpActive ==
    /\ QueryAt("file", "active")
    /\ LET own == ActivePath(query.type, query.region)
       IN query' = [query EXCEPT !.step = IF own = NoFile THEN "runtime" ELSE "check", !.own = own]
CheckActive ==
    /\ QueryAt("file", "check")
    /\ query' = IF IsThere(query.own) THEN [query EXCEPT !.step = "open", !.tier = "active"]
               ELSE [query EXCEPT !.step = "runtime"]
LookInto(tier, files, next) ==
    /\ QueryAt("file", tier)
    /\ IF files = {} THEN next
       ELSE \E f \in files : query' = [query EXCEPT !.step = "open", !.own = f, !.tier = tier]
LookIntoRuntime ==
    LookInto("runtime", InRegion(outlook.runtime, query.type, query.region), GoesOnTo("lake"))
LookIntoLake ==
    LookInto("lake", InRegion(outlook.lake, query.type, query.region), GoesOnTo("legacy"))
LookIntoLegacy ==
    LookInto("legacy", {f \in outlook.legacy : query.region = "tokyo"}, Replies(NotThere))
\* FileResponse opens the file only now.
OpenFound ==
    /\ QueryAt("file", "open")
    /\ Replies(IF query.tier = "legacy" \/ IsThere(query.own) THEN Found(query.own, query.tier)
               ELSE Failure)

\* has_active_hazard_dataset(): whether there is what is not given out.
LookForAny ==
    /\ QueryAt("withheld", "version")
    /\ LET versioned == ResolvedFromCurrent(query.type, query.region)
       IN IF versioned = NotThere THEN GoesOnTo("resolve")
          ELSE Replies([status |-> IF versioned = Failure THEN 500 ELSE WithheldTypes[query.type]])
\* Mutant: nothing but a version counts.
DenyUnversioned == QueryAt("withheld", "resolve") /\ Replies(NotThere)
ResolveWithheld ==
    /\ QueryAt("withheld", "resolve")
    /\ Replies(IF ActivePath(query.type, query.region) = NoFile THEN NotThere
               ELSE [status |-> WithheldTypes[query.type]])

ResolveDescribed ==
    /\ QueryAt("description", "resolve")
    /\ LET own == ActivePath(query.type, query.region)
       IN IF own = NoFile THEN Replies(NotThere)
          ELSE query' = [query EXCEPT !.step = "list", !.own = own,
                                       !.dataset = ActiveDataset(query.type, query.region)]
\* _find_tileset_for_region(): of the tiles that are named for the region, those of the
\* active dataset, or the largest.
\* Mutant: the directory alone tells the region.
TilesOfDirectory(type, region) ==
    {t \in InRegion(outlook.tiles, type, region) : ~t.temporary}
TilesOfRegion(type, region) ==
    {t \in InRegion(outlook.tiles, type, region) : ~t.temporary /\ t.named = region}
ListTiles ==
    /\ QueryAt("description", "list")
    /\ query' = [query EXCEPT !.step = "pick", !.tiles = TilesOfRegion(query.type, query.region)]
OwnTiles == {t \in query.tiles : t.stem = query.dataset}
Description(tiles) ==
    [status |-> 200, dataset |-> query.dataset, artifact |-> query.own, tiles |-> tiles]
\* The sizes are asked only when there are none of its own, and of each tile.
PickTiles ==
    /\ QueryAt("description", "pick")
    /\ Replies(IF query.tiles = {} THEN Description(NoFile)
               ELSE IF OwnTiles # {} THEN Description(Largest(OwnTiles))
               ELSE IF query.tiles \subseteq outlook.tiles THEN Description(Largest(query.tiles))
               ELSE Failure)

HazardFilesNext ==
    \/ FirstLook
    \/ /\ outlook # <<>>
       /\ \/ PublishTree \/ LinkBreaks \/ NormalizeFile \/ DeployFile \/ WithdrawFile \/ ForgetPath
          \/ BuildTiles \/ RetireTiles \/ ServerRestarts
          \/ \E d \in DOMAIN HazardDatasets : MapActive(d) \/ UnmapActive(d)
    \/ AskForHazard \/ LeaveHazard
    \/ LookInVersion \/ LookUpActive \/ CheckActive
    \/ LookIntoRuntime \/ LookIntoLake \/ LookIntoLegacy \/ OpenFound
    \/ LookForAny \/ ResolveWithheld \/ ResolveDescribed \/ ListTiles \/ PickTiles
HazardFilesSpec == HazardFilesInit /\ [][HazardFilesNext]_viewerVars

-----------------------------------------------------------------------------
IsAbout(file, type, region) ==
    HazardDatasets[file.about].type = type /\ HazardDatasets[file.about].region = region
Stands(moment) == moment.own # NoFile /\ moment.own \in moment.runtime \cup moment.lake

\* A file that is given out is that of the hazard and the region it was asked for, but
\* for the last resort of the legacy files, and was in its place at some moment of the
\* request; with leases it comes from outside of the versions only if at some moment the
\* current version could be read and held none.
FileIsOfTheRegion ==
    LET answer == query.answer
    IN  /\ answer.tier = "legacy" \/ IsAbout(answer.file, query.type, query.region)
        /\ answer.tier = "version" =>
              \E m \in query.moments : m.link = "current" /\ answer.file \in m.versioned
        /\ answer.tier \in {"active", "runtime", "lake"} =>
              \E m \in query.moments : answer.file \in m.runtime \cup m.lake
        /\ answer.tier # "version" /\ outlook.leases =>
              \E m \in query.moments : m.link = "current" /\ m.versioned = {}

\* A description is of a dataset of the hazard and the region, and so are the tiles that
\* it names; they are those of the dataset whenever these were there all along.
DescriptionIsOfTheRegion ==
    LET answer == query.answer
    IN  /\ IsAbout(answer.artifact, query.type, query.region)
        /\ answer.tiles # NoFile => /\ IsAbout(answer.tiles, query.type, query.region)
                                    /\ \E m \in query.moments : answer.tiles \in m.tiles
        /\ \A t \in TileFiles :
              ~t.temporary /\ t.stem = answer.dataset /\ (\A m \in query.moments : t \in m.tiles)
                => answer.tiles # NoFile /\ answer.tiles.stem = answer.dataset

\* However versions, deploys, rollbacks, mappings and tiles of several datasets change
\* between the looks of a request: nobody who asks for a region is given what belongs
\* to another, or a file or tiles that were at no moment there, or what lies elsewhere
\* in place of a version that could not be read.  And nobody is told that there is no
\* such hazard while its active dataset has a path all along, be it described or withheld;
\* nor, where files are given out, while the file of that path is there all along.
ViewersSeeTheirRegion ==
    outlook # <<>> /\ query # <<>> /\ query.step = "answered" =>
      /\ query.answer.status = 200 /\ query.kind = "file" => FileIsOfTheRegion
      /\ query.answer.status = 200 /\ query.kind = "description" => DescriptionIsOfTheRegion
      /\ query.answer.status = 404 =>
           IF query.kind = "file" THEN \E m \in query.moments : ~Stands(m)
           ELSE \E m \in query.moments : m.own = NoFile
=============================================================================
