----------------------------- MODULE StagingBuild -----------------------------
(***************************************************************************)
(* What a version is made of.  deploy_to_runtime_atomic.sh seeds a staging *)
(* tree from the current version, deploy_to_runtime.sh lays the artifacts  *)
(* of one region after the other over it, out of the data lake and by the  *)
(* registry (resolve_hazard_sources.py, resolve_tsunami_source.py,         *)
(* resolve_shelter_sources.py), and activate_version.py serves the result  *)
(* or refuses it.  The console goes the same way (admin_atomic_publish.py).*)
(*                                                                         *)
(* The lake changes at any time: an ingest normalizes a file and only then *)
(* validates it.  What the resolvers have verified is copied by a later    *)
(* command, so that something else may have taken its place; copies that   *)
(* follow one another are one action, as those of different datasets       *)
(* commute.  A tree maps paths to the number of what was ingested; one     *)
(* script runs at a time (RuntimePublish has two of them), retired tiles   *)
(* are TileMirror's, and whether single files are well formed is           *)
(* StagingValidation's.                                                    *)
(***************************************************************************)
EXTENDS Naturals, FiniteSets

CONSTANTS
    Registry,       \* dataset -> [type, region, exposed, byRecord, tile]
    TsunamiTargets, \* hazard.tsunami.targets
    Superseded,     \* dataset -> its canonicals that must not be published again
    FirstLake,      \* what the lake holds at first
    FirstMapped,    \* what may be mapped at first: sets of datasets
    FirstTrees,     \* what may be current at first: trees
    MaxLakeChanges, \* bound on what is ingested, built and mapped
    MaxPublishes    \* bound on publishes

VARIABLES
    lakeHolds,      \* [normalized, canonical, routing, record, tile : dataset -> number]
    mapped,         \* active_mappings.json: the active datasets
    liveTree,       \* the current version
    assembly,       \* the running wrapper, and the region that is being laid
    accepted,       \* history: what was laid for each region of the current version
    lakeChanges, publishes

buildVars == <<lakeHolds, mapped, liveTree, assembly, accepted, lakeChanges, publishes>>

Regions == {Registry[d].region : d \in DOMAIN Registry}
Of(types, r) == {d \in DOMAIN Registry : Registry[d].type \in types /\ Registry[d].region = r}
Active(types, r) == Of(types, r) \cap mapped

ResolvedTypes == {"flood", "storm_surge", "pseudo_inland_flood"}
OverlaidTypes == {"inland_flood", "landslide", "lowland_poor_drainage"}
ShelterTypes == {"emergency_shelter", "evacuation_shelter"}
PublishTypes == ResolvedTypes \cup OverlaidTypes \cup {"tsunami"}

Location(side, type, r, name) == [side |-> side, type |-> type, region |-> r, name |-> name]
Backend(d) == Location("backend", Registry[d].type, Registry[d].region, d)
LegacyFlood(p) == p.side = "backend" /\ p.type = "flood" /\ p.name = "legacy"

\* There is one mapping for a type in a region.
SameKey(d, e) == Registry[d].type = Registry[e].type /\ Registry[d].region = Registry[e].region

\* laying: for each dataset of the region whose file has been resolved, what that file has
\* been from then until it was copied; what may lie in the directories that were refilled.
NothingLaid == [region |-> "none", files |-> <<>>, names |-> {}, cleared |-> {}]
NoAssembly == [at |-> "idle", todo |-> {}, tree |-> <<>>, migrate |-> FALSE, rebuild |-> FALSE,
               staged |-> {}, laying |-> NothingLaid]
BuildInit ==
    /\ lakeHolds = FirstLake
    /\ mapped \in FirstMapped /\ liveTree \in FirstTrees
    /\ assembly = NoAssembly
    /\ accepted = {}
    /\ lakeChanges = 0 /\ publishes = 0

-----------------------------------------------------------------------------
(* The lake *)

Source(d) == lakeHolds[IF Registry[d].type = "flood" THEN "routing" ELSE "canonical"][d]

\* What has been resolved and not yet copied.
Unlaid ==
    {d \in DOMAIN assembly.laying.files :
       assembly.at = "sources" \/ (assembly.at = "overlaid" /\ Registry[d].type \in OverlaidTypes)}

LakeChange ==
    /\ lakeChanges < MaxLakeChanges /\ lakeChanges' = lakeChanges + 1
    /\ UNCHANGED <<liveTree, accepted, publishes>>
FileChanges ==
    /\ LakeChange
    /\ assembly' = [assembly EXCEPT !.laying.files =
                      [d \in DOMAIN assembly.laying.files |->
                         assembly.laying.files[d]
                         \cup {n \in {Source(d)'} : d \in Unlaid /\ n > 0}]]
    /\ UNCHANGED mapped
Becomes(part, d, number) ==
    lakeHolds[part][d] # number /\ lakeHolds' = [lakeHolds EXCEPT ![part][d] = number]
Derives(part, d, origin) == lakeHolds[origin][d] > 0 /\ Becomes(part, d, lakeHolds[origin][d])

\* What was normalized becomes canonical once it has passed; the routing of a flood,
\* the record of what is served and the tile are derived from that.
LakeGrows(d) ==
    /\ \/ Becomes("normalized", d, lakeHolds.normalized[d] + 1)
       \/ Derives("canonical", d, "normalized")
       \/ Registry[d].type = "flood" /\ Derives("routing", d, "canonical")
       \/ Source(d) > 0 /\ Becomes("record", d, Source(d))
       \/ Registry[d].tile # "none" /\ Derives("tile", d, "canonical")
    /\ FileChanges

\* A node need not hold every file.
LakeLoses(d) ==
    /\ \E part \in {"normalized", "canonical"} : Becomes(part, d, 0)
    /\ FileChanges

MapDataset(d) ==
    /\ LakeChange
    /\ mapped' = IF d \in mapped THEN mapped \ {d}
                 ELSE {e \in mapped : ~SameKey(d, e)} \cup {d}
    /\ UNCHANGED <<lakeHolds, assembly>>

-----------------------------------------------------------------------------
(* Resolving: all the sources that a command is asked for, or nothing *)

\* The routing must be that of the canonical, or that of the recorded build where
\* the canonical is not kept.
RoutingVerified(d) ==
    /\ lakeHolds.routing[d] > 0
    /\ lakeHolds.routing[d] = lakeHolds[IF Registry[d].byRecord THEN "record" ELSE "canonical"][d]
SourceResolves(d) ==
    IF Registry[d].type = "flood" THEN RoutingVerified(d) ELSE lakeHolds.canonical[d] > 0
AllResolve(types, r) == \A d \in Active(types, r) : SourceResolves(d)
VerifiedSources(types, r) == [d \in Active(types, r) |-> {Source(d)}]

\* The tsunami belongs to the region by the registry, mapped or not.
TsunamiKinds(r) ==
    {kind \in {"backend", "layers"} :
       \E d \in Of({"tsunami"}, r) : (kind = "backend" /\ r \in TsunamiTargets)
                                     \/ (kind = "layers" /\ Registry[d].exposed)}
TsunamiResolves(r) ==
    /\ Cardinality(Of({"tsunami"}, r)) <= 1
    /\ r \in TsunamiTargets => Of({"tsunami"}, r) # {}
    /\ TsunamiKinds(r) # {} =>
         \A d \in Of({"tsunami"}, r) : lakeHolds.canonical[d] > 0
                                       /\ lakeHolds.canonical[d] \notin Superseded[d]

-----------------------------------------------------------------------------
(* deploy_to_runtime.sh, for one region *)

FilesOf(copies) ==
    [p \in {c.at : c \in copies} |-> (CHOOSE c \in copies : c.at = p).what]

\* Files are copied under the name of their dataset, or as the one file of a layer.
Held(part, datasets) == {d \in datasets : lakeHolds[part][d] > 0}
Copies(part, datasets, side) ==
    {[at |-> Location(side, Registry[d].type, Registry[d].region, d), what |-> lakeHolds[part][d]] :
       d \in Held(part, datasets)}
LayerCopies(part, datasets, side) ==
    {[at |-> Location(side, Registry[d].type, Registry[d].region, "layer"),
      what |-> lakeHolds[part][d]] : d \in Held(part, datasets)}

\* What is copied over a tree takes the place of what is there.
Over(files, tree) ==
    [p \in DOMAIN files \cup DOMAIN tree |-> IF p \in DOMAIN files THEN files[p] ELSE tree[p]]
WithoutTypes(tree, types, r) ==
    [p \in {q \in DOMAIN tree : ~(q.side = "backend" /\ q.region = r /\ q.type \in types)} |-> tree[p]]

Lays(from, to, tree, laying) ==
    /\ assembly.at = from
    /\ assembly' = [assembly EXCEPT !.at = to, !.tree = tree, !.laying = laying]
    /\ UNCHANGED <<lakeHolds, mapped, liveTree, accepted, lakeChanges, publishes>>

ResolveSources(r) ==
    /\ r \in assembly.todo /\ AllResolve(ResolvedTypes, r)
    /\ Lays("staging", "sources", assembly.tree,
            [region |-> r, files |-> VerifiedSources(ResolvedTypes, r), names |-> {}, cleared |-> {}])

\* A path that is gone by now ends the script.
AllStand == \A d \in Unlaid : Source(d) > 0
ResolvedFiles == [p \in {Backend(d) : d \in Unlaid} |-> Source(p.name)]

\* The routing takes the place of all that the region had of floods.
CopySources ==
    /\ AllStand
    /\ LET floods == {"flood"} \cap {Registry[d].type : d \in Unlaid}
       IN Lays("sources", "tsunami",
               Over(ResolvedFiles, WithoutTypes(assembly.tree, floods, assembly.laying.region)),
               assembly.laying)

ResolveTsunami ==
    /\ TsunamiResolves(assembly.laying.region)
    /\ Lays("tsunami", "wave", assembly.tree, assembly.laying)
TsunamiCopies(r, kind) ==
    LayerCopies("canonical", {d \in Of({"tsunami"}, r) : kind \in TsunamiKinds(r)}, kind)
CopyTsunami ==
    Lays("wave", "normalized",
         Over(FilesOf(TsunamiCopies(assembly.laying.region, "backend")), assembly.tree),
         assembly.laying)

\* The directories of normalized files go in as a whole, after what was there has
\* been cleared, whether they have passed or not.  Without normalized files Tokyo
\* gets the sample.
HasNormalized(type, r) == \E d \in Of({type}, r) : lakeHolds.normalized[d] > 0
Samples(r, side, name) ==
    {[at |-> Location(side, type, r, name), what |-> 0] :
       type \in {t \in {"inland_flood", "landslide"} : r = "tokyo" /\ ~HasNormalized(t, r)}}
NormalizedFiles(r) ==
    FilesOf(Copies("normalized", Of(OverlaidTypes, r), "backend")
            \cup Samples(r, "backend", "sample"))
LayNormalized ==
    LET r == assembly.laying.region
        refilled == {type \in OverlaidTypes : HasNormalized(type, r)}
    IN Lays("normalized", "overlay",
            Over(NormalizedFiles(r), WithoutTypes(assembly.tree, refilled, r)),
            [region |-> r, files |-> assembly.laying.files,
             names |-> Held("normalized", Of(OverlaidTypes, r)), cleared |-> refilled])

\* The validated files of the active datasets go on top.
ResolveOverlay ==
    LET laying == assembly.laying
        r == laying.region
    IN /\ AllResolve(OverlaidTypes, r)
       /\ Lays("overlay", "overlaid", assembly.tree,
               [region |-> r, files |-> Over(laying.files, VerifiedSources(OverlaidTypes, r)),
                names |-> laying.names \cup Active(OverlaidTypes, r), cleared |-> laying.cleared])
\* Mutant: a file that is there is not written again.
KeptUnder(tree) == Over(tree, ResolvedFiles)
Overlaid(tree) == Over(ResolvedFiles, tree)
CopyOverlay ==
    /\ AllStand
    /\ Lays("overlaid", "rest", Overlaid(assembly.tree), assembly.laying)

\* The rest only ever adds or replaces: what is no longer active stays.
AddedFiles(r) ==
    FilesOf(Copies("canonical", Active(ShelterTypes, r), "backend")
            \cup TsunamiCopies(r, "layers")
            \cup LayerCopies("normalized", Of({"storm_surge"} \cup OverlaidTypes, r), "layers")
            \cup Samples(r, "layers", "layer")
            \cup Copies("tile", {d \in Of(PublishTypes, r) : Registry[d].tile # "none"}, "tiles"))
FinishRegion ==
    /\ assembly.at = "rest"
    /\ LET laying == assembly.laying
       IN assembly' = [assembly EXCEPT !.at = "staging", !.laying = NothingLaid,
                                       !.tree = Over(AddedFiles(laying.region), assembly.tree),
                                       !.todo = assembly.todo \ {laying.region},
                                       !.staged = assembly.staged \cup {laying}]
    /\ UNCHANGED <<lakeHolds, mapped, liveTree, accepted, lakeChanges, publishes>>

\* The wrapper throws the staging tree away with the first region that fails.
RegionFails ==
    /\ \/ assembly.at = "staging" /\ \E r \in assembly.todo : ~AllResolve(ResolvedTypes, r)
       \/ assembly.at = "tsunami" /\ ~TsunamiResolves(assembly.laying.region)
       \/ assembly.at = "overlay" /\ ~AllResolve(OverlaidTypes, assembly.laying.region)
       \/ ~AllStand
    /\ assembly' = NoAssembly
    /\ UNCHANGED <<lakeHolds, mapped, liveTree, accepted, lakeChanges, publishes>>

-----------------------------------------------------------------------------
(* deploy_to_runtime_atomic.sh *)

HasLegacyFlood(tree) == \E p \in DOMAIN tree : LegacyFlood(p)
TsunamiFile(r) == Location("backend", "tsunami", r, "layer")
TargetsToAdd == {r \in TsunamiTargets : TsunamiFile(r) \notin DOMAIN liveTree}
PublishRegions == {Registry[d].region : d \in {e \in mapped : Registry[e].type \in PublishTypes}}
TileRegions == {Registry[d].region : d \in {e \in DOMAIN Registry : Registry[e].tile # "none"}}

\* Regions are added to those asked for: targets that current lacks, and all of
\* them for a rebuild.
BeginAssembly(asked, migrate, afresh) ==
    /\ assembly.at = "idle" /\ publishes < MaxPublishes
    /\ publishes' = publishes + 1
    /\ \A r \in TargetsToAdd : Cardinality(Of({"tsunami"}, r)) = 1
    /\ assembly' = [at |-> "staging", tree |-> IF afresh THEN <<>> ELSE liveTree,
                    todo |-> asked \cup TargetsToAdd
                             \cup IF afresh THEN PublishRegions \cup TsunamiTargets \cup TileRegions
                                  ELSE {},
                    migrate |-> migrate, rebuild |-> afresh, staged |-> {},
                    laying |-> NothingLaid]
    /\ UNCHANGED <<lakeHolds, mapped, liveTree, accepted, lakeChanges>>

\* The console publishes every mapped region, and wants to be told of the
\* migration exactly when it is due.
ConsoleBuild ==
    /\ PublishRegions # {}
    /\ BeginAssembly(PublishRegions, HasLegacyFlood(liveTree), FALSE)
CommandBuild ==
    \E r \in Regions, migrate, afresh \in BOOLEAN : BeginAssembly({r}, migrate, afresh)

\* stage_runtime_provenance.py: the records of what has been staged, best effort.
WithRecords(tree) ==
    LET staged == {d \in DOMAIN Registry :
                     \/ d \in mapped /\ Registry[d].type \in ResolvedTypes \cup OverlaidTypes
                        /\ Registry[d].region \in {s.region : s \in assembly.staged}
                     \/ Registry[d].type = "tsunami" /\ TsunamiFile(Registry[d].region) \in DOMAIN tree}
    IN Over(FilesOf(Copies("record", staged, "provenance")), tree)

RebuildIsComplete(tree) ==
    /\ \A d \in DOMAIN Registry :
         Registry[d].tile = "required" => [Backend(d) EXCEPT !.side = "tiles"] \in DOMAIN tree
    /\ \A r \in TsunamiTargets : TsunamiFile(r) \in DOMAIN tree

\* activate_version.py refuses a tree that has lost a file of features, but for
\* the legacy flood of a migration.
IsFeatures(p) == p.side \in {"backend", "layers"}
Activates(tree) ==
    /\ DOMAIN tree # {} /\ ~HasLegacyFlood(tree)
    /\ {p.region : p \in {q \in DOMAIN tree : q.side = "backend" /\ q.type = "tsunami"}} = TsunamiTargets
    /\ assembly.migrate => HasLegacyFlood(liveTree)
    /\ \A p \in DOMAIN liveTree \ DOMAIN tree : IsFeatures(p) => assembly.migrate /\ LegacyFlood(p)

EndAssembly ==
    /\ assembly.at = "staging" /\ assembly.todo = {}
    /\ LET tree == WithRecords(assembly.tree)
       IN IF (assembly.rebuild => RebuildIsComplete(assembly.tree)) /\ Activates(tree)
          THEN liveTree' = tree /\ accepted' = assembly.staged
          ELSE UNCHANGED <<liveTree, accepted>>
    /\ assembly' = NoAssembly
    /\ UNCHANGED <<lakeHolds, mapped, lakeChanges, publishes>>

BuildNext ==
    \/ \E d \in DOMAIN Registry : LakeGrows(d) \/ LakeLoses(d) \/ MapDataset(d)
    \/ ConsoleBuild \/ CommandBuild
    \/ \E r \in Regions : ResolveSources(r)
    \/ CopySources \/ ResolveTsunami \/ CopyTsunami \/ LayNormalized
    \/ ResolveOverlay \/ CopyOverlay \/ FinishRegion
    \/ RegionFails \/ EndAssembly

BuildSpec == BuildInit /\ [][BuildNext]_buildVars

-----------------------------------------------------------------------------
\* However ingests, mappings and publishes interleave, a version holds for each
\* dataset that was active in its regions when their sources were resolved the
\* canonical file that was found validated then (or the routing that was verified),
\* or one that took its place before it was copied: never an earlier version's file,
\* nor the normalized one that is laid first.  Of the directories that are refilled
\* nothing is left over from an earlier version.  That a file which takes the place
\* of a verified one may itself not have been validated is the gap of the scripts
\* (the run dataset_races shows it for a routing).
PublishedIsResolved ==
    \A s \in accepted :
        /\ \A d \in DOMAIN s.files :
             Backend(d) \in DOMAIN liveTree /\ liveTree[Backend(d)] \in s.files[d]
        /\ \A p \in DOMAIN liveTree :
             p.side = "backend" /\ p.region = s.region /\ p.type \in s.cleared => p.name \in s.names
=============================================================================
