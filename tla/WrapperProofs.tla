---------------------------- MODULE WrapperProofs ----------------------------
(***************************************************************************)
(* Theorems about deploy_to_runtime_atomic.sh and the scripts around it,   *)
(* for any registry, any number of operators, versions, tiles and records: *)
(* what a version that is assembled region by region holds, what a         *)
(* validation takes over from the one before, and what a deploy, a repair  *)
(* or a rollback never does to the flat tile mirror.                       *)
(*                                                                         *)
(* A version: the tree that is being assembled holds the files that were   *)
(* resolved for the regions staged so far, and of the region that is being *)
(* laid those that have been copied; what is still to be copied is the     *)
(* file that was found or one that was seen to take its place.  A command  *)
(* touches no other region, and none is staged twice (BuildInv).           *)
(*                                                                         *)
(* A validation: what the manifest of the served version says was found by *)
(* the rules that it names, and not by those of today (StagingInv).        *)
(*                                                                         *)
(* The mirror: no lock protects it, so the invariant has two parts.        *)
(* Whatever overlaps, a plan removes only what a version or a record has   *)
(* had (MirrorInv).  A script that runs alone is followed step by step     *)
(* (AloneInv): its plan covers all by which the mirror differs from the    *)
(* version, and what is still to be placed has been prepared.              *)
(***************************************************************************)
EXTENDS TileMirror, StagingBuild, StagingValidation, TLAPS

-----------------------------------------------------------------------------
(* Files laid over a tree                                                  *)

LEMMA OverIs ==
    ASSUME NEW files, NEW tree
    PROVE  /\ DOMAIN Over(files, tree) = DOMAIN files \cup DOMAIN tree
           /\ \A p \in DOMAIN files : Over(files, tree)[p] = files[p]
           /\ \A p \in DOMAIN tree \ DOMAIN files : Over(files, tree)[p] = tree[p]
  BY DEF Over

\* Each path of the copies gets what is copied there.
LEMMA FilesAre ==
    ASSUME NEW copies
    PROVE  /\ \A c \in copies : c.at \in DOMAIN FilesOf(copies)
           /\ \A p \in DOMAIN FilesOf(copies) : \E c \in copies : p = c.at
           /\ \A c \in copies : (\A b \in copies : b.at = c.at => b.what = c.what)
                                => FilesOf(copies)[c.at] = c.what
<1>1. DOMAIN FilesOf(copies) = {c.at : c \in copies}
  BY DEF FilesOf
<1>2. ASSUME NEW c \in copies, \A b \in copies : b.at = c.at => b.what = c.what
      PROVE  FilesOf(copies)[c.at] = c.what
  <2> DEFINE b == CHOOSE b \in copies : b.at = c.at
  <2>1. b \in copies /\ b.at = c.at
    OBVIOUS
  <2>2. FilesOf(copies)[c.at] = b.what
    BY DEF FilesOf
  <2> QED
    BY <1>2, <2>1, <2>2
<1> QED
  BY <1>1, <1>2

LEMMA LocationIs ==
    ASSUME NEW side, NEW type, NEW r, NEW name
    PROVE  LET p == Location(side, type, r, name)
           IN  p.side = side /\ p.type = type /\ p.region = r /\ p.name = name
  BY DEF Location

\* Where a dataset is served from the backend.
LEMMA BackendIs ==
    ASSUME NEW d
    PROVE  /\ Backend(d).side = "backend" /\ Backend(d).name = d
           /\ Backend(d).type = Registry[d].type /\ Backend(d).region = Registry[d].region
  BY DEF Backend, Location

\* The normalized files are those that the lake has, or samples where it has none of the type.
LEMMA NormalizedAre ==
    ASSUME NEW r, NEW p \in DOMAIN NormalizedFiles(r)
    PROVE  /\ p.side = "backend" /\ p.region = r /\ p.type \in OverlaidTypes
           /\ \/ \E d \in Of(OverlaidTypes, r) : lakeHolds.normalized[d] > 0 /\ p = Backend(d)
              \/ ~HasNormalized(p.type, r)
<1>1. PICK c \in Copies("normalized", Of(OverlaidTypes, r), "backend")
                 \cup Samples(r, "backend", "sample") : p = c.at
  BY FilesAre DEF NormalizedFiles
<1>2. CASE c \in Copies("normalized", Of(OverlaidTypes, r), "backend")
  <2>1. PICK d \in Of(OverlaidTypes, r) : lakeHolds["normalized"][d] > 0 /\ p = Backend(d)
    BY <1>1, <1>2 DEF Copies, Held, Backend
  <2> QED
    BY <2>1, BackendIs DEF Of
<1>3. CASE c \in Samples(r, "backend", "sample")
  <2>1. PICK t \in {"inland_flood", "landslide"} :
           ~HasNormalized(t, r) /\ p = Location("backend", t, r, "sample")
    BY <1>1, <1>3 DEF Samples
  <2> QED
    BY <2>1, LocationIs DEF OverlaidTypes
<1> QED
  BY <1>1, <1>2, <1>3

\* What is resolved is copied to where its dataset is served from.
LEMMA ResolvedAre ==
    /\ \A p \in DOMAIN ResolvedFiles : \E d \in Unlaid : p = Backend(d)
    /\ \A d \in Unlaid : Backend(d) \in DOMAIN ResolvedFiles /\ ResolvedFiles[Backend(d)] = Source(d)
<1>1. \A d : Backend(d).name = d
  BY BackendIs
<1> QED
  BY <1>1 DEF ResolvedFiles

\* The tsunami for the backend, and what is added last, lie in the region; in the backend they
\* are of no type that the hazard resolver is asked for.
LEMMA AddedAre ==
    ASSUME NEW r
    PROVE  /\ \A p \in DOMAIN FilesOf(TsunamiCopies(r, "backend")) :
                  p.region = r /\ p.type \notin ResolvedTypes \cup OverlaidTypes
           /\ \A p \in DOMAIN AddedFiles(r) :
                  /\ p.region = r
                  /\ p.side = "backend" => p.type \notin ResolvedTypes \cup OverlaidTypes
<1>1. ASSUME NEW kind, NEW c \in TsunamiCopies(r, kind)
      PROVE  c.at.region = r /\ c.at.type = "tsunami"
  BY <1>1 DEF TsunamiCopies, LayerCopies, Held, Location, Of
<1>2. ASSUME NEW p \in DOMAIN FilesOf(TsunamiCopies(r, "backend"))
      PROVE  p.region = r /\ p.type \notin ResolvedTypes \cup OverlaidTypes
  <2>1. PICK c \in TsunamiCopies(r, "backend") : p = c.at
    BY FilesAre
  <2> QED
    BY <1>1, <2>1 DEF ResolvedTypes, OverlaidTypes
<1> DEFINE halls == Copies("canonical", Active(ShelterTypes, r), "backend")
<1> DEFINE waves == TsunamiCopies(r, "layers")
<1> DEFINE layers == LayerCopies("normalized", Of({"storm_surge"} \cup OverlaidTypes, r), "layers")
<1> DEFINE samples == Samples(r, "layers", "layer")
<1> DEFINE tiles == Copies("tile", {d \in Of(PublishTypes, r) : Registry[d].tile # "none"}, "tiles")
<1> DEFINE copies == halls \cup waves \cup layers \cup samples \cup tiles
<1>3. AddedFiles(r) = FilesOf(copies)
  BY DEF AddedFiles
<1>4. \A c \in halls : c.at.region = r /\ c.at.type \in ShelterTypes
  BY DEF Copies, Held, Location, Active, Of
<1>5. \A c \in waves : c.at.region = r /\ c.at.type = "tsunami"
  BY <1>1
<1>6. \A c \in layers : c.at.region = r /\ c.at.side = "layers"
  BY DEF LayerCopies, Held, Location, Of
<1>7. \A c \in samples : c.at.region = r /\ c.at.side = "layers"
  BY DEF Samples, Location
<1>8. \A c \in tiles : c.at.region = r /\ c.at.side = "tiles"
  BY DEF Copies, Held, Location, Of
<1> HIDE DEF halls, waves, layers, samples, tiles
<1>9. \A c \in copies : /\ c.at.region = r
                        /\ c.at.side = "backend" => c.at.type \notin ResolvedTypes \cup OverlaidTypes
  BY <1>4, <1>5, <1>6, <1>7, <1>8 DEF ResolvedTypes, OverlaidTypes, ShelterTypes
<1> HIDE DEF copies
<1>10. \A p \in DOMAIN AddedFiles(r) : \E c \in copies : p = c.at
  BY <1>3, FilesAre
<1> QED
  BY <1>2, <1>9, <1>10

-----------------------------------------------------------------------------
(* What a version holds of a region                                        *)

\* Of the files that were resolved for it, those of some datasets.
HoldsOf(s, datasets, tree) ==
    \A d \in datasets : Backend(d) \in DOMAIN tree /\ tree[Backend(d)] \in s.files[d]

\* Of the directories that were refilled, nothing else.
Refilled(s, tree) ==
    \A p \in DOMAIN tree :
        p.side = "backend" /\ p.region = s.region /\ p.type \in s.cleared => p.name \in s.names

Holds(s, tree) == HoldsOf(s, DOMAIN s.files, tree) /\ Refilled(s, tree)

Fits(s) ==
    /\ \A d \in DOMAIN s.files : /\ Registry[d].region = s.region
                                 /\ Registry[d].type \in ResolvedTypes \cup OverlaidTypes
    /\ s.cleared \subseteq OverlaidTypes

\* The trees agree on all but one region.
SameBut(r, tree, other) ==
    \A p : p.region # r => /\ p \in DOMAIN other <=> p \in DOMAIN tree
                           /\ p \in DOMAIN tree => other[p] = tree[p]

\* The records of what was staged lie beside what is served.
LEMMA RecordsAre ==
    ASSUME NEW tree, NEW p, p.side = "backend"
    PROVE  /\ p \in DOMAIN WithRecords(tree) <=> p \in DOMAIN tree
           /\ p \in DOMAIN tree => WithRecords(tree)[p] = tree[p]
<1> PICK staged : WithRecords(tree) = Over(FilesOf(Copies("record", staged, "provenance")), tree)
  BY DEF WithRecords
<1> DEFINE copies == Copies("record", staged, "provenance")
<1> DEFINE files == FilesOf(copies)
<1>1. \A c \in copies : c.at.side = "provenance"
  BY DEF Copies, Location
<1>2. \A q \in DOMAIN files : q.side = "provenance"
  <2> SUFFICES ASSUME NEW q \in DOMAIN files PROVE q.side = "provenance"
    OBVIOUS
  <2> HIDE DEF copies
  <2>1. PICK c \in copies : q = c.at
    BY FilesAre
  <2> QED
    BY <1>1, <2>1
<1>3. p \notin DOMAIN files
  BY <1>2
<1> HIDE DEF files
<1>4. /\ DOMAIN Over(files, tree) = DOMAIN files \cup DOMAIN tree
      /\ \A q \in DOMAIN tree \ DOMAIN files : Over(files, tree)[q] = tree[q]
  BY OverIs
<1>5. WithRecords(tree) = Over(files, tree)
  BY DEF files
<1> QED
  BY <1>3, <1>4, <1>5

\* What holds of a region holds of every tree that agrees on the backend's files of the region.
LEMMA HoldsElsewhere ==
    ASSUME NEW s, NEW tree, NEW other, Fits(s), Holds(s, tree),
           \A p : p.side = "backend" /\ p.region = s.region =>
                      /\ p \in DOMAIN other <=> p \in DOMAIN tree
                      /\ p \in DOMAIN tree => other[p] = tree[p]
    PROVE  Holds(s, other)
<1>1. ASSUME NEW d \in DOMAIN s.files
      PROVE  Backend(d) \in DOMAIN other /\ other[Backend(d)] \in s.files[d]
  <2>1. Backend(d).side = "backend" /\ Backend(d).region = s.region
    BY BackendIs DEF Fits
  <2> QED
    BY <2>1 DEF Holds, HoldsOf
<1> QED
  BY <1>1 DEF Holds, HoldsOf, Refilled

-----------------------------------------------------------------------------
(* The invariant                                                           *)

Awaited(at, laying) ==
    {d \in DOMAIN laying.files :
       at = "sources" \/ (at = "overlaid" /\ Registry[d].type \in OverlaidTypes)}

\* What has been resolved and not yet copied is still the file that was found, or one that has
\* been seen to take its place; what has been copied is in the tree.
LayingIs(at, tree, laying) ==
    /\ Fits(laying)
    /\ \A d \in Awaited(at, laying) : Source(d) > 0 => Source(d) \in laying.files[d]
    /\ HoldsOf(laying, DOMAIN laying.files \ Awaited(at, laying), tree)
    /\ Refilled(laying, tree)
    /\ at \in {"sources", "tsunami", "wave", "normalized", "overlay"} =>
         \A d \in DOMAIN laying.files : Registry[d].type \in ResolvedTypes
    /\ at \in {"sources", "tsunami", "wave", "normalized"} => laying.cleared = {}
    /\ at = "overlaid" => Awaited(at, laying) \subseteq laying.names

LayingShape(laying) ==
    laying = [region |-> laying.region, files |-> laying.files, names |-> laying.names,
              cleared |-> laying.cleared]

LEMMA ShapeIs ==
    ASSUME NEW r, NEW files, NEW names, NEW cleared, NEW laying,
           laying = [region |-> r, files |-> files, names |-> names, cleared |-> cleared]
    PROVE  /\ laying.region = r /\ laying.files = files /\ laying.names = names
           /\ laying.cleared = cleared /\ LayingShape(laying)
<1>1. /\ laying.region = r /\ laying.files = files /\ laying.names = names
      /\ laying.cleared = cleared
  OBVIOUS
<1>2. LayingShape(laying)
  <2> SUFFICES laying = [region |-> laying.region, files |-> laying.files,
                         names |-> laying.names, cleared |-> laying.cleared]
    BY DEF LayingShape
  <2> QED
    BY <1>1, Zenon
<1> QED
  BY <1>1, <1>2

AssemblyShape ==
    /\ assembly = [at |-> assembly.at, todo |-> assembly.todo, tree |-> assembly.tree,
                   migrate |-> assembly.migrate, rebuild |-> assembly.rebuild,
                   staged |-> assembly.staged, laying |-> assembly.laying]
    /\ LayingShape(assembly.laying)

\* The tree being assembled holds what was resolved for the regions staged so far, and none of
\* them is staged again.
StagedHolds ==
    \A s \in assembly.staged :
        Fits(s) /\ s.region \notin assembly.todo /\ Holds(s, assembly.tree)

LayingHolds ==
    assembly.at \notin {"idle", "staging"} =>
        /\ assembly.laying.region \in assembly.todo
        /\ LayingIs(assembly.at, assembly.tree, assembly.laying)

BuildInv == AssemblyShape /\ StagedHolds /\ LayingHolds /\ PublishedIsResolved

LEMMA UnlaidIs == Unlaid = Awaited(assembly.at, assembly.laying)
  BY DEF Unlaid, Awaited

LEMMA NoAssemblyIs ==
    ASSUME assembly' = NoAssembly
    PROVE  AssemblyShape' /\ StagedHolds' /\ LayingHolds'
  BY DEF NoAssembly, NothingLaid, AssemblyShape, LayingShape, StagedHolds, LayingHolds

LEMMA BuildInvInit == BuildInit => BuildInv
  BY DEF BuildInit, BuildInv, NoAssembly, NothingLaid, AssemblyShape, LayingShape, StagedHolds,
         LayingHolds, PublishedIsResolved

\* A command for one region: what it leaves is right of the region it is for, and it touches no other.
LEMMA LaysKeeps ==
    ASSUME NEW from, NEW to, NEW tree, NEW laying,
           BuildInv, Lays(from, to, tree, laying),
           LayingShape(laying), laying.region \in assembly.todo,
           SameBut(laying.region, assembly.tree, tree), LayingIs(to, tree, laying)
    PROVE  BuildInv'
<1>1. /\ assembly' = [assembly EXCEPT !.at = to, !.tree = tree, !.laying = laying]
      /\ UNCHANGED <<lakeHolds, liveTree, accepted>>
  BY DEF Lays
<1>2. /\ assembly'.at = to /\ assembly'.tree = tree /\ assembly'.laying = laying
      /\ assembly'.todo = assembly.todo /\ assembly'.staged = assembly.staged /\ AssemblyShape'
  BY <1>1 DEF BuildInv, AssemblyShape, LayingShape
<1>3. ASSUME NEW s \in assembly.staged
      PROVE  Fits(s) /\ s.region \notin assembly.todo /\ Holds(s, tree)
  <2>1. Fits(s) /\ s.region \notin assembly.todo /\ Holds(s, assembly.tree)
    BY DEF BuildInv, StagedHolds
  <2>2. \A p : p.side = "backend" /\ p.region = s.region =>
                      /\ p \in DOMAIN tree <=> p \in DOMAIN assembly.tree
                      /\ p \in DOMAIN assembly.tree => tree[p] = assembly.tree[p]
    BY <2>1 DEF SameBut
  <2>3. Holds(s, tree)
    BY <2>1, <2>2, HoldsElsewhere
  <2> QED
    BY <2>1, <2>3
<1>4. StagedHolds'
  BY <1>2, <1>3 DEF StagedHolds, Fits, Holds, HoldsOf, Refilled
<1>5. LayingIs(to, tree, laying)'
  BY <1>1 DEF LayingIs, Fits, HoldsOf, Refilled, Awaited, Source
<1>6. LayingHolds'
  BY <1>2, <1>5 DEF LayingHolds
<1>7. PublishedIsResolved'
  BY <1>1 DEF BuildInv, PublishedIsResolved
<1> QED
  BY <1>2, <1>4, <1>6, <1>7 DEF BuildInv

LEMMA ResolveSourcesKeeps ==
    ASSUME NEW r, BuildInv, ResolveSources(r)
    PROVE  BuildInv'
<1> DEFINE files == VerifiedSources(ResolvedTypes, r)
<1> DEFINE laying == [region |-> r, files |-> files, names |-> {}, cleared |-> {}]
<1>1. r \in assembly.todo /\ Lays("staging", "sources", assembly.tree, laying)
  BY DEF ResolveSources
<1>2. /\ DOMAIN files = Active(ResolvedTypes, r)
      /\ \A d \in DOMAIN files : files[d] = {Source(d)}
  BY DEF VerifiedSources
<1>3. \A d \in DOMAIN files : Registry[d].region = r /\ Registry[d].type \in ResolvedTypes
  BY <1>2 DEF Active, Of
<1> HIDE DEF files
<1>4. /\ laying.region = r /\ laying.files = files /\ laying.names = {} /\ laying.cleared = {}
      /\ LayingShape(laying)
  BY ShapeIs
<1> HIDE DEF laying
<1>5. LayingIs("sources", assembly.tree, laying)
  BY <1>2, <1>3, <1>4 DEF LayingIs, Fits, HoldsOf, Refilled, Awaited
<1>6. SameBut(laying.region, assembly.tree, assembly.tree)
  BY DEF SameBut
<1> QED
  BY <1>1, <1>4, <1>5, <1>6, LaysKeeps

\* What is copied of what was resolved is what was seen there.
LEMMA CopiesAreSeen ==
    ASSUME BuildInv, AllStand, assembly.at \notin {"idle", "staging"}
    PROVE  \A d \in Unlaid : /\ Backend(d) \in DOMAIN ResolvedFiles
                             /\ ResolvedFiles[Backend(d)] \in assembly.laying.files[d]
  BY ResolvedAre, UnlaidIs DEF BuildInv, LayingHolds, LayingIs, AllStand

\* The paths of what is copied are in the region, and of the types that were resolved.
LEMMA CopiesFit ==
    ASSUME BuildInv, assembly.at \notin {"idle", "staging"}, NEW p \in DOMAIN ResolvedFiles
    PROVE  /\ p.region = assembly.laying.region
           /\ \E d \in Unlaid : p = Backend(d) /\ p.name = d /\ p.type = Registry[d].type
<1>1. PICK d \in Unlaid : p = Backend(d)
  BY ResolvedAre
<1>2. p.name = d /\ p.type = Registry[d].type /\ p.region = Registry[d].region
  BY <1>1, BackendIs
<1>3. Registry[d].region = assembly.laying.region
  BY UnlaidIs DEF BuildInv, LayingHolds, LayingIs, Fits, Awaited
<1> QED
  BY <1>1, <1>2, <1>3

LEMMA CopySourcesKeeps == BuildInv /\ CopySources => BuildInv'
<1> SUFFICES ASSUME BuildInv, CopySources PROVE BuildInv'
  OBVIOUS
<1> DEFINE laying == assembly.laying
<1> DEFINE floods == {"flood"} \cap {Registry[d].type : d \in Unlaid}
<1> DEFINE kept == WithoutTypes(assembly.tree, floods, laying.region)
<1> DEFINE files == ResolvedFiles
<1> DEFINE tree == Over(files, kept)
<1>1. AllStand /\ Lays("sources", "tsunami", tree, laying) /\ assembly.at = "sources"
  BY DEF CopySources, Lays
<1>2. /\ LayingShape(laying) /\ laying.region \in assembly.todo
      /\ LayingIs("sources", assembly.tree, laying)
  BY <1>1 DEF BuildInv, AssemblyShape, LayingHolds
<1>3. /\ \A p \in DOMAIN files : p.region = laying.region
      /\ \A d \in DOMAIN laying.files :
             Backend(d) \in DOMAIN files /\ files[Backend(d)] \in laying.files[d]
  BY <1>1, UnlaidIs, CopiesAreSeen, CopiesFit DEF Awaited
<1>4. /\ DOMAIN kept \subseteq DOMAIN assembly.tree
      /\ \A p \in DOMAIN assembly.tree : p.region # laying.region => p \in DOMAIN kept
      /\ \A p \in DOMAIN kept : kept[p] = assembly.tree[p]
  <2> HIDE DEF floods
  <2> QED
    BY DEF WithoutTypes
<1>5. /\ DOMAIN tree = DOMAIN files \cup DOMAIN kept
      /\ \A p \in DOMAIN files : tree[p] = files[p]
      /\ \A p \in DOMAIN kept \ DOMAIN files : tree[p] = kept[p]
  BY OverIs
<1> HIDE DEF kept, files, tree
<1>6. SameBut(laying.region, assembly.tree, tree)
  BY <1>3, <1>4, <1>5 DEF SameBut
<1>7. HoldsOf(laying, DOMAIN laying.files, tree)
  BY <1>3, <1>5 DEF HoldsOf
<1>8. LayingIs("tsunami", tree, laying)
  BY <1>2, <1>7 DEF LayingIs, HoldsOf, Refilled, Awaited
<1> QED
  BY <1>1, <1>2, <1>6, <1>8, LaysKeeps

LEMMA ResolveTsunamiKeeps == BuildInv /\ ResolveTsunami => BuildInv'
<1> SUFFICES ASSUME BuildInv, ResolveTsunami PROVE BuildInv'
  OBVIOUS
<1> DEFINE laying == assembly.laying
<1>1. Lays("tsunami", "wave", assembly.tree, laying) /\ assembly.at = "tsunami"
  BY DEF ResolveTsunami, Lays
<1>2. /\ LayingShape(laying) /\ laying.region \in assembly.todo
      /\ LayingIs("tsunami", assembly.tree, laying)
  BY <1>1 DEF BuildInv, AssemblyShape, LayingHolds
<1>3. LayingIs("wave", assembly.tree, laying)
  BY <1>2 DEF LayingIs, Awaited
<1>4. SameBut(laying.region, assembly.tree, assembly.tree)
  BY DEF SameBut
<1> QED
  BY <1>1, <1>2, <1>3, <1>4, LaysKeeps

\* Files of other types in the region leave what was resolved where it is.
LEMMA HoldsBeside ==
    ASSUME NEW laying, NEW datasets, NEW tree, NEW files, Fits(laying),
           datasets \subseteq DOMAIN laying.files,
           \A p \in DOMAIN files : /\ p.region = laying.region
                                   /\ p.side = "backend" => p.type \notin ResolvedTypes \cup OverlaidTypes,
           HoldsOf(laying, datasets, tree), Refilled(laying, tree)
    PROVE  /\ HoldsOf(laying, datasets, Over(files, tree)) /\ Refilled(laying, Over(files, tree))
           /\ SameBut(laying.region, tree, Over(files, tree))
<1> DEFINE new == Over(files, tree)
<1>1. /\ DOMAIN new = DOMAIN files \cup DOMAIN tree
      /\ \A p \in DOMAIN files : new[p] = files[p]
      /\ \A p \in DOMAIN tree \ DOMAIN files : new[p] = tree[p]
  BY OverIs
<1>2. \A d \in datasets : Backend(d) \notin DOMAIN files
  BY BackendIs DEF Fits
<1> HIDE DEF new
<1>3. HoldsOf(laying, datasets, new)
  BY <1>1, <1>2 DEF HoldsOf
<1>4. Refilled(laying, new)
  BY <1>1 DEF Refilled, Fits
<1>5. SameBut(laying.region, tree, new)
  BY <1>1 DEF SameBut
<1> QED
  BY <1>3, <1>4, <1>5 DEF new

LEMMA CopyTsunamiKeeps == BuildInv /\ CopyTsunami => BuildInv'
<1> SUFFICES ASSUME BuildInv, CopyTsunami PROVE BuildInv'
  OBVIOUS
<1> DEFINE laying == assembly.laying
<1> DEFINE files == FilesOf(TsunamiCopies(laying.region, "backend"))
<1> DEFINE tree == Over(files, assembly.tree)
<1>1. Lays("wave", "normalized", tree, laying) /\ assembly.at = "wave"
  BY DEF CopyTsunami, Lays
<1>2. /\ LayingShape(laying) /\ laying.region \in assembly.todo
      /\ LayingIs("wave", assembly.tree, laying)
  BY <1>1 DEF BuildInv, AssemblyShape, LayingHolds
<1>3. \A p \in DOMAIN files : p.region = laying.region /\ p.type \notin ResolvedTypes \cup OverlaidTypes
  BY AddedAre
<1>4. /\ Fits(laying) /\ HoldsOf(laying, DOMAIN laying.files, assembly.tree)
      /\ Refilled(laying, assembly.tree)
  <2>1. DOMAIN laying.files \ Awaited("wave", laying) = DOMAIN laying.files
    BY DEF Awaited
  <2> QED
    BY <1>2, <2>1 DEF LayingIs
<1> HIDE DEF files
<1>5. /\ HoldsOf(laying, DOMAIN laying.files, tree) /\ Refilled(laying, tree)
      /\ SameBut(laying.region, assembly.tree, tree)
  BY <1>3, <1>4, HoldsBeside
<1> HIDE DEF tree
<1>6. LayingIs("normalized", tree, laying)
  BY <1>2, <1>5 DEF LayingIs, HoldsOf, Awaited
<1> QED
  BY <1>1, <1>2, <1>5, <1>6, LaysKeeps

LEMMA LayNormalizedKeeps == BuildInv /\ LayNormalized => BuildInv'
<1> SUFFICES ASSUME BuildInv, LayNormalized PROVE BuildInv'
  OBVIOUS
<1> DEFINE was == assembly.laying
<1> DEFINE r == was.region
<1> DEFINE refilled == {type \in OverlaidTypes : HasNormalized(type, r)}
<1> DEFINE names == Held("normalized", Of(OverlaidTypes, r))
<1> DEFINE laying == [region |-> r, files |-> was.files, names |-> names, cleared |-> refilled]
<1> DEFINE files == NormalizedFiles(r)
<1> DEFINE kept == WithoutTypes(assembly.tree, refilled, r)
<1> DEFINE tree == Over(files, kept)
<1>1. Lays("normalized", "overlay", tree, laying) /\ assembly.at = "normalized"
  BY DEF LayNormalized, Lays
<1>2. /\ LayingShape(was) /\ r \in assembly.todo /\ LayingIs("normalized", assembly.tree, was)
  BY <1>1 DEF BuildInv, AssemblyShape, LayingHolds
<1>3. /\ laying.region = r /\ laying.files = was.files /\ laying.names = names
      /\ laying.cleared = refilled /\ LayingShape(laying)
  <2> HIDE DEF names, refilled
  <2> QED
    BY ShapeIs
<1>4. \A p \in DOMAIN files :
          /\ p.side = "backend" /\ p.region = r /\ p.type \in OverlaidTypes
          /\ p.type \in refilled => p.name \in names
  <2> SUFFICES ASSUME NEW p \in DOMAIN files
               PROVE  /\ p.side = "backend" /\ p.region = r /\ p.type \in OverlaidTypes
                      /\ p.type \in refilled => p.name \in names
    OBVIOUS
  <2>1. /\ p.side = "backend" /\ p.region = r /\ p.type \in OverlaidTypes
        /\ \/ \E d \in Of(OverlaidTypes, r) : lakeHolds.normalized[d] > 0 /\ p = Backend(d)
           \/ ~HasNormalized(p.type, r)
    BY NormalizedAre
  <2> QED
    BY <2>1, BackendIs DEF Held
<1>5. /\ DOMAIN kept = {q \in DOMAIN assembly.tree :
                          ~(q.side = "backend" /\ q.region = r /\ q.type \in refilled)}
      /\ \A p \in DOMAIN kept : kept[p] = assembly.tree[p]
  <2> HIDE DEF refilled
  <2> QED
    BY DEF WithoutTypes
<1>6. /\ DOMAIN tree = DOMAIN files \cup DOMAIN kept
      /\ \A p \in DOMAIN files : tree[p] = files[p]
      /\ \A p \in DOMAIN kept \ DOMAIN files : tree[p] = kept[p]
  BY OverIs
<1>7. refilled \subseteq OverlaidTypes
  OBVIOUS
<1> HIDE DEF laying, files, kept, tree, refilled, names
<1>8. SameBut(r, assembly.tree, tree)
  BY <1>4, <1>5, <1>6 DEF SameBut
<1>9. ASSUME NEW d \in DOMAIN was.files
      PROVE  Backend(d) \in DOMAIN tree /\ tree[Backend(d)] \in was.files[d]
  <2>1. Backend(d) \in DOMAIN assembly.tree /\ assembly.tree[Backend(d)] \in was.files[d]
    BY <1>2 DEF LayingIs, HoldsOf, Awaited
  <2>2. Backend(d).type \notin OverlaidTypes
    BY <1>2, BackendIs DEF LayingIs, ResolvedTypes, OverlaidTypes
  <2> QED
    BY <1>4, <1>5, <1>6, <1>7, <2>1, <2>2
<1>10. Refilled(laying, tree)
  BY <1>3, <1>4, <1>5, <1>6 DEF Refilled
<1>11. LayingIs("overlay", tree, laying)
  BY <1>2, <1>3, <1>7, <1>9, <1>10 DEF LayingIs, Fits, HoldsOf, Awaited
<1> QED
  BY <1>1, <1>2, <1>3, <1>8, <1>11, LaysKeeps

LEMMA ResolveOverlayKeeps == BuildInv /\ ResolveOverlay => BuildInv'
<1> SUFFICES ASSUME BuildInv, ResolveOverlay PROVE BuildInv'
  OBVIOUS
<1> DEFINE was == assembly.laying
<1> DEFINE r == was.region
<1> DEFINE more == VerifiedSources(OverlaidTypes, r)
<1> DEFINE files == Over(was.files, more)
<1> DEFINE names == was.names \cup Active(OverlaidTypes, r)
<1> DEFINE laying == [region |-> r, files |-> files, names |-> names, cleared |-> was.cleared]
<1>1. Lays("overlay", "overlaid", assembly.tree, laying) /\ assembly.at = "overlay"
  BY DEF ResolveOverlay, Lays
<1>2. /\ LayingShape(was) /\ r \in assembly.todo /\ LayingIs("overlay", assembly.tree, was)
  BY <1>1 DEF BuildInv, AssemblyShape, LayingHolds
<1>3. /\ laying.region = r /\ laying.files = files /\ laying.names = names
      /\ laying.cleared = was.cleared /\ LayingShape(laying)
  <2> HIDE DEF names, files
  <2> QED
    BY ShapeIs
<1>4. /\ DOMAIN more = Active(OverlaidTypes, r)
      /\ \A d \in DOMAIN more : more[d] = {Source(d)}
  BY DEF VerifiedSources
<1>5. \A d \in DOMAIN more : Registry[d].region = r /\ Registry[d].type \in OverlaidTypes
  BY <1>4 DEF Active, Of
<1>6. /\ DOMAIN files = DOMAIN was.files \cup DOMAIN more
      /\ \A d \in DOMAIN was.files : files[d] = was.files[d]
      /\ \A d \in DOMAIN more \ DOMAIN was.files : files[d] = more[d]
  BY OverIs
<1>7. was.names \subseteq names /\ Active(OverlaidTypes, r) \subseteq names
  OBVIOUS
<1> HIDE DEF laying, files, names, more
<1>8. \A d \in DOMAIN was.files : Registry[d].type \in ResolvedTypes /\ Registry[d].type \notin OverlaidTypes
  BY <1>2 DEF LayingIs, ResolvedTypes, OverlaidTypes
<1>9. Awaited("overlaid", laying) = DOMAIN more /\ DOMAIN files \ DOMAIN more = DOMAIN was.files
  BY <1>3, <1>5, <1>6, <1>8 DEF Awaited
<1>10. \A d \in DOMAIN more : files[d] = {Source(d)}
  BY <1>4, <1>6, <1>9
<1>11. HoldsOf(laying, DOMAIN was.files, assembly.tree)
  BY <1>2, <1>3, <1>6 DEF LayingIs, HoldsOf, Awaited
<1>12. Refilled(laying, assembly.tree) /\ Fits(laying)
  BY <1>2, <1>3, <1>5, <1>6, <1>7 DEF LayingIs, Refilled, Fits
<1>13. LayingIs("overlaid", assembly.tree, laying)
  BY <1>3, <1>4, <1>7, <1>9, <1>10, <1>11, <1>12 DEF LayingIs
<1>14. SameBut(r, assembly.tree, assembly.tree)
  BY DEF SameBut
<1> QED
  BY <1>1, <1>2, <1>3, <1>13, <1>14, LaysKeeps

LEMMA CopyOverlayKeeps == BuildInv /\ CopyOverlay => BuildInv'
<1> SUFFICES ASSUME BuildInv, CopyOverlay PROVE BuildInv'
  OBVIOUS
<1> DEFINE laying == assembly.laying
<1> DEFINE files == ResolvedFiles
<1> DEFINE tree == Over(files, assembly.tree)
<1>1. AllStand /\ Lays("overlaid", "rest", tree, laying) /\ assembly.at = "overlaid"
  BY DEF CopyOverlay, Overlaid, Lays
<1>2. /\ LayingShape(laying) /\ laying.region \in assembly.todo
      /\ LayingIs("overlaid", assembly.tree, laying)
  BY <1>1 DEF BuildInv, AssemblyShape, LayingHolds
<1>3. /\ \A p \in DOMAIN files : p.region = laying.region
      /\ \A p \in DOMAIN files : p.name \in Unlaid
      /\ \A d \in Unlaid : Backend(d) \in DOMAIN files /\ files[Backend(d)] \in laying.files[d]
  BY <1>1, CopiesAreSeen, CopiesFit
<1>4. /\ DOMAIN tree = DOMAIN files \cup DOMAIN assembly.tree
      /\ \A p \in DOMAIN files : tree[p] = files[p]
      /\ \A p \in DOMAIN assembly.tree \ DOMAIN files : tree[p] = assembly.tree[p]
  BY OverIs
<1> HIDE DEF files, tree
<1>5. SameBut(laying.region, assembly.tree, tree)
  BY <1>3, <1>4 DEF SameBut
<1>6. HoldsOf(laying, DOMAIN laying.files \ Unlaid, assembly.tree)
  BY <1>1, <1>2, UnlaidIs DEF LayingIs
<1>7. \A d \in DOMAIN laying.files \ Unlaid : Backend(d) \notin DOMAIN files
  BY <1>3, BackendIs
<1>8. HoldsOf(laying, DOMAIN laying.files, tree)
  BY <1>3, <1>4, <1>6, <1>7 DEF HoldsOf
<1>9. Refilled(laying, tree)
  <2>1. Refilled(laying, assembly.tree) /\ Unlaid \subseteq laying.names
    BY <1>1, <1>2, UnlaidIs DEF LayingIs
  <2> QED
    BY <1>3, <1>4, <2>1 DEF Refilled
<1>10. LayingIs("rest", tree, laying)
  BY <1>2, <1>8, <1>9 DEF LayingIs, HoldsOf, Awaited
<1> QED
  BY <1>1, <1>2, <1>5, <1>10, LaysKeeps

LEMMA FinishRegionKeeps == BuildInv /\ FinishRegion => BuildInv'
<1> SUFFICES ASSUME BuildInv, FinishRegion PROVE BuildInv'
  OBVIOUS
<1> DEFINE laying == assembly.laying
<1> DEFINE files == AddedFiles(laying.region)
<1> DEFINE tree == Over(files, assembly.tree)
<1>1. /\ assembly.at = "rest"
      /\ assembly' = [assembly EXCEPT !.at = "staging", !.laying = NothingLaid, !.tree = tree,
                                      !.todo = assembly.todo \ {laying.region},
                                      !.staged = assembly.staged \cup {laying}]
      /\ UNCHANGED <<lakeHolds, liveTree, accepted>>
  BY DEF FinishRegion
<1>2. laying.region \in assembly.todo /\ LayingIs("rest", assembly.tree, laying)
  BY <1>1 DEF BuildInv, LayingHolds
<1>3. /\ Fits(laying) /\ HoldsOf(laying, DOMAIN laying.files, assembly.tree)
      /\ Refilled(laying, assembly.tree)
  <2>1. DOMAIN laying.files \ Awaited("rest", laying) = DOMAIN laying.files
    BY DEF Awaited
  <2> QED
    BY <1>2, <2>1 DEF LayingIs
<1>4. \A p \in DOMAIN files :
          /\ p.region = laying.region
          /\ p.side = "backend" => p.type \notin ResolvedTypes \cup OverlaidTypes
  BY AddedAre
<1> HIDE DEF files
<1>5. /\ HoldsOf(laying, DOMAIN laying.files, tree) /\ Refilled(laying, tree)
      /\ SameBut(laying.region, assembly.tree, tree)
  BY <1>3, <1>4, HoldsBeside
<1> HIDE DEF tree
<1>6. /\ assembly'.at = "staging" /\ assembly'.todo = assembly.todo \ {laying.region}
      /\ assembly'.tree = tree /\ assembly'.staged = assembly.staged \cup {laying}
      /\ AssemblyShape'
  BY <1>1 DEF BuildInv, AssemblyShape, LayingShape, NothingLaid
<1>7. ASSUME NEW s \in assembly'.staged
      PROVE  Fits(s) /\ s.region \notin assembly'.todo /\ Holds(s, tree)
  <2>1. CASE s = laying
    BY <1>3, <1>5, <1>6, <2>1 DEF Holds
  <2>2. CASE s \in assembly.staged
    <3>1. Fits(s) /\ s.region \notin assembly.todo /\ Holds(s, assembly.tree)
      BY <2>2 DEF BuildInv, StagedHolds
    <3>2. \A p : p.side = "backend" /\ p.region = s.region =>
                      /\ p \in DOMAIN tree <=> p \in DOMAIN assembly.tree
                      /\ p \in DOMAIN assembly.tree => tree[p] = assembly.tree[p]
      BY <1>2, <1>5, <3>1 DEF SameBut
    <3>3. Holds(s, tree)
      BY <3>1, <3>2, HoldsElsewhere
    <3> QED
      BY <1>6, <3>1, <3>3
  <2> QED
    BY <1>6, <2>1, <2>2
<1>8. StagedHolds'
  BY <1>6, <1>7 DEF StagedHolds, Fits, Holds, HoldsOf, Refilled
<1>9. LayingHolds'
  BY <1>6 DEF LayingHolds
<1>10. PublishedIsResolved'
  BY <1>1 DEF BuildInv, PublishedIsResolved
<1> QED
  BY <1>6, <1>8, <1>9, <1>10 DEF BuildInv

\* What takes the place of a file that is awaited is seen; the others are not looked at.
LEMMA FileChangesKeeps == BuildInv /\ FileChanges => BuildInv'
<1> SUFFICES ASSUME BuildInv, FileChanges PROVE BuildInv'
  OBVIOUS
<1> DEFINE was == assembly.laying
<1> DEFINE files == [d \in DOMAIN was.files |->
                       was.files[d] \cup {n \in {Source(d)'} : d \in Unlaid /\ n > 0}]
<1> DEFINE laying == [was EXCEPT !.files = files]
<1>1. /\ assembly' = [assembly EXCEPT !.laying.files = files]
      /\ UNCHANGED <<liveTree, accepted>>
  BY DEF FileChanges, LakeChange
<1>2. /\ DOMAIN files = DOMAIN was.files
      /\ \A d \in DOMAIN files : was.files[d] \subseteq files[d]
      /\ \A d \in Unlaid \cap DOMAIN files : Source(d)' > 0 => Source(d)' \in files[d]
  OBVIOUS
<1> HIDE DEF files
<1>3. /\ laying.region = was.region /\ laying.files = files /\ laying.names = was.names
      /\ laying.cleared = was.cleared /\ LayingShape(laying)
  BY DEF BuildInv, AssemblyShape, LayingShape
<1>4. /\ assembly'.at = assembly.at /\ assembly'.todo = assembly.todo /\ assembly'.tree = assembly.tree
      /\ assembly'.staged = assembly.staged /\ assembly'.laying = laying /\ AssemblyShape'
  BY <1>1, <1>3 DEF BuildInv, AssemblyShape, LayingShape
<1> HIDE DEF laying
<1>5. StagedHolds' /\ PublishedIsResolved'
  BY <1>1, <1>4 DEF BuildInv, StagedHolds, Fits, Holds, HoldsOf, Refilled, PublishedIsResolved
<1>6. ASSUME assembly.at \notin {"idle", "staging"}
      PROVE  /\ laying.region \in assembly.todo /\ Fits(laying) /\ Refilled(laying, assembly.tree)
             /\ \A d \in Awaited(assembly.at, laying) : Source(d)' > 0 => Source(d)' \in laying.files[d]
             /\ HoldsOf(laying, DOMAIN laying.files \ Awaited(assembly.at, laying), assembly.tree)
             /\ assembly.at \in {"sources", "tsunami", "wave", "normalized", "overlay"} =>
                  \A d \in DOMAIN laying.files : Registry[d].type \in ResolvedTypes
             /\ assembly.at \in {"sources", "tsunami", "wave", "normalized"} => laying.cleared = {}
             /\ assembly.at = "overlaid" => Awaited(assembly.at, laying) \subseteq laying.names
  <2>1. was.region \in assembly.todo /\ LayingIs(assembly.at, assembly.tree, was)
    BY <1>6 DEF BuildInv, LayingHolds
  <2>2. Awaited(assembly.at, laying) = Awaited(assembly.at, was) /\ Unlaid = Awaited(assembly.at, was)
    BY <1>2, <1>3, UnlaidIs DEF Awaited
  <2>3. \A d \in Awaited(assembly.at, laying) : Source(d)' > 0 => Source(d)' \in laying.files[d]
    BY <1>2, <1>3, <2>2 DEF Awaited
  <2>4. HoldsOf(laying, DOMAIN laying.files \ Awaited(assembly.at, laying), assembly.tree)
    BY <1>2, <1>3, <2>1, <2>2 DEF LayingIs, HoldsOf
  <2>5. Fits(laying) /\ Refilled(laying, assembly.tree)
    BY <1>2, <1>3, <2>1 DEF LayingIs, Fits, Refilled
  <2> QED
    BY <1>2, <1>3, <2>1, <2>2, <2>3, <2>4, <2>5 DEF LayingIs
<1>7. LayingHolds'
  BY <1>4, <1>6 DEF LayingHolds, LayingIs, Fits, HoldsOf, Refilled, Awaited, Source
<1> QED
  BY <1>4, <1>5, <1>7 DEF BuildInv

LEMMA EndAssemblyKeeps == BuildInv /\ EndAssembly => BuildInv'
<1> SUFFICES ASSUME BuildInv, EndAssembly PROVE BuildInv'
  OBVIOUS
<1> DEFINE tree == WithRecords(assembly.tree)
<1>1. /\ assembly' = NoAssembly
      /\ \/ liveTree' = tree /\ accepted' = assembly.staged
         \/ UNCHANGED <<liveTree, accepted>>
  BY DEF EndAssembly
<1>2. ASSUME NEW s \in assembly.staged PROVE Holds(s, tree)
  <2>1. Fits(s) /\ Holds(s, assembly.tree)
    BY DEF BuildInv, StagedHolds
  <2>2. \A p : p.side = "backend" /\ p.region = s.region =>
                   /\ p \in DOMAIN tree <=> p \in DOMAIN assembly.tree
                   /\ p \in DOMAIN assembly.tree => tree[p] = assembly.tree[p]
    BY RecordsAre
  <2> HIDE DEF tree
  <2> QED
    BY <2>1, <2>2, HoldsElsewhere
<1> HIDE DEF tree
<1>3. PublishedIsResolved'
  BY <1>1, <1>2 DEF BuildInv, PublishedIsResolved, Holds, HoldsOf, Refilled
<1> QED
  BY <1>1, <1>3, NoAssemblyIs DEF BuildInv

LEMMA BuildInvStep == BuildInv /\ [BuildNext]_buildVars => BuildInv'
<1> SUFFICES ASSUME BuildInv, [BuildNext]_buildVars PROVE BuildInv'
  OBVIOUS
<1>1. ASSUME UNCHANGED <<lakeHolds, liveTree, assembly, accepted>> PROVE BuildInv'
  BY <1>1 DEF BuildInv, AssemblyShape, LayingShape, StagedHolds, LayingHolds, LayingIs, Fits, Holds,
              HoldsOf, Refilled, Awaited, Source, PublishedIsResolved
<1>2. CASE \E d \in DOMAIN Registry : LakeGrows(d) \/ LakeLoses(d) \/ MapDataset(d)
  BY <1>1, <1>2, FileChangesKeeps DEF LakeGrows, LakeLoses, MapDataset, LakeChange
<1>3. ASSUME NEW asked, NEW migrate, NEW afresh, BeginAssembly(asked, migrate, afresh)
      PROVE  BuildInv'
  BY <1>3 DEF BeginAssembly, BuildInv, AssemblyShape, LayingShape, NothingLaid, StagedHolds,
              LayingHolds, PublishedIsResolved
<1>4. CASE ConsoleBuild \/ CommandBuild
  BY <1>3, <1>4 DEF ConsoleBuild, CommandBuild
<1>5. CASE RegionFails
  BY <1>5, NoAssemblyIs DEF RegionFails, BuildInv, PublishedIsResolved
<1>6. CASE \E r \in Regions : ResolveSources(r)
  BY <1>6, ResolveSourcesKeeps
<1>7. CASE CopySources \/ ResolveTsunami \/ CopyTsunami \/ LayNormalized
           \/ ResolveOverlay \/ CopyOverlay \/ FinishRegion
  BY <1>7, CopySourcesKeeps, ResolveTsunamiKeeps, CopyTsunamiKeeps, LayNormalizedKeeps,
     ResolveOverlayKeeps, CopyOverlayKeeps, FinishRegionKeeps
<1>8. CASE UNCHANGED buildVars
  BY <1>1, <1>8 DEF buildVars
<1> QED
  BY <1>2, <1>4, <1>5, <1>6, <1>7, <1>8, EndAssemblyKeeps DEF BuildNext

\* For every registry and however many publishes, ingests and mappings interleave, before, between
\* and after the commands that resolve and those that copy: a version holds, for each dataset that
\* was active in the regions it was made for, the file that was found validated when it was
\* resolved or one that took its place before it was copied, and nothing is left over in the
\* directories that are refilled.
THEOREM VersionsHoldTheResolved == BuildSpec => []PublishedIsResolved
<1>1. BuildInv => PublishedIsResolved
  BY DEF BuildInv
<1> QED
  BY <1>1, BuildInvInit, BuildInvStep, PTL DEF BuildSpec

-----------------------------------------------------------------------------
(* The mirror                                                              *)


FromPaths == {m.from : m \in Migrated}
Plans == [rel : Rels, sha : Contents]
Jobs == [kind : {"none", "deploy", "apply", "rollback"}, version : Versions \cup {NoTree},
         staging : Tree, frontend : BOOLEAN, todo : SUBSET (Rels \cup Plans),
         place : SUBSET Plans, remove : SUBSET Plans, moved : BOOLEAN, unknown : BOOLEAN]
Stages == {"idle", "assembled", "staged", "retire", "sync", "prepare", "switched", "unhome",
           "place"}

MirrorType ==
    /\ shelf \in [Versions -> Tree \cup {NoTree, Gone}]
    /\ current \in Shelved
    /\ mirror \in [Rels -> Files] /\ temp \in Tree
    /\ pc \in [Operators -> Stages] /\ job \in [Operators -> Jobs]
    /\ exit \in [Operators -> Codes]
    /\ strayed \in BOOLEAN /\ overlapped \in BOOLEAN
    /\ provenance \in [Rels -> SUBSET (Contents \cup {Absent})]

\* Where a script may be, by its kind, and what it has to do there.
JobFits(o) ==
    /\ pc[o] = "idle" => job[o] = NoJob
    /\ pc[o] # "idle" => job[o].version \in Versions
    /\ pc[o] \in {"assembled", "staged", "retire", "sync"} => job[o].kind = "deploy"
    /\ pc[o] \in {"prepare", "unhome", "place"} => job[o].kind \in {"apply", "rollback"}
    /\ pc[o] = "switched" => job[o].kind = "rollback"
    /\ pc[o] = "staged" => \A s \in FromPaths : job[o].staging[s] = Absent
    /\ pc[o] \in {"retire", "sync"} => job[o].todo \subseteq Rels
    /\ pc[o] \in {"prepare", "switched", "unhome", "place"} => job[o].todo \subseteq Plans
    /\ \A f \in job[o].remove : f.sha \in provenance[f.rel]

OneFile(tree) ==
    \A r, s \in Rels :
        r # s /\ TilesetOf[r] = TilesetOf[s] => tree[r] = Absent \/ tree[s] = Absent

\* A version has one file of a tileset; at a path that was left, only what the records name;
\* and nothing that is not remembered.
TreeFits(tree) ==
    /\ OneFile(tree)
    /\ \A s \in FromPaths : tree[s] \in Recorded(s) \cup {Absent}
    /\ \A r \in Rels : tree[r] \in provenance[r]

\* A plan covers all by which the mirror differs from the version.
Covers(j, open) ==
    /\ \A r \in Tiles(j.version) :
           mirror[r] = shelf[j.version][r] \/ [rel |-> r, sha |-> shelf[j.version][r]] \in open
    /\ \A r \in Rels \ Tiles(j.version) :
           mirror[r] = Absent \/ [rel |-> r, sha |-> mirror[r]] \in j.remove \/ j.unknown
    /\ \A f \in j.place : f.rel \in Tiles(j.version) /\ f.sha = shelf[j.version][f.rel]
    /\ \A f \in j.remove : f.rel \notin Tiles(j.version) /\ mirror[f.rel] = f.sha
    /\ open \subseteq j.place
    /\ j.unknown => strayed
Prepared(files) == \A f \in files : temp[f.rel] = f.sha

\* How far a script has come that runs alone.
DeployAlone(o) ==
    /\ pc[o] \in {"assembled", "staged"} => shelf[job[o].version] = NoTree
    /\ pc[o] \in {"retire", "sync"} =>
           \A s \in FromPaths :
               /\ shelf[current][s] = Absent
               /\ ~strayed /\ (pc[o] = "retire" => s \notin job[o].todo) => mirror[s] = Absent
RepairAlone(o) ==
    LET j == job[o] IN
    /\ pc[o] = "prepare" /\ j.version \in Shelved =>
           /\ Covers(j, j.place) /\ j.todo \subseteq j.place /\ Prepared(j.place \ j.todo)
           /\ j.kind = "apply" => j.version = current
    /\ pc[o] = "switched" => j.version = current /\ Covers(j, j.place) /\ Prepared(j.place)
    /\ pc[o] \in {"unhome", "place"} =>
           j.version = current /\ Covers(j, j.todo) /\ Prepared(j.todo)
    /\ pc[o] = "place" => MovingFiles(j) = {}

AloneInv ==
    /\ \A o, p \in Operators : pc[o] # "idle" /\ pc[p] # "idle" => o = p
    /\ \A o \in Operators : DeployAlone(o) /\ RepairAlone(o)
    /\ ~strayed => OneFile(mirror) /\ \A r \in Rels : mirror[r] \in Known(r) \cup {Absent}

MirrorInv ==
    /\ MirrorType
    /\ \A r \in Rels : Recorded(r) \subseteq provenance[r]
    /\ \A v \in Shelved : TreeFits(shelf[v])
    /\ \A o \in Operators : JobFits(o)
    /\ ~overlapped => AloneInv

-----------------------------------------------------------------------------
(* Jobs                                                                    *)

LEMMA NoJobIs ==
    /\ NoJob \in Jobs /\ NoJob.kind = "none" /\ NoJob.remove = {} /\ NoJob.todo = {}
    /\ EmptyTree \in Tree
<1>1. EmptyTree \in Tree
  BY DEF EmptyTree, Tree
<1> QED
  BY <1>1 DEF NoJob, Jobs

\* What changes of a job in a step, and what does not.
LEMMA TodoIs ==
    ASSUME NEW j \in Jobs, NEW S \in SUBSET (Rels \cup Plans)
    PROVE  LET k == [j EXCEPT !.todo = S]
           IN  /\ k \in Jobs /\ k.todo = S /\ k.kind = j.kind /\ k.version = j.version
               /\ k.place = j.place /\ k.remove = j.remove /\ k.unknown = j.unknown
               /\ k.staging = j.staging
  BY DEF Jobs

LEMMA StagingIs ==
    ASSUME NEW j \in Jobs, NEW t \in Tree
    PROVE  LET k == [j EXCEPT !.staging = t]
           IN  /\ k \in Jobs /\ k.staging = t /\ k.kind = j.kind /\ k.version = j.version
               /\ k.remove = j.remove /\ k.todo = j.todo
  BY DEF Jobs

LEMMA RemoveIs ==
    ASSUME NEW j \in Jobs, NEW S \in SUBSET Plans, NEW b \in BOOLEAN
    PROVE  LET k == [j EXCEPT !.remove = S, !.moved = b]
           IN  /\ k \in Jobs /\ k.remove = S /\ k.kind = j.kind /\ k.version = j.version
               /\ k.place = j.place /\ k.todo = j.todo /\ k.unknown = j.unknown
  BY DEF Jobs

LEMMA RecordedIs == \A r \in Rels : Recorded(r) \subseteq Contents
  BY RecordAssumption DEF Recorded, Moves

LEMMA ShelvedIs ==
    MirrorType => /\ \A v \in Shelved : v \in Versions /\ shelf[v] \in Tree
                  /\ \A v \in Versions : shelf[v] \in Tree => v \in Shelved
  BY RecordAssumption DEF MirrorType, Shelved, Tree

\* What a plan finds to be placed and to be removed.
LEMMA PlansAre ==
    ASSUME MirrorType, NEW v \in Shelved
    PROVE  PlanPlace(v) \subseteq Plans /\ PlanRemove(v) \subseteq Plans
<1>1. shelf[v] \in Tree
  BY ShelvedIs
<1>2. PlanPlace(v) \subseteq Plans
  BY <1>1 DEF PlanPlace, Plans, Tiles, Tree
<1>3. ASSUME NEW r \in Rels, mirror[r] \in Known(r) \ {Absent} PROVE mirror[r] \in Contents
  <2>1. \A w \in Shelved : shelf[w] \in Tree
    BY ShelvedIs
  <2>2. \A w \in Shelved : shelf[w][r] \in Contents \cup {Absent}
    BY <2>1 DEF Tree
  <2>3. Recorded(r) \subseteq Contents
    BY RecordedIs
  <2> QED
    BY <1>3, <2>2, <2>3 DEF Known
<1>4. PlanRemove(v) \subseteq Plans
  BY <1>3 DEF PlanRemove, Plans
<1> QED
  BY <1>2, <1>4

LEMMA PlannedIs ==
    ASSUME MirrorType, NEW j \in Jobs, j.version \in Shelved
    PROVE  /\ Planned(j) \in Jobs /\ Planned(j).kind = j.kind /\ Planned(j).version = j.version
           /\ Planned(j).todo = PlanPlace(j.version) /\ Planned(j).place = PlanPlace(j.version)
           /\ Planned(j).remove = PlanRemove(j.version)
           /\ Planned(j).unknown = (PlanUnknown(j.version) # {})
<1>1. PlanPlace(j.version) \in SUBSET Plans /\ PlanRemove(j.version) \in SUBSET Plans
      /\ (PlanUnknown(j.version) # {}) \in BOOLEAN
  BY PlansAre
<1> DEFINE P == PlanPlace(j.version)
<1> DEFINE R == PlanRemove(j.version)
<1> DEFINE b == PlanUnknown(j.version) # {}
<1>2. Planned(j) = [j EXCEPT !.todo = P, !.place = P, !.remove = R, !.unknown = b]
  BY DEF Planned
<1>3. P \in SUBSET Plans /\ R \in SUBSET Plans /\ b \in BOOLEAN
  BY <1>1
<1> HIDE DEF P, R, b
<1>4. CASE b
  <2>1. b = TRUE
    BY <1>4
  <2>2. Planned(j) = [j EXCEPT !.todo = P, !.place = P, !.remove = R, !.unknown = TRUE]
    BY <1>2, <2>1, Zenon
  <2>3. /\ Planned(j) \in Jobs /\ Planned(j).kind = j.kind /\ Planned(j).version = j.version
        /\ Planned(j).todo = P /\ Planned(j).place = P /\ Planned(j).remove = R
        /\ Planned(j).unknown = TRUE
    BY <1>3, <2>2 DEF Jobs
  <2> QED
    BY <1>4, <2>3 DEF P, R, b
<1>5. CASE ~b
  <2>1. b = FALSE
    BY <1>5
  <2>2. Planned(j) = [j EXCEPT !.todo = P, !.place = P, !.remove = R, !.unknown = FALSE]
    BY <1>2, <2>1, Zenon
  <2>3. /\ Planned(j) \in Jobs /\ Planned(j).kind = j.kind /\ Planned(j).version = j.version
        /\ Planned(j).todo = P /\ Planned(j).place = P /\ Planned(j).remove = R
        /\ Planned(j).unknown = FALSE
    BY <1>3, <2>2 DEF Jobs
  <2> QED
    BY <1>5, <2>3 DEF P, R, b
<1> QED
  BY <1>4, <1>5

\* A plan covers the differences of the moment, if nothing strayed knows all that is there.
LEMMA PlanCovers ==
    ASSUME MirrorType, NEW j \in Jobs, j.version \in Shelved,
           ~strayed => \A r \in Rels : mirror[r] \in Known(r) \cup {Absent}
    PROVE  Covers(Planned(j), Planned(j).place)
<1> DEFINE k == Planned(j)
<1> DEFINE v == j.version
<1>1. k.version = v /\ k.place = PlanPlace(v) /\ k.remove = PlanRemove(v)
      /\ k.unknown = (PlanUnknown(v) # {})
  BY PlannedIs
<1> HIDE DEF k
<1>2. \A r \in Tiles(v) : mirror[r] = shelf[v][r] \/ [rel |-> r, sha |-> shelf[v][r]] \in k.place
  BY <1>1 DEF PlanPlace
<1>3. \A r \in Rels \ Tiles(v) :
          mirror[r] = Absent \/ [rel |-> r, sha |-> mirror[r]] \in k.remove \/ k.unknown
  BY <1>1 DEF PlanRemove, PlanUnknown
<1>4. \A f \in k.place : f.rel \in Tiles(v) /\ f.sha = shelf[v][f.rel]
  BY <1>1 DEF PlanPlace
<1>5. \A f \in k.remove : f.rel \notin Tiles(v) /\ mirror[f.rel] = f.sha
  BY <1>1 DEF PlanRemove
<1>6. k.unknown => strayed
  BY <1>1 DEF PlanUnknown
<1> QED
  BY <1>1, <1>2, <1>3, <1>4, <1>5, <1>6 DEF Covers, k

\* What a plan removes has been recorded or published.
LEMMA RemovedIsRecorded ==
    ASSUME MirrorInv, NEW v \in Shelved
    PROVE  \A f \in PlanRemove(v) : f.sha \in provenance[f.rel]
<1>1. \A r \in Rels : Known(r) \subseteq provenance[r]
  BY DEF MirrorInv, TreeFits, Known
<1> QED
  BY <1>1 DEF PlanRemove

-----------------------------------------------------------------------------
(* Frames                                                                  *)

LEMMA ContinueIs ==
    ASSUME MirrorType, NEW o \in Operators, NEW at \in Stages, NEW j \in Jobs, Continue(o, at, j)
    PROVE  /\ pc' \in [Operators -> Stages] /\ job' \in [Operators -> Jobs]
           /\ exit' \in [Operators -> Codes] /\ overlapped' = overlapped
           /\ pc'[o] = at /\ job'[o] = j
           /\ \A p \in Operators \ {o} : pc'[p] = pc[p] /\ job'[p] = job[p]
  BY DEF MirrorType, Continue

LEMMA EndIs ==
    ASSUME MirrorType, NEW o \in Operators, NEW code \in Codes, End(o, code)
    PROVE  /\ pc' \in [Operators -> Stages] /\ job' \in [Operators -> Jobs]
           /\ exit' \in [Operators -> Codes] /\ overlapped' = overlapped
           /\ pc'[o] = "idle" /\ job'[o] = NoJob
           /\ \A p \in Operators \ {o} : pc'[p] = pc[p] /\ job'[p] = job[p]
  BY NoJobIs DEF MirrorType, End, Stages

\* Whoever steps while others rest need only look at its own job.
LEMMA StepKeeps ==
    ASSUME MirrorInv, NEW o \in Operators, pc[o] # "idle", MirrorType', JobFits(o)',
           \A r \in Rels : provenance[r] \subseteq provenance'[r],
           \A v \in Shelved' : TreeFits(shelf[v])', overlapped' = overlapped,
           \A p \in Operators \ {o} : pc'[p] = pc[p] /\ job'[p] = job[p],
           ~overlapped =>
               /\ DeployAlone(o)' /\ RepairAlone(o)'
               /\ ~strayed' => OneFile(mirror)'
                               /\ \A r \in Rels : mirror'[r] \in Known(r)' \cup {Absent}
    PROVE  MirrorInv'
<1>1. \A r \in Rels : Recorded(r) \subseteq provenance'[r]
  BY DEF MirrorInv
<1>2. ASSUME NEW p \in Operators PROVE JobFits(p)'
  <2>1. CASE p = o
    BY <2>1
  <2>2. CASE p # o
    <3>1. JobFits(p) /\ pc'[p] = pc[p] /\ job'[p] = job[p] /\ job[p] \in Jobs
      BY <2>2 DEF MirrorInv, MirrorType
    <3>2. \A f \in job[p].remove : f.rel \in Rels
      BY <3>1 DEF Jobs, Plans
    <3> QED
      BY <3>1, <3>2 DEF JobFits
  <2> QED
    BY <2>1, <2>2
<1>3. ~overlapped' => AloneInv'
  <2> SUFFICES ASSUME ~overlapped PROVE AloneInv'
    OBVIOUS
  <2>1. \A p \in Operators \ {o} : pc'[p] = "idle"
    BY DEF MirrorInv, AloneInv
  <2>2. \A p \in Operators : DeployAlone(p)' /\ RepairAlone(p)'
    BY <2>1 DEF DeployAlone, RepairAlone
  <2> QED
    BY <2>1, <2>2 DEF AloneInv
<1> QED
  BY <1>1, <1>2, <1>3 DEF MirrorInv

LEMMA EndKeeps ==
    ASSUME MirrorInv, NEW o \in Operators, NEW code \in Codes, pc[o] # "idle", End(o, code),
           UNCHANGED <<shelf, mirror, strayed, provenance>>, current' \in Shelved, temp' \in Tree
    PROVE  MirrorInv'
<1>1. MirrorType
  BY DEF MirrorInv
<1>2. MirrorType'
  BY <1>1, EndIs DEF MirrorType, Shelved
<1>3. pc'[o] = "idle" /\ job'[o] = NoJob
  BY <1>1, EndIs
<1>4. JobFits(o)'
  BY <1>3, NoJobIs DEF JobFits
<1>5. \A v \in Shelved' : TreeFits(shelf[v])'
  BY DEF MirrorInv, Shelved, TreeFits, OneFile
<1>6. DeployAlone(o)' /\ RepairAlone(o)'
  BY <1>3 DEF DeployAlone, RepairAlone
<1>7. ASSUME ~overlapped, ~strayed'
      PROVE  OneFile(mirror)' /\ \A r \in Rels : mirror'[r] \in Known(r)' \cup {Absent}
  BY <1>7 DEF MirrorInv, AloneInv, OneFile, Known, Shelved
<1> QED
  BY <1>1, <1>2, <1>4, <1>5, <1>6, <1>7, StepKeeps, EndIs

\* A script that starts while others run is not looked at any further.
LEMMA StartKeeps ==
    ASSUME MirrorInv, NEW o \in Operators, NEW at \in Stages, NEW j \in Jobs, Start(o, at, j),
           UNCHANGED <<mirrorVars, strayed, provenance>>, JobFits(o)',
           ~overlapped => DeployAlone(o)' /\ RepairAlone(o)'
    PROVE  MirrorInv'
<1>1. /\ pc[o] = "idle" /\ pc' = [pc EXCEPT ![o] = at] /\ job' = [job EXCEPT ![o] = j]
      /\ exit' = [exit EXCEPT ![o] = "none"]
      /\ overlapped' = (overlapped \/ \E p \in Operators \ {o} : pc[p] # "idle")
      /\ UNCHANGED <<shelf, current, mirror, temp, strayed, provenance>>
  BY DEF Start, mirrorVars
<1>2. MirrorType
  BY DEF MirrorInv
<1>3. MirrorType'
  BY <1>1, <1>2 DEF MirrorType, Shelved, Codes
<1>4. \A v \in Shelved' : TreeFits(shelf[v])'
  BY <1>1 DEF MirrorInv, Shelved, TreeFits, OneFile
<1>5. \A p \in Operators \ {o} : pc'[p] = pc[p] /\ job'[p] = job[p]
  BY <1>1, <1>2 DEF MirrorType
<1>6. ASSUME NEW p \in Operators PROVE JobFits(p)'
  <2>1. CASE p = o
    BY <2>1
  <2>2. CASE p # o
    BY <1>1, <1>5, <2>2 DEF MirrorInv, JobFits
  <2> QED
    BY <2>1, <2>2
<1>7. ASSUME ~overlapped' PROVE AloneInv'
  <2>1. ~overlapped /\ \A p \in Operators \ {o} : pc'[p] = "idle"
    BY <1>1, <1>5, <1>7
  <2>2. \A p \in Operators : DeployAlone(p)' /\ RepairAlone(p)'
    BY <2>1 DEF DeployAlone, RepairAlone
  <2>3. ~strayed' => OneFile(mirror)' /\ \A r \in Rels : mirror'[r] \in Known(r)' \cup {Absent}
    BY <1>1, <2>1 DEF MirrorInv, AloneInv, OneFile, Known, Shelved
  <2> QED
    BY <2>1, <2>2, <2>3 DEF AloneInv
<1> QED
  BY <1>1, <1>3, <1>4, <1>6, <1>7 DEF MirrorInv

-----------------------------------------------------------------------------
(* The steps of a deploy                                                   *)

LEMMA StartDeployKeeps ==
    \A o \in Operators, v \in Versions, built \in Tree, frontend \in BOOLEAN :
        MirrorInv /\ StartDeploy(o, v, built, frontend) => MirrorInv'
<1> SUFFICES ASSUME NEW o \in Operators, NEW v \in Versions, NEW built \in Tree,
                    NEW frontend \in BOOLEAN, MirrorInv, StartDeploy(o, v, built, frontend)
             PROVE  MirrorInv'
  OBVIOUS
<1> DEFINE t == [r \in Rels |-> IF built[r] # Absent THEN built[r] ELSE shelf[current][r]]
<1> DEFINE j == [NoJob EXCEPT !.kind = "deploy", !.version = v, !.frontend = frontend,
                              !.staging = t]
<1>1. /\ shelf[v] = NoTree /\ Start(o, "assembled", j)
      /\ UNCHANGED <<mirrorVars, strayed, provenance>>
  BY DEF StartDeploy
<1>2. MirrorType
  BY DEF MirrorInv
<1>3. t \in Tree
  <2>1. shelf[current] \in Tree
    BY <1>2, ShelvedIs DEF MirrorType
  <2> QED
    BY <2>1 DEF Tree
<1> HIDE DEF t
<1>4. j \in Jobs /\ j.kind = "deploy" /\ j.version = v /\ j.remove = {}
  BY <1>3, NoJobIs DEF Jobs
<1> HIDE DEF j
<1>5. pc'[o] = "assembled" /\ job'[o] = j
  BY <1>1, <1>2 DEF Start, MirrorType
<1>6. JobFits(o)' /\ DeployAlone(o)' /\ RepairAlone(o)'
  BY <1>1, <1>4, <1>5 DEF JobFits, DeployAlone, RepairAlone, mirrorVars
<1> QED
  BY <1>1, <1>4, <1>6, StartKeeps DEF Stages

\* No path that was left is in what is published.
LEMMA ApplyStagingKeeps == \A o \in Operators : MirrorInv /\ ApplyStaging(o) => MirrorInv'
<1> SUFFICES ASSUME NEW o \in Operators, MirrorInv, ApplyStaging(o) PROVE MirrorInv'
  OBVIOUS
<1> DEFINE kept == [r \in Rels |-> IF Retired[r] # {} THEN Absent ELSE job[o].staging[r]]
<1> DEFINE old == {m \in Migrated : kept[m.from] # Absent}
<1> DEFINE t == [r \in Rels |-> IF \E m \in old : m.from = r THEN Absent ELSE kept[r]]
<1> DEFINE j == [job[o] EXCEPT !.staging = t]
<1>1. /\ pc[o] = "assembled" /\ (End(o, "failed") \/ Continue(o, "staged", j))
      /\ UNCHANGED <<shelf, current, mirror, temp, strayed, provenance>>
  BY DEF ApplyStaging, mirrorVars
<1>2. MirrorType /\ JobFits(o) /\ job[o] \in Jobs
  BY DEF MirrorInv, MirrorType
<1>3. CASE End(o, "failed")
  BY <1>1, <1>2, <1>3, EndKeeps DEF MirrorType, Codes
<1>4. CASE Continue(o, "staged", j)
  <2>1. kept \in Tree
    BY <1>2 DEF Jobs, Tree
  <2>2. t \in Tree
    BY <2>1 DEF Tree
  <2>3. \A s \in FromPaths : t[s] = Absent
    BY RecordAssumption DEF FromPaths, Moves
  <2> HIDE DEF t, kept, old
  <2>4. j \in Jobs /\ j.staging = t /\ j.kind = job[o].kind /\ j.version = job[o].version
        /\ j.remove = job[o].remove
    BY <1>2, <2>2, StagingIs
  <2> HIDE DEF j
  <2>5. /\ pc'[o] = "staged" /\ job'[o] = j /\ overlapped' = overlapped
        /\ \A p \in Operators \ {o} : pc'[p] = pc[p] /\ job'[p] = job[p]
    BY <1>2, <1>4, <2>4, ContinueIs DEF Stages
  <2>6. MirrorType'
    BY <1>1, <1>2, <1>4, <2>4, ContinueIs DEF MirrorType, Stages, Shelved
  <2>7. JobFits(o)'
    BY <1>1, <1>2, <2>3, <2>4, <2>5 DEF JobFits
  <2>8. \A v \in Shelved' : TreeFits(shelf[v])'
    BY <1>1 DEF MirrorInv, Shelved, TreeFits, OneFile
  <2>9. ASSUME ~overlapped
        PROVE  /\ DeployAlone(o)' /\ RepairAlone(o)'
               /\ ~strayed' => OneFile(mirror)'
                               /\ \A r \in Rels : mirror'[r] \in Known(r)' \cup {Absent}
    <3>1. shelf[job[o].version] = NoTree
      BY <1>1, <2>9 DEF MirrorInv, AloneInv, DeployAlone
    <3>2. DeployAlone(o)' /\ RepairAlone(o)'
      BY <1>1, <2>4, <2>5, <3>1 DEF DeployAlone, RepairAlone
    <3> QED
      BY <1>1, <2>9, <3>2 DEF MirrorInv, AloneInv, OneFile, Known, Shelved
  <2> QED
    BY <1>1, <2>5, <2>6, <2>7, <2>8, <2>9, StepKeeps
<1> QED
  BY <1>1, <1>3, <1>4

LEMMA ActivateKeeps ==
    \A o \in Operators, durable \in BOOLEAN : MirrorInv /\ Activate(o, durable) => MirrorInv'
<1> SUFFICES ASSUME NEW o \in Operators, NEW durable \in BOOLEAN, MirrorInv, Activate(o, durable)
             PROVE  MirrorInv'
  OBVIOUS
<1> DEFINE v == job[o].version
<1> DEFINE t == job[o].staging
<1> DEFINE j == [job[o] EXCEPT !.todo = RetirementPaths]
<1>1. /\ pc[o] = "staged" /\ shelf' = [shelf EXCEPT ![v] = t] /\ current' = v
      /\ provenance' = [r \in Rels |-> provenance[r] \cup {t[r]}]
      /\ End(o, "durability_unknown") \/ End(o, "ok") \/ Continue(o, "retire", j)
      /\ UNCHANGED <<mirror, temp, strayed>>
  BY DEF Activate
<1>2. MirrorType /\ JobFits(o) /\ job[o] \in Jobs
  BY DEF MirrorInv, MirrorType
<1>3. v \in Versions /\ t \in Tree /\ \A s \in FromPaths : t[s] = Absent
  BY <1>1, <1>2 DEF JobFits, Jobs
<1>4. FromPaths \subseteq RetirementPaths /\ RetirementPaths \subseteq Rels
  BY RecordAssumption DEF FromPaths, RetirementPaths, Moves
<1>5. /\ j \in Jobs /\ j.kind = job[o].kind /\ j.version = v /\ j.todo = RetirementPaths
      /\ j.remove = job[o].remove
  BY <1>2, <1>4, TodoIs
<1> HIDE DEF j
<1>6. /\ pc' \in [Operators -> Stages] /\ job' \in [Operators -> Jobs]
      /\ exit' \in [Operators -> Codes] /\ overlapped' = overlapped
      /\ \A p \in Operators \ {o} : pc'[p] = pc[p] /\ job'[p] = job[p]
      /\ \/ pc'[o] = "idle" /\ job'[o] = NoJob
         \/ pc'[o] = "retire" /\ job'[o] = j
  <2>1. "durability_unknown" \in Codes /\ "ok" \in Codes /\ "retire" \in Stages
    BY DEF Codes, Stages
  <2>2. CASE End(o, "durability_unknown")
    BY <1>2, <2>1, <2>2, EndIs
  <2>3. CASE End(o, "ok")
    BY <1>2, <2>1, <2>3, EndIs
  <2>4. CASE Continue(o, "retire", j)
    BY <1>2, <1>5, <2>1, <2>4, ContinueIs
  <2> QED
    BY <1>1, <2>2, <2>3, <2>4
<1>7. Shelved' = Shelved \cup {v} /\ shelf'[v] = t
      /\ \A w \in Versions \ {v} : shelf'[w] = shelf[w]
  BY <1>1, <1>2, <1>3, RecordAssumption DEF MirrorType, Shelved, Tree
<1>8. MirrorType'
  <2>1. shelf' \in [Versions -> Tree \cup {NoTree, Gone}] /\ current' \in Shelved'
    BY <1>1, <1>2, <1>3, <1>7 DEF MirrorType
  <2>2. provenance' \in [Rels -> SUBSET (Contents \cup {Absent})]
    BY <1>1, <1>2, <1>3 DEF MirrorType, Tree
  <2> QED
    BY <1>1, <1>2, <1>6, <2>1, <2>2 DEF MirrorType
<1>9. \A r \in Rels : provenance[r] \subseteq provenance'[r] /\ t[r] \in provenance'[r]
  BY <1>1
<1>10. JobFits(o)'
  <2>1. \A f \in job[o].remove : f.rel \in Rels
    BY <1>2 DEF Jobs, Plans
  <2> QED
    BY <1>1, <1>2, <1>3, <1>4, <1>5, <1>6, <1>9, <2>1, NoJobIs DEF JobFits
<1>11. ASSUME NEW w \in Shelved' PROVE TreeFits(shelf[w])'
  <2>1. CASE w = v
    <3>1. OneFile(t)
      BY <1>3, TilesetAssumption DEF OneFile, FromPaths
    <3> QED
      BY <1>3, <1>7, <1>9, <2>1, <3>1 DEF TreeFits, OneFile
  <2>2. CASE w # v
    <3>1. w \in Shelved /\ shelf'[w] = shelf[w]
      BY <1>7, <2>2 DEF Shelved
    <3> QED
      BY <1>9, <3>1 DEF MirrorInv, TreeFits, OneFile
  <2> QED
    BY <2>1, <2>2
<1>12. ASSUME ~overlapped
       PROVE  /\ DeployAlone(o)' /\ RepairAlone(o)'
              /\ ~strayed' => OneFile(mirror)'
                              /\ \A r \in Rels : mirror'[r] \in Known(r)' \cup {Absent}
  <2>1. shelf[v] = NoTree
    BY <1>1, <1>12 DEF MirrorInv, AloneInv, DeployAlone
  <2>2. DeployAlone(o)'
    BY <1>1, <1>3, <1>4, <1>5, <1>6, <1>7 DEF DeployAlone
  <2>3. RepairAlone(o)'
    BY <1>6 DEF RepairAlone
  <2>4. \A w \in Shelved : w \in Shelved' /\ shelf'[w] = shelf[w]
    BY <1>7, <2>1 DEF Shelved
  <2>5. \A r \in Rels : Known(r) \subseteq Known(r)'
    BY <2>4 DEF Known
  <2> QED
    BY <1>1, <1>12, <2>2, <2>3, <2>5 DEF MirrorInv, AloneInv, OneFile
<1> QED
  BY <1>1, <1>6, <1>8, <1>9, <1>10, <1>11, <1>12, StepKeeps

\* A path that was left holds what is recorded, so it is empty afterwards.
LEMMA RetireKeeps ==
    \A o \in Operators, r \in Rels : MirrorInv /\ RetireFromMirror(o, r) => MirrorInv'
<1> SUFFICES ASSUME NEW o \in Operators, NEW r \in Rels, MirrorInv, RetireFromMirror(o, r)
             PROVE  MirrorInv'
  OBVIOUS
<1> DEFINE j == [job[o] EXCEPT !.todo = job[o].todo \ {r}]
<1>1. /\ pc[o] = "retire" /\ r \in job[o].todo
      /\ mirror' = IF shelf[current][r] = Absent /\ mirror[r] \in Recorded(r)
                   THEN [mirror EXCEPT ![r] = Absent] ELSE mirror
      /\ Continue(o, "retire", j) /\ UNCHANGED <<shelf, current, temp, strayed, provenance>>
  BY DEF RetireFromMirror
<1>2. MirrorType /\ JobFits(o) /\ job[o] \in Jobs
  BY DEF MirrorInv, MirrorType
<1>3. /\ j \in Jobs /\ j.kind = job[o].kind /\ j.version = job[o].version
      /\ j.todo = job[o].todo \ {r} /\ j.remove = job[o].remove
  <2>1. job[o].todo \ {r} \in SUBSET (Rels \cup Plans)
    BY <1>2 DEF Jobs
  <2> QED
    BY <1>2, <2>1, TodoIs
<1> HIDE DEF j
<1>4. /\ pc' \in [Operators -> Stages] /\ job' \in [Operators -> Jobs]
      /\ exit' \in [Operators -> Codes] /\ overlapped' = overlapped
      /\ pc'[o] = "retire" /\ job'[o] = j
      /\ \A p \in Operators \ {o} : pc'[p] = pc[p] /\ job'[p] = job[p]
  BY <1>1, <1>2, <1>3, ContinueIs DEF Stages
<1>5. MirrorType'
  <2>1. mirror' \in [Rels -> Files]
    BY <1>1, <1>2 DEF MirrorType, Files
  <2> QED
    BY <1>1, <1>2, <1>4, <2>1 DEF MirrorType, Shelved
<1>6. JobFits(o)'
  BY <1>1, <1>2, <1>3, <1>4 DEF JobFits
<1>7. \A v \in Shelved' : TreeFits(shelf[v])'
  BY <1>1 DEF MirrorInv, Shelved, TreeFits, OneFile
<1>8. ASSUME ~overlapped
      PROVE  /\ DeployAlone(o)' /\ RepairAlone(o)'
             /\ ~strayed' => OneFile(mirror)'
                             /\ \A s \in Rels : mirror'[s] \in Known(s)' \cup {Absent}
  <2>1. /\ \A s \in FromPaths : /\ shelf[current][s] = Absent
                                /\ ~strayed /\ s \notin job[o].todo => mirror[s] = Absent
        /\ ~strayed => OneFile(mirror) /\ \A s \in Rels : mirror[s] \in Known(s) \cup {Absent}
    BY <1>1, <1>8 DEF MirrorInv, AloneInv, DeployAlone
  <2>2. \A s \in Rels : mirror'[s] \in {mirror[s], Absent}
    BY <1>1, <1>2 DEF MirrorType
  <2>3. ASSUME ~strayed, r \in FromPaths PROVE mirror'[r] = Absent
    <3>1. \A w \in Shelved : shelf[w][r] \in Recorded(r) \cup {Absent}
      BY <2>3 DEF MirrorInv, TreeFits
    <3>2. mirror[r] \in Recorded(r) \cup {Absent}
      BY <2>1, <2>3, <3>1 DEF Known
    <3> QED
      BY <1>1, <1>2, <2>1, <2>3, <3>2 DEF MirrorType
  <2>4. FromPaths \subseteq Rels
    BY RecordAssumption DEF FromPaths, Moves
  <2>5. DeployAlone(o)'
    BY <1>1, <1>3, <1>4, <2>1, <2>2, <2>3, <2>4 DEF DeployAlone
  <2>6. RepairAlone(o)'
    BY <1>4 DEF RepairAlone
  <2> QED
    BY <1>1, <2>1, <2>2, <2>5, <2>6 DEF OneFile, Known, Shelved
<1> QED
  BY <1>1, <1>4, <1>5, <1>6, <1>7, <1>8, StepKeeps

LEMMA SyncStartsKeep ==
    \A o \in Operators : MirrorInv /\ (StartSync(o) \/ RetireFails(o)) => MirrorInv'
<1> SUFFICES ASSUME NEW o \in Operators, MirrorInv, StartSync(o) \/ RetireFails(o)
             PROVE  MirrorInv'
  OBVIOUS
<1> DEFINE j == [job[o] EXCEPT !.todo = Tiles(current)]
<1>1. /\ pc[o] = "retire" /\ Continue(o, "sync", j)
      /\ (job[o].todo = {} /\ strayed' = strayed) \/ strayed' = TRUE
      /\ UNCHANGED <<shelf, current, mirror, temp, provenance>>
  BY DEF StartSync, RetireFails, mirrorVars
<1>2. MirrorType /\ JobFits(o) /\ job[o] \in Jobs
  BY DEF MirrorInv, MirrorType
<1>3. /\ j \in Jobs /\ j.kind = job[o].kind /\ j.version = job[o].version
      /\ j.todo = Tiles(current) /\ j.remove = job[o].remove
  <2>1. Tiles(current) \in SUBSET (Rels \cup Plans)
    BY DEF Tiles
  <2> QED
    BY <1>2, <2>1, TodoIs
<1> HIDE DEF j
<1>4. /\ pc' \in [Operators -> Stages] /\ job' \in [Operators -> Jobs]
      /\ exit' \in [Operators -> Codes] /\ overlapped' = overlapped
      /\ pc'[o] = "sync" /\ job'[o] = j
      /\ \A p \in Operators \ {o} : pc'[p] = pc[p] /\ job'[p] = job[p]
  BY <1>1, <1>2, <1>3, ContinueIs DEF Stages
<1>5. MirrorType'
  BY <1>1, <1>2, <1>4 DEF MirrorType, Shelved
<1>6. JobFits(o)'
  BY <1>1, <1>2, <1>3, <1>4 DEF JobFits, Tiles
<1>7. \A v \in Shelved' : TreeFits(shelf[v])'
  BY <1>1 DEF MirrorInv, Shelved, TreeFits, OneFile
<1>8. ASSUME ~overlapped
      PROVE  /\ DeployAlone(o)' /\ RepairAlone(o)'
             /\ ~strayed' => OneFile(mirror)'
                             /\ \A s \in Rels : mirror'[s] \in Known(s)' \cup {Absent}
  <2>1. DeployAlone(o) /\ (~strayed => OneFile(mirror)
                                       /\ \A s \in Rels : mirror[s] \in Known(s) \cup {Absent})
    BY <1>8 DEF MirrorInv, AloneInv
  <2>2. DeployAlone(o)' /\ RepairAlone(o)'
    BY <1>1, <1>4, <2>1 DEF DeployAlone, RepairAlone
  <2> QED
    BY <1>1, <2>1, <2>2 DEF OneFile, Known, Shelved
<1> QED
  BY <1>1, <1>4, <1>5, <1>6, <1>7, <1>8, StepKeeps

\* What is placed beside it has its name only where it was left.
LEMMA SyncFileKeeps ==
    \A o \in Operators, r \in Rels : MirrorInv /\ SyncFile(o, r) => MirrorInv'
<1> SUFFICES ASSUME NEW o \in Operators, NEW r \in Rels, MirrorInv, SyncFile(o, r)
             PROVE  MirrorInv'
  OBVIOUS
<1> DEFINE j == [job[o] EXCEPT !.todo = job[o].todo \ {r}]
<1>1. /\ pc[o] = "sync" /\ r \in job[o].todo
      /\ \/ End(o, "ok") /\ mirror' = mirror
         \/ /\ shelf[current][r] # Absent /\ mirror' = [mirror EXCEPT ![r] = shelf[current][r]]
            /\ Continue(o, "sync", j)
      /\ UNCHANGED <<shelf, current, temp, strayed, provenance>>
  BY DEF SyncFile
<1>2. MirrorType /\ JobFits(o) /\ job[o] \in Jobs
  BY DEF MirrorInv, MirrorType
<1>3. CASE End(o, "ok") /\ mirror' = mirror
  BY <1>1, <1>2, <1>3, EndKeeps DEF MirrorType, Codes
<1>4. CASE /\ shelf[current][r] # Absent /\ mirror' = [mirror EXCEPT ![r] = shelf[current][r]]
           /\ Continue(o, "sync", j)
  <2>1. /\ j \in Jobs /\ j.kind = job[o].kind /\ j.version = job[o].version
        /\ j.todo = job[o].todo \ {r} /\ j.remove = job[o].remove
    <3>1. job[o].todo \ {r} \in SUBSET (Rels \cup Plans)
      BY <1>2 DEF Jobs
    <3> QED
      BY <1>2, <3>1, TodoIs
  <2> HIDE DEF j
  <2>2. /\ pc' \in [Operators -> Stages] /\ job' \in [Operators -> Jobs]
        /\ exit' \in [Operators -> Codes] /\ overlapped' = overlapped
        /\ pc'[o] = "sync" /\ job'[o] = j
        /\ \A p \in Operators \ {o} : pc'[p] = pc[p] /\ job'[p] = job[p]
    BY <1>2, <1>4, <2>1, ContinueIs DEF Stages
  <2>3. MirrorType'
    <3>1. shelf[current] \in Tree
      BY <1>2, ShelvedIs DEF MirrorType
    <3>2. mirror' \in [Rels -> Files]
      BY <1>2, <1>4, <3>1 DEF MirrorType, Files, Tree
    <3> QED
      BY <1>1, <1>2, <2>2, <3>2 DEF MirrorType, Shelved
  <2>4. JobFits(o)'
    BY <1>1, <1>2, <2>1, <2>2 DEF JobFits
  <2>5. \A v \in Shelved' : TreeFits(shelf[v])'
    BY <1>1 DEF MirrorInv, Shelved, TreeFits, OneFile
  <2>6. ASSUME ~overlapped
        PROVE  /\ DeployAlone(o)' /\ RepairAlone(o)'
               /\ ~strayed' => OneFile(mirror)'
                               /\ \A s \in Rels : mirror'[s] \in Known(s)' \cup {Absent}
    <3>1. /\ \A s \in FromPaths : shelf[current][s] = Absent /\ (~strayed => mirror[s] = Absent)
          /\ ~strayed => OneFile(mirror) /\ \A s \in Rels : mirror[s] \in Known(s) \cup {Absent}
      BY <1>1, <2>6 DEF MirrorInv, AloneInv, DeployAlone
    <3>2. /\ r \notin FromPaths /\ mirror'[r] = shelf[current][r]
          /\ \A s \in Rels \ {r} : mirror'[s] = mirror[s]
      BY <1>2, <1>4, <3>1 DEF MirrorType
    <3>3. FromPaths \subseteq Rels
      BY RecordAssumption DEF FromPaths, Moves
    <3>4. DeployAlone(o)' /\ RepairAlone(o)'
      BY <1>1, <2>2, <3>1, <3>2, <3>3 DEF DeployAlone, RepairAlone
    <3>5. ASSUME ~strayed, NEW s \in Rels, s # r, TilesetOf[r] = TilesetOf[s]
          PROVE  mirror'[s] = Absent
      <4>1. s \in FromPaths
        BY <3>2, <3>5, TilesetAssumption DEF FromPaths
      <4> QED
        BY <3>1, <3>2, <3>5, <4>1
    <3>6. ~strayed => OneFile(mirror)'
      BY <3>1, <3>2, <3>5 DEF OneFile
    <3>7. ~strayed => \A s \in Rels : mirror'[s] \in Known(s)' \cup {Absent}
      BY <1>1, <1>2, <3>1, <3>2 DEF Known, Shelved, MirrorType
    <3> QED
      BY <1>1, <3>4, <3>6, <3>7
  <2> QED
    BY <1>1, <2>2, <2>3, <2>4, <2>5, <2>6, StepKeeps
<1> QED
  BY <1>1, <1>3, <1>4

-----------------------------------------------------------------------------
(* The steps of a repair and of a rollback                                 *)

\* Both begin with a plan for a version that is there.
LEMMA PlanKeeps ==
    ASSUME MirrorInv, NEW o \in Operators, NEW j \in Jobs, j.kind \in {"apply", "rollback"},
           j.version \in Shelved, j.kind = "apply" => j.version = current,
           Start(o, "prepare", Planned(j)), UNCHANGED <<mirrorVars, strayed, provenance>>
    PROVE  MirrorInv'
<1> DEFINE k == Planned(j)
<1>1. MirrorType
  BY DEF MirrorInv
<1>2. /\ k \in Jobs /\ k.kind = j.kind /\ k.version = j.version
      /\ k.todo = PlanPlace(j.version) /\ k.place = PlanPlace(j.version)
      /\ k.remove = PlanRemove(j.version)
  BY <1>1, PlannedIs
<1>3. \A f \in k.remove : f.sha \in provenance[f.rel]
  BY <1>2, RemovedIsRecorded
<1>4. ~overlapped => Covers(k, k.place)
  BY <1>1, PlanCovers DEF MirrorInv, AloneInv
<1>5. k.todo \subseteq Plans /\ k.version \in Versions
  BY <1>1, <1>2, PlansAre, ShelvedIs
<1> HIDE DEF k
<1>6. pc'[o] = "prepare" /\ job'[o] = k
  BY <1>1 DEF Start, MirrorType, k
<1>7. JobFits(o)'
  BY <1>2, <1>3, <1>5, <1>6 DEF JobFits
<1>8. DeployAlone(o)'
  BY <1>6 DEF DeployAlone
<1>9. ~overlapped => RepairAlone(o)'
  <2> SUFFICES ASSUME ~overlapped PROVE RepairAlone(o)'
    OBVIOUS
  <2>1. Covers(job[o], job[o].place)'
    BY <1>4, <1>6 DEF Covers, Tiles, mirrorVars
  <2>2. k.place \ k.todo = {}
    BY <1>2
  <2>3. Prepared(job[o].place \ job[o].todo)'
    BY <1>6, <2>2 DEF Prepared
  <2> QED
    BY <1>2, <1>6, <2>1, <2>3 DEF RepairAlone, mirrorVars
<1> QED
  BY <1>2, <1>7, <1>8, <1>9, StartKeeps DEF Stages, k

LEMMA StartApplyKeeps == \A o \in Operators : MirrorInv /\ StartApply(o) => MirrorInv'
<1> SUFFICES ASSUME NEW o \in Operators, MirrorInv, StartApply(o) PROVE MirrorInv'
  OBVIOUS
<1> DEFINE j == [NoJob EXCEPT !.kind = "apply", !.version = current]
<1>1. Start(o, "prepare", Planned(j)) /\ UNCHANGED <<mirrorVars, strayed, provenance>>
  BY DEF StartApply
<1>2. current \in Shelved /\ current \in Versions
  BY DEF MirrorInv, MirrorType, Shelved
<1>3. j \in Jobs /\ j.kind = "apply" /\ j.version = current
  BY <1>2, NoJobIs DEF Jobs
<1> HIDE DEF j
<1> QED
  BY <1>1, <1>2, <1>3, PlanKeeps

LEMMA StartRollbackKeeps ==
    \A o \in Operators, v \in Versions, override \in BOOLEAN :
        MirrorInv /\ StartRollback(o, v, override) => MirrorInv'
<1> SUFFICES ASSUME NEW o \in Operators, NEW v \in Versions, NEW override \in BOOLEAN,
                    MirrorInv, StartRollback(o, v, override)
             PROVE  MirrorInv'
  OBVIOUS
<1> DEFINE j == [NoJob EXCEPT !.kind = "rollback", !.version = v]
<1>1. v \in Shelved /\ Start(o, "prepare", Planned(j))
      /\ UNCHANGED <<mirrorVars, strayed, provenance>>
  BY DEF StartRollback
<1>2. j \in Jobs /\ j.kind = "rollback" /\ j.version = v
  BY NoJobIs DEF Jobs
<1> HIDE DEF j
<1> QED
  BY <1>1, <1>2, PlanKeeps

LEMMA PrepareKeeps ==
    \A o \in Operators : \A f \in job[o].todo : MirrorInv /\ PrepareFile(o, f) => MirrorInv'
<1> SUFFICES ASSUME NEW o \in Operators, NEW f \in job[o].todo, MirrorInv, PrepareFile(o, f)
             PROVE  MirrorInv'
  OBVIOUS
<1> DEFINE j == [job[o] EXCEPT !.todo = job[o].todo \ {f}]
<1>1. /\ pc[o] = "prepare" /\ job[o].version \in Shelved
      /\ temp' = [temp EXCEPT ![f.rel] = f.sha] /\ Continue(o, "prepare", j)
      /\ UNCHANGED <<shelf, current, mirror, strayed, provenance>>
  BY DEF PrepareFile
<1>2. MirrorType /\ JobFits(o) /\ job[o] \in Jobs
  BY DEF MirrorInv, MirrorType
<1>3. f \in Plans /\ f.rel \in Rels /\ f.sha \in Contents
  BY <1>1, <1>2 DEF JobFits, Plans
<1>4. /\ j \in Jobs /\ j.kind = job[o].kind /\ j.version = job[o].version
      /\ j.todo = job[o].todo \ {f} /\ j.place = job[o].place /\ j.remove = job[o].remove
      /\ j.unknown = job[o].unknown
  <2>1. job[o].todo \ {f} \in SUBSET (Rels \cup Plans)
    BY <1>2 DEF Jobs
  <2> QED
    BY <1>2, <2>1, TodoIs
<1> HIDE DEF j
<1>5. /\ pc' \in [Operators -> Stages] /\ job' \in [Operators -> Jobs]
      /\ exit' \in [Operators -> Codes] /\ overlapped' = overlapped
      /\ pc'[o] = "prepare" /\ job'[o] = j
      /\ \A p \in Operators \ {o} : pc'[p] = pc[p] /\ job'[p] = job[p]
  BY <1>1, <1>2, <1>4, ContinueIs DEF Stages
<1>6. temp' \in Tree /\ temp'[f.rel] = f.sha
      /\ \A r \in Rels \ {f.rel} : temp'[r] = temp[r]
  BY <1>1, <1>2, <1>3 DEF MirrorType, Tree
<1>7. MirrorType'
  BY <1>1, <1>2, <1>5, <1>6 DEF MirrorType, Shelved
<1>8. JobFits(o)'
  BY <1>1, <1>2, <1>4, <1>5 DEF JobFits
<1>9. \A v \in Shelved' : TreeFits(shelf[v])'
  BY <1>1 DEF MirrorInv, Shelved, TreeFits, OneFile
<1>10. ASSUME ~overlapped
       PROVE  /\ DeployAlone(o)' /\ RepairAlone(o)'
              /\ ~strayed' => OneFile(mirror)'
                              /\ \A r \in Rels : mirror'[r] \in Known(r)' \cup {Absent}
  <2>1. /\ RepairAlone(o)
        /\ ~strayed => OneFile(mirror) /\ \A r \in Rels : mirror[r] \in Known(r) \cup {Absent}
    BY <1>10 DEF MirrorInv, AloneInv
  <2>2. /\ Covers(job[o], job[o].place) /\ job[o].todo \subseteq job[o].place
        /\ Prepared(job[o].place \ job[o].todo)
        /\ job[o].kind = "apply" => job[o].version = current
    BY <1>1, <2>1 DEF RepairAlone
  <2>3. Covers(job[o], job[o].place)'
    BY <1>1, <1>4, <1>5, <2>2 DEF Covers, Tiles
  <2>4. ASSUME NEW g \in j.place \ j.todo PROVE temp'[g.rel] = g.sha
    <3>1. g \in job[o].place /\ g.rel \in Rels
      BY <1>2, <1>4 DEF Jobs, Plans
    <3>2. CASE g.rel = f.rel
      BY <1>6, <2>2, <3>1, <3>2 DEF Covers
    <3>3. CASE g.rel # f.rel
      <4>1. g \in job[o].place \ job[o].todo
        BY <1>4, <3>3
      <4> QED
        BY <1>6, <2>2, <3>1, <3>3, <4>1 DEF Prepared
    <3> QED
      BY <3>2, <3>3
  <2>5. Prepared(job[o].place \ job[o].todo)'
    BY <1>5, <2>4 DEF Prepared
  <2>6. RepairAlone(o)'
    <3>1. j.todo \subseteq j.place /\ (j.kind = "apply" => j.version = current')
      BY <1>1, <1>4, <2>2
    <3> QED
      BY <1>5, <2>3, <2>5, <3>1 DEF RepairAlone
  <2>7. DeployAlone(o)'
    BY <1>5 DEF DeployAlone
  <2> QED
    BY <1>1, <2>1, <2>6, <2>7 DEF OneFile, Known, Shelved
<1> QED
  BY <1>1, <1>5, <1>7, <1>8, <1>9, <1>10, StepKeeps

\* A step that changes neither files nor plan.
LEMMA SwitchKeeps == \A o \in Operators : MirrorInv /\ Switch(o) => MirrorInv'
<1> SUFFICES ASSUME NEW o \in Operators, MirrorInv, Switch(o) PROVE MirrorInv'
  OBVIOUS
<1>1. /\ pc[o] = "prepare" /\ job[o].kind = "rollback" /\ job[o].todo = {}
      /\ job[o].version \in Shelved /\ current' = job[o].version
      /\ Continue(o, "switched", job[o])
      /\ UNCHANGED <<shelf, mirror, temp, strayed, provenance>>
  BY DEF Switch
<1>2. MirrorType /\ JobFits(o) /\ job[o] \in Jobs
  BY DEF MirrorInv, MirrorType
<1>3. /\ pc' \in [Operators -> Stages] /\ job' \in [Operators -> Jobs]
      /\ exit' \in [Operators -> Codes] /\ overlapped' = overlapped
      /\ pc'[o] = "switched" /\ job'[o] = job[o]
      /\ \A p \in Operators \ {o} : pc'[p] = pc[p] /\ job'[p] = job[p]
  BY <1>1, <1>2, ContinueIs DEF Stages
<1>4. MirrorType'
  BY <1>1, <1>2, <1>3 DEF MirrorType, Shelved
<1>5. JobFits(o)'
  BY <1>1, <1>2, <1>3 DEF JobFits
<1>6. \A v \in Shelved' : TreeFits(shelf[v])'
  BY <1>1 DEF MirrorInv, Shelved, TreeFits, OneFile
<1>7. ASSUME ~overlapped
      PROVE  /\ DeployAlone(o)' /\ RepairAlone(o)'
             /\ ~strayed' => OneFile(mirror)'
                             /\ \A r \in Rels : mirror'[r] \in Known(r)' \cup {Absent}
  <2>1. /\ RepairAlone(o)
        /\ ~strayed => OneFile(mirror) /\ \A r \in Rels : mirror[r] \in Known(r) \cup {Absent}
    BY <1>7 DEF MirrorInv, AloneInv
  <2>2. Covers(job[o], job[o].place) /\ Prepared(job[o].place)
    BY <1>1, <2>1 DEF RepairAlone, Prepared
  <2>3. Covers(job[o], job[o].place)' /\ Prepared(job[o].place)'
    BY <1>1, <1>3, <2>2 DEF Covers, Prepared, Tiles
  <2>4. DeployAlone(o)' /\ RepairAlone(o)'
    BY <1>1, <1>3, <2>3 DEF DeployAlone, RepairAlone
  <2> QED
    BY <1>1, <2>1, <2>4 DEF OneFile, Known, Shelved
<1> QED
  BY <1>1, <1>3, <1>4, <1>5, <1>6, <1>7, StepKeeps

\* A rollback plans again; what it plans has been prepared, if nobody else was at work.
LEMMA StartCommitKeeps == \A o \in Operators : MirrorInv /\ StartCommit(o) => MirrorInv'
<1> SUFFICES ASSUME NEW o \in Operators, MirrorInv, StartCommit(o) PROVE MirrorInv'
  OBVIOUS
<1> DEFINE again == [job[o] EXCEPT !.todo = job[o].todo \cup job[o].place]
<1> DEFINE j == IF job[o].kind = "apply" THEN again ELSE Planned(job[o])
<1>1. /\ job[o].version \in Shelved
      /\ \/ pc[o] = "prepare" /\ job[o].kind = "apply" /\ job[o].todo = {}
         \/ pc[o] = "switched"
      /\ Continue(o, "unhome", j) /\ UNCHANGED <<shelf, current, mirror, temp, strayed, provenance>>
  BY DEF StartCommit, mirrorVars
<1>2. MirrorType /\ JobFits(o) /\ job[o] \in Jobs
  BY DEF MirrorInv, MirrorType
<1>3. /\ again \in Jobs /\ again.kind = job[o].kind /\ again.version = job[o].version
      /\ again.todo = job[o].todo \cup job[o].place /\ again.place = job[o].place
      /\ again.remove = job[o].remove /\ again.unknown = job[o].unknown
  <2>1. job[o].todo \cup job[o].place \in SUBSET (Rels \cup Plans)
    BY <1>2 DEF Jobs
  <2> QED
    BY <1>2, <2>1, TodoIs
<1> HIDE DEF again
<1>4. /\ j \in Jobs /\ j.kind = job[o].kind /\ j.version = job[o].version
      /\ j.todo \subseteq Plans /\ \A f \in j.remove : f.sha \in provenance[f.rel]
  <2>1. CASE job[o].kind = "apply"
    BY <1>1, <1>2, <1>3, <2>1 DEF JobFits, Jobs
  <2>2. CASE job[o].kind # "apply"
    BY <1>1, <1>2, <2>2, PlannedIs, PlansAre, RemovedIsRecorded
  <2> QED
    BY <2>1, <2>2
<1>5. ASSUME ~overlapped
      PROVE  j.version = current /\ Covers(j, j.todo) /\ Prepared(j.todo)
  <2>1. RepairAlone(o) /\ (~strayed => \A r \in Rels : mirror[r] \in Known(r) \cup {Absent})
    BY <1>5 DEF MirrorInv, AloneInv
  <2>2. CASE pc[o] = "prepare"
    <3>1. /\ Covers(job[o], job[o].place) /\ job[o].version = current
          /\ Prepared(job[o].place)
      BY <1>1, <2>1, <2>2 DEF RepairAlone, Prepared
    <3>2. j = again /\ again.todo = job[o].place
      BY <1>1, <1>3, <2>2
    <3> HIDE DEF j
    <3> QED
      BY <1>3, <3>1, <3>2 DEF Covers
  <2>3. CASE pc[o] = "switched"
    <3>1. /\ job[o].version = current /\ Covers(job[o], job[o].place) /\ Prepared(job[o].place)
      BY <2>1, <2>3 DEF RepairAlone
    <3>2. j = Planned(job[o])
      BY <1>2, <2>3 DEF JobFits
    <3> HIDE DEF j
    <3>3. Covers(j, j.place) /\ j.todo = PlanPlace(current) /\ j.place = PlanPlace(current)
      BY <1>1, <1>2, <2>1, <3>1, <3>2, PlanCovers, PlannedIs
    <3>4. PlanPlace(current) \subseteq job[o].place
      BY <3>1 DEF Covers, PlanPlace, Tiles
    <3> QED
      BY <1>4, <3>1, <3>3, <3>4 DEF Prepared
  <2> QED
    BY <1>1, <2>2, <2>3
<1> HIDE DEF j
<1>6. /\ pc' \in [Operators -> Stages] /\ job' \in [Operators -> Jobs]
      /\ exit' \in [Operators -> Codes] /\ overlapped' = overlapped
      /\ pc'[o] = "unhome" /\ job'[o] = j
      /\ \A p \in Operators \ {o} : pc'[p] = pc[p] /\ job'[p] = job[p]
  BY <1>1, <1>2, <1>4, ContinueIs DEF Stages
<1>7. MirrorType'
  BY <1>1, <1>2, <1>6 DEF MirrorType, Shelved
<1>8. JobFits(o)'
  BY <1>1, <1>2, <1>4, <1>6 DEF JobFits
<1>9. \A v \in Shelved' : TreeFits(shelf[v])'
  BY <1>1 DEF MirrorInv, Shelved, TreeFits, OneFile
<1>10. ASSUME ~overlapped
       PROVE  /\ DeployAlone(o)' /\ RepairAlone(o)'
              /\ ~strayed' => OneFile(mirror)'
                              /\ \A r \in Rels : mirror'[r] \in Known(r)' \cup {Absent}
  <2>1. Covers(job[o], job[o].todo)' /\ Prepared(job[o].todo)'
    BY <1>1, <1>5, <1>6, <1>10 DEF Covers, Prepared, Tiles
  <2>2. DeployAlone(o)' /\ RepairAlone(o)'
    BY <1>1, <1>5, <1>6, <1>10, <2>1 DEF DeployAlone, RepairAlone
  <2>3. ~strayed => OneFile(mirror) /\ \A r \in Rels : mirror[r] \in Known(r) \cup {Absent}
    BY <1>10 DEF MirrorInv, AloneInv
  <2> QED
    BY <1>1, <2>2, <2>3 DEF OneFile, Known, Shelved
<1> QED
  BY <1>1, <1>6, <1>7, <1>8, <1>9, <1>10, StepKeeps

LEMMA RemoveKeeps ==
    \A o \in Operators : \A f \in job[o].remove :
        MirrorInv /\ (RemoveMoving(o, f) \/ RemoveRest(o, f)) => MirrorInv'
<1> SUFFICES ASSUME NEW o \in Operators, NEW f \in job[o].remove, MirrorInv,
                    RemoveMoving(o, f) \/ RemoveRest(o, f)
             PROVE  MirrorInv'
  OBVIOUS
<1> DEFINE b == \/ job[o].moved
                \/ /\ mirror[f.rel] = f.sha
                   /\ \E g \in job[o].place :
                         /\ mirror[g.rel] = Absent
                         /\ TilesetOf[g.rel] = TilesetOf[f.rel]
<1> DEFINE j == [job[o] EXCEPT !.remove = job[o].remove \ {f}, !.moved = b]
<1>1. /\ pc[o] \in {"unhome", "place"} /\ Continue(o, pc[o], j)
      /\ mirror' = IF mirror[f.rel] = f.sha THEN [mirror EXCEPT ![f.rel] = Absent] ELSE mirror
      /\ UNCHANGED <<shelf, current, temp, strayed, provenance>>
  BY DEF RemoveMoving, RemoveRest, RemoveFile
<1>2. MirrorType /\ JobFits(o) /\ job[o] \in Jobs /\ f \in Plans /\ f.rel \in Rels
  BY DEF MirrorInv, MirrorType, Jobs, Plans
<1>3. job[o].remove \ {f} \in SUBSET Plans /\ b \in BOOLEAN
  BY <1>2 DEF Jobs
<1> HIDE DEF b
<1>4. /\ j \in Jobs /\ j.kind = job[o].kind /\ j.version = job[o].version
      /\ j.remove = job[o].remove \ {f} /\ j.place = job[o].place /\ j.todo = job[o].todo
      /\ j.unknown = job[o].unknown
  <2>1. CASE b
    <3>1. b = TRUE
      BY <2>1
    <3>2. j = [job[o] EXCEPT !.remove = job[o].remove \ {f}, !.moved = TRUE]
      BY <3>1, Zenon
    <3> HIDE DEF j
    <3> QED
      BY <1>2, <1>3, <3>2, RemoveIs
  <2>2. CASE ~b
    <3>1. b = FALSE
      BY <2>2
    <3>2. j = [job[o] EXCEPT !.remove = job[o].remove \ {f}, !.moved = FALSE]
      BY <3>1, Zenon
    <3> HIDE DEF j
    <3> QED
      BY <1>2, <1>3, <3>2, RemoveIs
  <2> QED
    BY <2>1, <2>2
<1> HIDE DEF j
<1>5. /\ pc' \in [Operators -> Stages] /\ job' \in [Operators -> Jobs]
      /\ exit' \in [Operators -> Codes] /\ overlapped' = overlapped
      /\ pc'[o] = pc[o] /\ job'[o] = j
      /\ \A p \in Operators \ {o} : pc'[p] = pc[p] /\ job'[p] = job[p]
  BY <1>1, <1>2, <1>4, ContinueIs DEF Stages
<1>6. /\ mirror' \in [Rels -> Files]
      /\ \A r \in Rels \ {f.rel} : mirror'[r] = mirror[r]
      /\ mirror[f.rel] = f.sha => mirror'[f.rel] = Absent
      /\ \A r \in Rels : mirror'[r] \in {mirror[r], Absent}
  BY <1>1, <1>2 DEF MirrorType, Files
<1>7. MirrorType'
  BY <1>1, <1>2, <1>5, <1>6 DEF MirrorType, Shelved
<1>8. JobFits(o)'
  BY <1>1, <1>2, <1>4, <1>5 DEF JobFits
<1>9. \A v \in Shelved' : TreeFits(shelf[v])'
  BY <1>1 DEF MirrorInv, Shelved, TreeFits, OneFile
<1>10. ASSUME ~overlapped
       PROVE  /\ DeployAlone(o)' /\ RepairAlone(o)'
              /\ ~strayed' => OneFile(mirror)'
                              /\ \A r \in Rels : mirror'[r] \in Known(r)' \cup {Absent}
  <2>1. /\ RepairAlone(o)
        /\ ~strayed => OneFile(mirror) /\ \A r \in Rels : mirror[r] \in Known(r) \cup {Absent}
    BY <1>10 DEF MirrorInv, AloneInv
  <2>2. /\ job[o].version = current /\ Covers(job[o], job[o].todo) /\ Prepared(job[o].todo)
        /\ pc[o] = "place" => MovingFiles(job[o]) = {}
    BY <1>1, <2>1 DEF RepairAlone
  <2>3. f.rel \notin Tiles(current) /\ mirror'[f.rel] = Absent
    BY <1>6, <2>2 DEF Covers
  <2>4. ASSUME NEW g \in j.remove PROVE g.rel \notin Tiles(current) /\ mirror'[g.rel] = g.sha
    <3>1. g \in job[o].remove /\ g # f /\ g \in Plans
      BY <1>2, <1>4 DEF Jobs
    <3>2. g.rel \notin Tiles(current) /\ mirror[g.rel] = g.sha /\ mirror[f.rel] = f.sha
      BY <2>2, <3>1 DEF Covers
    <3>3. g.rel # f.rel
      BY <1>2, <3>1, <3>2 DEF Plans
    <3> QED
      BY <1>6, <3>1, <3>2, <3>3 DEF Plans
  <2>5. Covers(job[o], job[o].todo)'
    <3>1. \A r \in Tiles(current) :
              mirror'[r] = shelf[current][r] \/ [rel |-> r, sha |-> shelf[current][r]] \in j.todo
      BY <1>4, <1>6, <2>2, <2>3 DEF Covers, Tiles
    <3>2. ASSUME NEW r \in Rels \ Tiles(current)
          PROVE  mirror'[r] = Absent \/ [rel |-> r, sha |-> mirror'[r]] \in j.remove \/ j.unknown
      <4>1. CASE r = f.rel
        BY <2>3, <4>1
      <4>2. CASE r # f.rel
        BY <1>4, <1>6, <2>2, <4>2 DEF Covers
      <4> QED
        BY <4>1, <4>2
    <3>3. Tiles(current)' = Tiles(current)
      BY <1>1 DEF Tiles
    <3> QED
      BY <1>1, <1>4, <1>5, <2>2, <2>4, <3>1, <3>2, <3>3 DEF Covers
  <2>6. /\ Prepared(job[o].todo)'
        /\ pc[o] = "place" => MovingFiles(job'[o]) = {}
    BY <1>1, <1>4, <1>5, <2>2 DEF Prepared, MovingFiles
  <2>7. RepairAlone(o)'
    BY <1>1, <1>4, <1>5, <2>2, <2>5, <2>6 DEF RepairAlone, MovingFiles
  <2>8. DeployAlone(o)'
    BY <1>1, <1>5 DEF DeployAlone
  <2> QED
    BY <1>1, <1>6, <2>1, <2>7, <2>8 DEF OneFile, Known, Shelved
<1> QED
  BY <1>1, <1>5, <1>7, <1>8, <1>9, <1>10, StepKeeps

\* A prepared file takes its place; no other file of its name is there any more.
LEMMA PlaceKeeps ==
    \A o \in Operators : \A f \in job[o].todo : MirrorInv /\ PlaceFile(o, f) => MirrorInv'
<1> SUFFICES ASSUME NEW o \in Operators, NEW f \in job[o].todo, MirrorInv, PlaceFile(o, f)
             PROVE  MirrorInv'
  OBVIOUS
<1> DEFINE j == [job[o] EXCEPT !.todo = job[o].todo \ {f}]
<1>1. /\ pc[o] \in {"unhome", "place"} /\ (pc[o] = "place" \/ MovingFiles(job[o]) = {})
      /\ UNCHANGED <<shelf, current, strayed, provenance>>
  BY DEF PlaceFile, Place
<1>2. /\ MirrorType /\ JobFits(o) /\ job[o] \in Jobs
      /\ f \in Plans /\ f.rel \in Rels /\ f.sha \in Contents
  BY <1>1 DEF MirrorInv, MirrorType, JobFits, Plans
<1>3. /\ j \in Jobs /\ j.kind = job[o].kind /\ j.version = job[o].version
      /\ j.todo = job[o].todo \ {f} /\ j.place = job[o].place /\ j.remove = job[o].remove
      /\ j.unknown = job[o].unknown
  <2>1. job[o].todo \ {f} \in SUBSET (Rels \cup Plans)
    BY <1>2 DEF Jobs
  <2> QED
    BY <1>2, <2>1, TodoIs
<1>4. CASE ~(temp[f.rel] # Absent \/ mirror[f.rel] = f.sha)
  <2> DEFINE code == IF job[o].kind = "apply" THEN "failed" ELSE "unconverged"
  <2>1. End(o, code) /\ UNCHANGED <<mirror, temp>>
    BY <1>4 DEF PlaceFile, Place
  <2>2. code \in Codes
    BY DEF Codes
  <2>3. current' \in Shelved /\ temp' \in Tree /\ pc[o] # "idle"
    BY <1>1, <1>2, <2>1 DEF MirrorType
  <2> HIDE DEF code
  <2> QED
    BY <1>1, <2>1, <2>2, <2>3, EndKeeps
<1>5. CASE temp[f.rel] # Absent \/ mirror[f.rel] = f.sha
  <2>1. /\ Continue(o, "place", j)
        /\ mirror' = IF temp[f.rel] # Absent THEN [mirror EXCEPT ![f.rel] = temp[f.rel]]
                                             ELSE mirror
        /\ temp' = IF temp[f.rel] # Absent THEN [temp EXCEPT ![f.rel] = Absent] ELSE temp
    BY <1>5 DEF PlaceFile, Place
  <2> HIDE DEF j
  <2>2. /\ pc' \in [Operators -> Stages] /\ job' \in [Operators -> Jobs]
        /\ exit' \in [Operators -> Codes] /\ overlapped' = overlapped
        /\ pc'[o] = "place" /\ job'[o] = j
        /\ \A p \in Operators \ {o} : pc'[p] = pc[p] /\ job'[p] = job[p]
    BY <1>2, <1>3, <2>1, ContinueIs DEF Stages
  <2>3. /\ mirror' \in [Rels -> Files] /\ temp' \in Tree
        /\ \A r \in Rels \ {f.rel} : mirror'[r] = mirror[r] /\ temp'[r] = temp[r]
        /\ temp[f.rel] # Absent => mirror'[f.rel] = temp[f.rel]
    BY <1>2, <2>1 DEF MirrorType, Files, Tree
  <2>4. MirrorType'
    BY <1>1, <1>2, <2>2, <2>3 DEF MirrorType, Shelved
  <2>5. JobFits(o)'
    BY <1>1, <1>2, <1>3, <2>2 DEF JobFits
  <2>6. \A v \in Shelved' : TreeFits(shelf[v])'
    BY <1>1 DEF MirrorInv, Shelved, TreeFits, OneFile
  <2>7. ASSUME ~overlapped
        PROVE  /\ DeployAlone(o)' /\ RepairAlone(o)'
               /\ ~strayed' => OneFile(mirror)'
                               /\ \A r \in Rels : mirror'[r] \in Known(r)' \cup {Absent}
    <3>1. /\ RepairAlone(o)
          /\ ~strayed => OneFile(mirror) /\ \A r \in Rels : mirror[r] \in Known(r) \cup {Absent}
      BY <2>7 DEF MirrorInv, AloneInv
    <3>2. /\ job[o].version = current /\ Covers(job[o], job[o].todo) /\ Prepared(job[o].todo)
          /\ MovingFiles(job[o]) = {}
      BY <1>1, <3>1 DEF RepairAlone
    <3>3. f \in job[o].place /\ f.rel \in Tiles(current) /\ f.sha = shelf[current][f.rel]
      BY <3>2 DEF Covers
    <3>4. temp[f.rel] = f.sha /\ f.sha # Absent
      BY <1>2, <3>2, RecordAssumption DEF Prepared
    <3>5. mirror'[f.rel] = shelf[current][f.rel]
      BY <2>3, <3>3, <3>4
    <3>6. Tiles(current)' = Tiles(current)
      BY <1>1 DEF Tiles
    <3>7. Covers(job[o], job[o].todo)'
      <4>1. ASSUME NEW r \in Tiles(current)
            PROVE  \/ mirror'[r] = shelf[current][r]
                   \/ [rel |-> r, sha |-> shelf[current][r]] \in j.todo
        <5>1. CASE r = f.rel
          BY <3>5, <5>1
        <5>2. CASE r # f.rel
          <6>1. r \in Rels /\ mirror'[r] = mirror[r]
            BY <2>3, <5>2 DEF Tiles
          <6>2. \/ mirror[r] = shelf[current][r]
                \/ [rel |-> r, sha |-> shelf[current][r]] \in job[o].todo
            BY <3>2 DEF Covers
          <6>3. [rel |-> r, sha |-> shelf[current][r]] # f
            BY <5>2
          <6> QED
            BY <1>3, <6>1, <6>2, <6>3
        <5> QED
          BY <5>1, <5>2
      <4>2. ASSUME NEW r \in Rels \ Tiles(current)
            PROVE  mirror'[r] = Absent \/ [rel |-> r, sha |-> mirror'[r]] \in j.remove \/ j.unknown
        BY <1>3, <2>3, <3>2, <3>3 DEF Covers
      <4>3. ASSUME NEW g \in j.remove PROVE g.rel \notin Tiles(current) /\ mirror'[g.rel] = g.sha
        <5>1. g \in job[o].remove /\ g.rel \in Rels
          BY <1>2, <1>3 DEF Jobs, Plans
        <5>2. g.rel \notin Tiles(current) /\ mirror[g.rel] = g.sha
          BY <3>2, <5>1 DEF Covers
        <5>3. g.rel # f.rel
          BY <3>3, <5>2
        <5> QED
          BY <2>3, <5>1, <5>2, <5>3
      <4> QED
        BY <1>1, <1>3, <2>2, <3>2, <3>6, <4>1, <4>2, <4>3 DEF Covers
    <3>8. ASSUME NEW g \in j.todo PROVE temp'[g.rel] = g.sha
      <4>1. g \in job[o].todo /\ g # f /\ g \in Plans /\ g.rel \in Rels
        BY <1>1, <1>2, <1>3 DEF JobFits, Plans
      <4>2. g.sha = shelf[current][g.rel]
        BY <3>2, <4>1 DEF Covers
      <4>3. g.rel # f.rel
        BY <1>2, <3>3, <4>1, <4>2 DEF Plans
      <4> QED
        BY <2>3, <3>2, <4>1, <4>3 DEF Prepared
    <3>9. MovingFiles(job[o])' = {}
      BY <1>3, <2>2, <3>2 DEF MovingFiles
    <3>10. Prepared(job[o].todo)'
      BY <2>2, <3>8 DEF Prepared
    <3>11. DeployAlone(o)' /\ RepairAlone(o)'
      BY <1>1, <1>3, <2>2, <3>2, <3>7, <3>9, <3>10 DEF DeployAlone, RepairAlone
    <3>12. ASSUME ~strayed, NEW s \in Rels, s # f.rel, TilesetOf[s] = TilesetOf[f.rel]
           PROVE  mirror[s] = Absent
      <4>1. OneFile(shelf[current])
        BY <1>2 DEF MirrorInv, MirrorType, TreeFits
      <4>2. s \notin Tiles(current)
        BY <1>2, <3>3, <3>12, <4>1 DEF OneFile, Tiles
      <4>3. mirror[s] = Absent \/ [rel |-> s, sha |-> mirror[s]] \in job[o].remove
        BY <3>2, <3>12, <4>2 DEF Covers
      <4>4. [rel |-> s, sha |-> mirror[s]] \notin job[o].remove
        BY <3>2, <3>3, <3>12 DEF MovingFiles
      <4> QED
        BY <4>3, <4>4
    <3>13. ASSUME ~strayed
           PROVE  OneFile(mirror)' /\ \A r \in Rels : mirror'[r] \in Known(r)' \cup {Absent}
      <4>1. OneFile(mirror)'
        <5> SUFFICES ASSUME NEW r \in Rels, NEW s \in Rels, r # s, TilesetOf[r] = TilesetOf[s]
                     PROVE  mirror'[r] = Absent \/ mirror'[s] = Absent
          BY DEF OneFile
        <5>1. CASE r = f.rel
          BY <2>3, <3>12, <3>13, <5>1
        <5>2. CASE s = f.rel
          BY <2>3, <3>12, <3>13, <5>2
        <5>3. CASE r # f.rel /\ s # f.rel
          BY <2>3, <3>1, <3>13, <5>3 DEF OneFile
        <5> QED
          BY <5>1, <5>2, <5>3
      <4>2. ASSUME NEW r \in Rels PROVE mirror'[r] \in Known(r)' \cup {Absent}
        <5>1. Known(r)' = Known(r)
          BY <1>1 DEF Known, Shelved
        <5>2. CASE r = f.rel
          BY <1>2, <3>5, <5>1, <5>2 DEF Known, MirrorType
        <5>3. CASE r # f.rel
          BY <2>3, <3>1, <3>13, <5>1, <5>3
        <5> QED
          BY <5>2, <5>3
      <4> QED
        BY <4>1, <4>2
    <3> QED
      BY <1>1, <3>11, <3>13
  <2> QED
    BY <1>1, <2>2, <2>4, <2>5, <2>6, <2>7, StepKeeps
<1> QED
  BY <1>4, <1>5

-----------------------------------------------------------------------------
(* The ends of a script, and what others do                                *)

\* Wherever a script ends or dies, what it has left in the mirror fits.
LEMMA EndsKeep ==
    \A o \in Operators :
        /\ MirrorInv /\ (ActivateFails(o) \/ SyncFails(o) \/ PrepareFails(o) \/ CommitFails(o)
                         \/ CommitEnds(o) \/ Kill(o)) => MirrorInv'
        /\ \A code \in {"ok", "unreadable"} : MirrorInv /\ SyncEnds(o, code) => MirrorInv'
        /\ \A after \in BOOLEAN : MirrorInv /\ SwitchFails(o, after) => MirrorInv'
<1> TAKE o \in Operators
<1>0. ASSUME NEW code \in Codes, MirrorInv, End(o, code), pc[o] # "idle",
             UNCHANGED <<shelf, current, mirror, strayed, provenance>>, temp' \in Tree
      PROVE  MirrorInv'
  BY <1>0, EndKeeps DEF MirrorInv, MirrorType
<1>1. MirrorInv => temp \in Tree /\ EmptyTree \in Tree
  BY NoJobIs DEF MirrorInv, MirrorType
<1>2. MirrorInv /\ ActivateFails(o) => MirrorInv'
  BY <1>0, <1>1 DEF ActivateFails, mirrorVars, Codes
<1>3. MirrorInv /\ SyncFails(o) => MirrorInv'
  BY <1>0, <1>1 DEF SyncFails, mirrorVars, Codes
<1>4. MirrorInv /\ PrepareFails(o) => MirrorInv'
  BY <1>0, <1>1 DEF PrepareFails, Codes
<1>5. MirrorInv /\ CommitFails(o) => MirrorInv'
  <2> SUFFICES ASSUME MirrorInv, CommitFails(o) PROVE MirrorInv'
    OBVIOUS
  <2> DEFINE code == IF job[o].kind = "apply" THEN "failed" ELSE "unconverged"
  <2>1. /\ End(o, code) /\ pc[o] # "idle"
        /\ UNCHANGED <<shelf, current, mirror, temp, strayed, provenance>>
    BY DEF CommitFails, mirrorVars
  <2>2. code \in Codes
    BY DEF Codes
  <2> HIDE DEF code
  <2> QED
    BY <1>0, <1>1, <2>1, <2>2
<1>6. MirrorInv /\ CommitEnds(o) => MirrorInv'
  <2> SUFFICES ASSUME MirrorInv, CommitEnds(o) PROVE MirrorInv'
    OBVIOUS
  <2> DEFINE code == IF job[o].kind = "rollback" /\ mirror # shelf[job[o].version]
                     THEN "unconverged"
                     ELSE IF job[o].moved THEN "restart_martin"
                     ELSE IF job[o].unknown /\ job[o].kind = "apply" THEN "unknown_kept"
                     ELSE "ok"
  <2>1. /\ End(o, code) /\ pc[o] # "idle"
        /\ UNCHANGED <<shelf, current, mirror, temp, strayed, provenance>>
    BY DEF CommitEnds, mirrorVars
  <2>2. code \in Codes
    BY DEF Codes
  <2> HIDE DEF code
  <2> QED
    BY <1>0, <1>1, <2>1, <2>2
<1>7. MirrorInv /\ Kill(o) => MirrorInv'
  BY <1>0, <1>1 DEF Kill, mirrorVars, Codes
<1>8. \A code \in {"ok", "unreadable"} : MirrorInv /\ SyncEnds(o, code) => MirrorInv'
  BY <1>0, <1>1 DEF SyncEnds, mirrorVars, Codes
<1>9. ASSUME NEW after \in BOOLEAN, MirrorInv, SwitchFails(o, after) PROVE MirrorInv'
  <2>1. /\ End(o, "failed") /\ pc[o] # "idle" /\ UNCHANGED <<shelf, mirror, strayed, provenance>>
        /\ temp' = EmptyTree
    BY <1>9 DEF SwitchFails
  <2>2. current' \in Shelved
    BY <1>9 DEF SwitchFails, MirrorInv, MirrorType
  <2> QED
    BY <1>1, <1>9, <2>1, <2>2, EndKeeps DEF Codes
<1> QED
  BY <1>2, <1>3, <1>4, <1>5, <1>6, <1>7, <1>8, <1>9

LEMMA HandPlaceKeeps == \A r \in HandPaths : MirrorInv /\ HandPlace(r) => MirrorInv'
<1> SUFFICES ASSUME NEW r \in HandPaths, MirrorInv, HandPlace(r) PROVE MirrorInv'
  OBVIOUS
<1>1. /\ mirror' = [mirror EXCEPT ![r] = Junk] /\ strayed' = TRUE
      /\ overlapped' = (overlapped \/ \E o \in Operators : pc[o] # "idle")
      /\ UNCHANGED <<shelf, current, temp, pc, job, exit, provenance>>
  BY DEF HandPlace
<1>2. MirrorType
  BY DEF MirrorInv
<1>3. MirrorType'
  <2>1. r \in Rels /\ mirror' \in [Rels -> Files]
    BY <1>1, <1>2, RecordAssumption DEF MirrorType, Files
  <2> QED
    BY <1>1, <1>2, <2>1 DEF MirrorType, Shelved
<1>4. \A v \in Shelved' : TreeFits(shelf[v])'
  BY <1>1 DEF MirrorInv, Shelved, TreeFits, OneFile
<1>5. \A o \in Operators : JobFits(o)'
  BY <1>1 DEF MirrorInv, JobFits
<1>6. ~overlapped' => AloneInv'
  BY <1>1 DEF AloneInv, DeployAlone, RepairAlone
<1> QED
  BY <1>1, <1>3, <1>4, <1>5, <1>6 DEF MirrorInv

\* A collected version takes nothing with it that the scripts look at, or it is marked.
LEMMA CollectKeeps == \A v \in Versions : MirrorInv /\ Collect(v) => MirrorInv'
<1> SUFFICES ASSUME NEW v \in Versions, MirrorInv, Collect(v) PROVE MirrorInv'
  OBVIOUS
<1>1. /\ v \in Shelved /\ v # current /\ shelf' = [shelf EXCEPT ![v] = Gone]
      /\ strayed' = (strayed \/ \E r \in Rels :
                      mirror[r] \notin Recorded(r) \cup {Absent}
                         \cup {shelf[w][r] : w \in Shelved \ {v}})
      /\ UNCHANGED <<current, mirror, temp, pc, job, exit, overlapped, provenance>>
  BY DEF Collect
<1>2. MirrorType
  BY DEF MirrorInv
<1>3. /\ shelf'[v] = Gone /\ \A w \in Versions \ {v} : shelf'[w] = shelf[w]
      /\ Shelved' = Shelved \ {v}
  BY <1>1, <1>2 DEF MirrorType, Shelved
<1>4. MirrorType'
  <2>1. shelf' \in [Versions -> Tree \cup {NoTree, Gone}]
    BY <1>1, <1>2 DEF MirrorType
  <2>2. strayed' \in BOOLEAN
    BY <1>1, <1>2 DEF MirrorType
  <2>3. current \in Shelved'
    BY <1>1, <1>2, <1>3 DEF MirrorType
  <2> QED
    BY <1>1, <1>2, <2>1, <2>2, <2>3 DEF MirrorType
<1>5. \A w \in Shelved' : TreeFits(shelf[w])'
  BY <1>1, <1>3 DEF MirrorInv, Shelved, TreeFits, OneFile
<1>6. \A o \in Operators : JobFits(o)'
  BY <1>1 DEF MirrorInv, JobFits
<1>7. ASSUME ~overlapped PROVE AloneInv'
  <2>1. AloneInv /\ current \in Versions
    BY <1>2, <1>7 DEF MirrorInv, MirrorType, Shelved
  <2>2. \A w \in Versions \ {v} : Tiles(w)' = Tiles(w)
    BY <1>3 DEF Tiles
  <2>3. ASSUME NEW o \in Operators PROVE DeployAlone(o)' /\ RepairAlone(o)'
    <3>1. DeployAlone(o) /\ RepairAlone(o) /\ JobFits(o) /\ job[o] \in Jobs
      BY <1>2, <2>1 DEF AloneInv, MirrorInv, MirrorType
    <3>2. DeployAlone(o)'
      <4>1. pc[o] \in {"assembled", "staged"} => job[o].version # v /\ job[o].version \in Versions
        BY <1>1, <3>1 DEF DeployAlone, JobFits, Shelved
      <4>2. shelf'[current] = shelf[current] /\ (~strayed' => ~strayed)
        BY <1>1, <1>3, <2>1
      <4> QED
        BY <1>1, <1>3, <3>1, <4>1, <4>2 DEF DeployAlone
    <3>3. ASSUME NEW open, job[o].version \in Versions \ {v}, Covers(job[o], open)
          PROVE  /\ \A r \in Tiles(job[o].version)' :
                        \/ mirror'[r] = shelf'[job[o].version][r]
                        \/ [rel |-> r, sha |-> shelf'[job[o].version][r]] \in open
                 /\ \A f \in job[o].place :
                        f.rel \in Tiles(job[o].version)' /\ f.sha = shelf'[job[o].version][f.rel]
                 /\ job[o].unknown => strayed'
      BY <1>1, <1>3, <2>2, <3>3 DEF Covers
    <3>4. job[o].version \in Versions \ {v} =>
              /\ Covers(job[o], job[o].place) => Covers(job[o], job[o].place)'
              /\ Covers(job[o], job[o].todo) => Covers(job[o], job[o].todo)'
      BY <1>1, <2>2, <3>3 DEF Covers
    <3>5. RepairAlone(o)'
      <4>1. pc[o] \in {"switched", "unhome", "place"} => job[o].version \in Versions \ {v}
        BY <1>1, <2>1, <3>1 DEF RepairAlone
      <4>2. pc[o] = "prepare" /\ job[o].version \in Shelved' => job[o].version \in Versions \ {v}
        BY <1>3 DEF Shelved
      <4> QED
        BY <1>1, <1>3, <3>1, <3>4, <4>1, <4>2 DEF RepairAlone, Prepared, MovingFiles
    <3> QED
      BY <3>2, <3>5
  <2>4. ASSUME ~strayed'
        PROVE  OneFile(mirror)' /\ \A r \in Rels : mirror'[r] \in Known(r)' \cup {Absent}
    <3>1. OneFile(mirror)'
      BY <1>1, <2>1, <2>4 DEF AloneInv, OneFile
    <3>2. ASSUME NEW r \in Rels PROVE mirror'[r] \in Known(r)' \cup {Absent}
      <4>1. mirror[r] \in Recorded(r) \cup {Absent} \cup {shelf[w][r] : w \in Shelved \ {v}}
        BY <1>1, <2>4
      <4>2. \A w \in Shelved \ {v} : w \in Shelved' /\ shelf[w][r] = shelf'[w][r]
        BY <1>3 DEF Shelved
      <4> QED
        BY <1>1, <4>1, <4>2 DEF Known
    <3> QED
      BY <3>1, <3>2
  <2> QED
    BY <1>1, <2>1, <2>3, <2>4 DEF AloneInv
<1> QED
  BY <1>1, <1>4, <1>5, <1>6, <1>7 DEF MirrorInv

-----------------------------------------------------------------------------
(* The invariant                                                           *)

LEMMA MirrorInvInit == Init => MirrorInv
<1> SUFFICES ASSUME Init PROVE MirrorInv
  OBVIOUS
<1> PICK v \in Versions :
        /\ shelf = [w \in Versions |-> IF w = v THEN FirstTree ELSE NoTree]
        /\ current = v
  BY DEF Init
<1>1. /\ mirror = FirstTree /\ temp = EmptyTree /\ pc = [o \in Operators |-> "idle"]
      /\ job = [o \in Operators |-> NoJob] /\ exit = [o \in Operators |-> "none"]
      /\ overlapped = FALSE /\ strayed = FALSE
      /\ provenance = [r \in Rels |-> Recorded(r) \cup {FirstTree[r]}]
  BY DEF Init
<1>2. FirstTree \in Tree
  BY RecordAssumption DEF Tree
<1>3. Shelved = {v} /\ shelf[v] = FirstTree
  BY <1>2, RecordAssumption DEF Shelved, Tree
<1>4. MirrorType
  <2>1. shelf \in [Versions -> Tree \cup {NoTree, Gone}] /\ current \in Shelved
    BY <1>2, <1>3
  <2>2. mirror \in [Rels -> Files] /\ temp \in Tree
    BY <1>1, <1>2, NoJobIs DEF Tree, Files
  <2>3. provenance \in [Rels -> SUBSET (Contents \cup {Absent})]
    BY <1>1, <1>2, RecordedIs DEF Tree
  <2> QED
    BY <1>1, <2>1, <2>2, <2>3, NoJobIs DEF MirrorType, Stages, Codes
<1>5. OneFile(FirstTree)
  BY TilesetAssumption DEF OneFile
<1>6. TreeFits(shelf[v])
  <2>1. \A s \in FromPaths : FirstTree[s] \in Recorded(s) \cup {Absent}
    BY TilesetAssumption DEF FromPaths
  <2>2. \A r \in Rels : FirstTree[r] \in provenance[r]
    BY <1>1
  <2> QED
    BY <1>3, <1>5, <2>1, <2>2 DEF TreeFits
<1>7. \A r \in Rels : Recorded(r) \subseteq provenance[r]
  BY <1>1
<1>8. \A o \in Operators : JobFits(o)
  BY <1>1, NoJobIs DEF JobFits
<1>9. AloneInv
  <2>1. \A o \in Operators : DeployAlone(o) /\ RepairAlone(o)
    BY <1>1 DEF DeployAlone, RepairAlone
  <2>2. \A r \in Rels : mirror[r] \in Known(r)
    BY <1>1, <1>3 DEF Known
  <2> QED
    BY <1>1, <1>5, <2>1, <2>2 DEF AloneInv
<1> QED
  BY <1>3, <1>4, <1>6, <1>7, <1>8, <1>9 DEF MirrorInv

LEMMA MirrorInvStep == MirrorInv /\ [Next]_vars => MirrorInv'
<1> SUFFICES ASSUME MirrorInv, [Next]_vars PROVE MirrorInv'
  OBVIOUS
<1>1. CASE UNCHANGED vars
  BY <1>1 DEF vars, mirrorVars, MirrorInv, MirrorType, Shelved, TreeFits, OneFile, JobFits,
      AloneInv, DeployAlone, RepairAlone, Covers, Prepared, Tiles, MovingFiles, Known
<1>2. ASSUME NEW o \in Operators, Deploy(o) PROVE MirrorInv'
  <2>1. CASE \E v \in Versions, built \in Tree, frontend \in BOOLEAN :
                 StartDeploy(o, v, built, frontend)
    BY <2>1, StartDeployKeeps
  <2>2. CASE ApplyStaging(o)
    BY <2>2, ApplyStagingKeeps
  <2>3. CASE \E durable \in BOOLEAN : Activate(o, durable)
    BY <2>3, ActivateKeeps
  <2>4. CASE \E r \in Rels : RetireFromMirror(o, r)
    BY <2>4, RetireKeeps
  <2>5. CASE \E r \in Rels : SyncFile(o, r)
    BY <2>5, SyncFileKeeps
  <2>6. CASE StartSync(o) \/ RetireFails(o)
    BY <2>6, SyncStartsKeep
  <2>7. CASE \/ ActivateFails(o) \/ SyncFails(o)
             \/ \E code \in {"ok", "unreadable"} : SyncEnds(o, code)
    BY <2>7, EndsKeep
  <2> QED
    BY <1>2, <2>1, <2>2, <2>3, <2>4, <2>5, <2>6, <2>7 DEF Deploy
<1>3. ASSUME NEW o \in Operators, Reconcile(o) PROVE MirrorInv'
  BY <1>3, StartApplyKeeps, PrepareKeeps, PlaceKeeps, EndsKeep, StartCommitKeeps, RemoveKeeps
     DEF Reconcile
<1>4. ASSUME NEW o \in Operators, RollbackScript(o) PROVE MirrorInv'
  BY <1>4, StartRollbackKeeps, SwitchKeeps, EndsKeep DEF RollbackScript
<1>5. ASSUME NEW o \in Operators, Kill(o) PROVE MirrorInv'
  BY <1>5, EndsKeep
<1> QED
  BY <1>1, <1>2, <1>3, <1>4, <1>5, HandPlaceKeeps, CollectKeeps DEF Next

-----------------------------------------------------------------------------
(* What a step never does                                                  *)

LEMMA UnknownStays == MirrorInv /\ [Next]_vars => UnknownIsKept
<1> SUFFICES ASSUME MirrorInv, [Next]_vars, NEW r \in Rels, mirror[r] # Absent, mirror'[r] = Absent
             PROVE  mirror[r] \in provenance[r]
  BY DEF UnknownIsKept
<1>0. MirrorType /\ Recorded(r) \subseteq provenance[r]
  BY DEF MirrorInv
<1>1. CASE UNCHANGED mirror
  BY <1>1
<1>2. CASE \E q \in HandPaths : HandPlace(q)
  <2> PICK q \in HandPaths : mirror' = [mirror EXCEPT ![q] = Junk]
    BY <1>2 DEF HandPlace
  <2> QED
    BY <1>0, RecordAssumption DEF MirrorType
<1>3. ASSUME NEW o \in Operators, NEW q \in Rels, RetireFromMirror(o, q)
      PROVE  mirror[r] \in provenance[r]
  BY <1>0, <1>3 DEF RetireFromMirror, MirrorType
<1>4. ASSUME NEW o \in Operators, NEW q \in Rels, SyncFile(o, q)
      PROVE  mirror[r] \in provenance[r]
  BY <1>0, <1>4 DEF SyncFile, MirrorType
<1>5. ASSUME NEW o \in Operators, NEW f \in job[o].todo, PlaceFile(o, f)
      PROVE  mirror[r] \in provenance[r]
  BY <1>0, <1>5 DEF PlaceFile, Place, MirrorType
<1>6. ASSUME NEW o \in Operators, NEW f \in job[o].remove, RemoveMoving(o, f) \/ RemoveRest(o, f)
      PROVE  mirror[r] \in provenance[r]
  <2>1. mirror' = IF mirror[f.rel] = f.sha THEN [mirror EXCEPT ![f.rel] = Absent] ELSE mirror
    BY <1>6 DEF RemoveMoving, RemoveRest, RemoveFile
  <2>2. f.sha \in provenance[f.rel]
    BY DEF MirrorInv, JobFits
  <2> QED
    BY <1>0, <2>1, <2>2 DEF MirrorType
<1>7. ASSUME NEW o \in Operators, Deploy(o) PROVE mirror[r] \in provenance[r]
  <2>1. \/ UNCHANGED mirror \/ \E q \in Rels : RetireFromMirror(o, q) \/ SyncFile(o, q)
    BY <1>7 DEF Deploy, StartDeploy, ApplyStaging, ActivateFails, Activate, StartSync, RetireFails,
                SyncFails, SyncEnds, mirrorVars
  <2> QED
    BY <1>1, <1>3, <1>4, <2>1
<1>8. ASSUME NEW o \in Operators, Reconcile(o) PROVE mirror[r] \in provenance[r]
  <2>1. \/ UNCHANGED mirror \/ \E f \in job[o].todo : PlaceFile(o, f)
        \/ \E f \in job[o].remove : RemoveMoving(o, f) \/ RemoveRest(o, f)
    BY <1>8 DEF Reconcile, StartApply, PrepareFile, PrepareFails, StartCommit, CommitFails,
                CommitEnds, mirrorVars
  <2> QED
    BY <1>1, <1>5, <1>6, <2>1
<1>9. ASSUME NEW o \in Operators, RollbackScript(o) \/ Kill(o) PROVE UNCHANGED mirror
  BY <1>9 DEF RollbackScript, StartRollback, Switch, SwitchFails, Kill, mirrorVars
<1>10. CASE \E v \in Versions : Collect(v)
  BY <1>1, <1>10 DEF Collect
<1> QED
  BY <1>1, <1>2, <1>7, <1>8, <1>9, <1>10 DEF Next, vars, mirrorVars

\* Where a script ends with a success.
LEMMA EndsOf ==
    ASSUME MirrorInv, [Next]_vars, NEW o \in Operators, job[o].kind \in {"rollback", "apply"},
           pc'[o] = "idle"
    PROVE  CommitEnds(o) \/ exit'[o] \in {"failed", "unconverged", "killed"}
<1>0. /\ MirrorType /\ JobFits(o) /\ pc[o] # "idle"
      /\ pc[o] \notin {"assembled", "staged", "retire", "sync"}
  BY NoJobIs DEF MirrorInv, JobFits
<1>1. ASSUME NEW p \in Operators, NEW at, NEW j, Continue(p, at, j), at # "idle"
      PROVE  FALSE
  BY <1>0, <1>1 DEF Continue, MirrorType
<1>2. ASSUME NEW p \in Operators, NEW at, NEW j, Start(p, at, j), at # "idle" PROVE FALSE
  BY <1>0, <1>2 DEF Start, MirrorType
<1>3. ASSUME NEW p \in Operators, NEW code, End(p, code) PROVE p = o /\ exit'[o] = code
  BY <1>0, <1>3 DEF End, MirrorType
<1>4. ~UNCHANGED pc
  BY <1>0
<1>5. ASSUME NEW p \in Operators, Deploy(p) PROVE FALSE
  <2>1. CASE \E v \in Versions, built \in Tree, frontend \in BOOLEAN :
                 StartDeploy(p, v, built, frontend)
    BY <1>2, <2>1 DEF StartDeploy
  <2>2. CASE ApplyStaging(p)
    BY <1>0, <1>1, <1>3, <2>2 DEF ApplyStaging
  <2>3. CASE \E durable \in BOOLEAN : Activate(p, durable)
    BY <1>0, <1>1, <1>3, <2>3 DEF Activate
  <2>4. CASE \/ ActivateFails(p) \/ SyncFails(p)
             \/ \E code \in {"ok", "unreadable"} : SyncEnds(p, code)
    BY <1>0, <1>3, <2>4 DEF ActivateFails, SyncFails, SyncEnds
  <2>5. CASE \E r \in Rels : RetireFromMirror(p, r)
    BY <1>1, <2>5 DEF RetireFromMirror
  <2>6. CASE \E r \in Rels : SyncFile(p, r)
    BY <1>0, <1>1, <1>3, <2>6 DEF SyncFile
  <2>7. CASE StartSync(p) \/ RetireFails(p)
    BY <1>1, <2>7 DEF StartSync, RetireFails
  <2> QED
    BY <1>5, <2>1, <2>2, <2>3, <2>4, <2>5, <2>6, <2>7 DEF Deploy
<1>6. ASSUME NEW p \in Operators, Reconcile(p)
      PROVE  CommitEnds(o) \/ exit'[o] \in {"failed", "unconverged", "killed"}
  <2>1. CASE StartApply(p)
    BY <1>2, <2>1 DEF StartApply
  <2>2. CASE \E f \in job[p].todo : PrepareFile(p, f)
    BY <1>1, <2>2 DEF PrepareFile
  <2>3. CASE \E f \in job[p].todo : PlaceFile(p, f)
    BY <1>1, <1>3, <2>3 DEF PlaceFile, Place
  <2>4. CASE PrepareFails(p) \/ CommitFails(p)
    BY <1>3, <2>4 DEF PrepareFails, CommitFails
  <2>5. CASE StartCommit(p)
    BY <1>1, <2>5 DEF StartCommit
  <2>6. CASE \E f \in job[p].remove : RemoveMoving(p, f) \/ RemoveRest(p, f)
    BY <1>1, <2>6 DEF RemoveMoving, RemoveRest, RemoveFile
  <2>7. CASE CommitEnds(p)
    BY <1>3, <2>7 DEF CommitEnds
  <2> QED
    BY <1>6, <2>1, <2>2, <2>3, <2>4, <2>5, <2>6, <2>7 DEF Reconcile
<1>7. ASSUME NEW p \in Operators, RollbackScript(p) \/ Kill(p)
      PROVE  exit'[o] \in {"failed", "unconverged", "killed"}
  <2>1. CASE \E v \in Versions, override \in BOOLEAN : StartRollback(p, v, override)
    BY <1>2, <2>1 DEF StartRollback
  <2>2. CASE Switch(p)
    BY <1>1, <2>2 DEF Switch
  <2>3. CASE \E after \in BOOLEAN : SwitchFails(p, after)
    BY <1>3, <2>3 DEF SwitchFails
  <2>4. CASE Kill(p)
    BY <1>3, <2>4 DEF Kill
  <2> QED
    BY <1>7, <2>1, <2>2, <2>3, <2>4 DEF RollbackScript
<1>8. ~(\E r \in HandPaths : HandPlace(r)) /\ ~(\E v \in Versions : Collect(v))
  BY <1>4 DEF HandPlace, Collect
<1> QED
  BY <1>4, <1>5, <1>6, <1>7, <1>8 DEF Next, vars

LEMMA SuccessIsConverged == MirrorInv /\ [Next]_vars => SuccessMeansConverged
<1> SUFFICES ASSUME MirrorInv, [Next]_vars, NEW o \in Operators,
                    job[o].kind \in {"rollback", "apply"}, pc'[o] = "idle", ~overlapped
             PROVE  /\ exit'[o] = "ok" => mirror' = shelf'[current']
                    /\ exit'[o] = "restart_martin" =>
                          \A r \in Tiles(current) : mirror'[r] = shelf'[current'][r]
  BY DEF SuccessMeansConverged
<1>1. MirrorType /\ current \in Shelved /\ shelf[current] \in Tree
  BY ShelvedIs DEF MirrorInv, MirrorType
<1>2. CASE CommitEnds(o)
  <2>1. /\ pc[o] \in {"unhome", "place"} /\ job[o].todo = {} /\ job[o].remove = {}
        /\ UNCHANGED <<shelf, current, mirror>>
    BY <1>2 DEF CommitEnds, mirrorVars
  <2>2. job[o].version = current /\ Covers(job[o], job[o].todo)
    BY <2>1 DEF MirrorInv, AloneInv, RepairAlone
  <2>3. \A r \in Tiles(current) : mirror[r] = shelf[current][r]
    BY <2>1, <2>2 DEF Covers
  <2>4. ASSUME exit'[o] = "ok" PROVE mirror = shelf[current]
    <3>1. CASE job[o].kind = "rollback"
      <4>1. mirror = shelf[job[o].version]
        BY <1>1, <1>2, <2>4, <3>1 DEF CommitEnds, End, MirrorType
      <4> QED
        BY <2>2, <4>1
    <3>2. CASE job[o].kind = "apply"
      <4>1. ~job[o].unknown
        BY <1>1, <1>2, <2>4, <3>2 DEF CommitEnds, End, MirrorType
      <4>2. \A r \in Rels \ Tiles(current) : mirror[r] = Absent
        BY <2>1, <2>2, <4>1 DEF Covers
      <4>3. \A r \in Rels : mirror[r] = shelf[current][r]
        BY <2>3, <4>2 DEF Tiles
      <4> QED
        BY <1>1, <4>3 DEF MirrorType, Tree
    <3> QED
      BY <3>1, <3>2
  <2> QED
    BY <2>1, <2>3, <2>4
<1>3. CASE exit'[o] \in {"failed", "unconverged", "killed"}
  BY <1>3
<1> QED
  BY <1>2, <1>3, EndsOf

\* For every set of operators, versions, tiles and records, however the scripts, the collector
\* and hands interleave: a step of a deploy, a rollback or a repair gives no tileset two files,
\* reports no success that is none, and removes nothing of unknown origin.
THEOREM MirrorIsSound == Spec => MirrorStaysSound
<1>1. Init => MirrorInv
  BY MirrorInvInit
<1>2. MirrorInv /\ [Next]_vars => MirrorInv'
  BY MirrorInvStep
<1>3. MirrorInv /\ MirrorInv' /\ [Next]_vars
      => OneFilePerTileset' /\ SuccessMeansConverged /\ UnknownIsKept
  <2>1. MirrorInv' => OneFilePerTileset'
    BY DEF MirrorInv, AloneInv, OneFile, OneFilePerTileset
  <2> QED
    BY <2>1, UnknownStays, SuccessIsConverged
<1> QED
  BY <1>1, <1>2, <1>3, PTL DEF Spec, MirrorStaysSound

-----------------------------------------------------------------------------
(* What a staged tree must satisfy *)

\* What the manifest of the served version says was found by its rules.
FoundSo(version) ==
    \A p \in DOMAIN version.manifest :
        /\ FileIsValid(p, version.manifest[p], version.contract)
        /\ IsGeo(p) => version.counts[p] \in FileCount(p, version.manifest[p], version.contract)

VersionFields == {"files", "manifest", "counts", "contract", "migrated"}

StagingInv ==
    served # NoVersion =>
        DOMAIN served = VersionFields /\ served.manifest \in Stagings /\ FoundSo(served)

LEMMA ReusableIsFound ==
    ASSUME NEW tree, NEW reuse, NEW migration, NEW p \in Reusable(tree, reuse, migration)
    PROVE  /\ served # NoVersion /\ served.contract = contract
           /\ p \in DOMAIN tree /\ p \in DOMAIN served.manifest /\ served.manifest[p] = tree[p]
  BY DEF Reusable, Paths

\* What a publish counts in a file, taken over or not.
CountOf(tree, reuse, migration, p) ==
    IF p \in Reusable(tree, reuse, migration) THEN served.counts[p]
    ELSE CHOOSE n \in FileCount(p, tree[p], contract) : TRUE

LEMMA PublishedCounts ==
    ASSUME NEW tree, NEW reuse, NEW migration, NEW ref, Validated(tree, reuse, migration, ref)
    PROVE  /\ served'.files = tree /\ served'.manifest = tree /\ served'.contract = contract
           /\ served'.migrated = migration /\ DOMAIN served' = VersionFields
           /\ \A p \in DOMAIN tree : IsGeo(p) =>
                 served'.counts[p] = CountOf(tree, reuse, migration, p)
           /\ \A p \in DOMAIN tree \ Reusable(tree, reuse, migration) : FileIsValid(p, tree[p], contract)
  BY DEF Validated, CountOf, Paths, VersionFields

LEMMA PublishingFinds ==
    ASSUME StagingInv, NEW tree \in Stagings, NEW reuse, NEW migration, NEW ref,
           PublishStaging(tree, reuse, migration, ref)
    PROVE  StagingInv'
<1>1. /\ served'.manifest = tree /\ served'.contract = contract /\ DOMAIN served' = VersionFields
      /\ \A p \in DOMAIN tree : IsGeo(p) => served'.counts[p] = CountOf(tree, reuse, migration, p)
      /\ \A p \in DOMAIN tree \ Reusable(tree, reuse, migration) : FileIsValid(p, tree[p], contract)
  BY PublishedCounts DEF PublishStaging
<1>2. ASSUME NEW p \in DOMAIN tree
      PROVE  /\ FileIsValid(p, tree[p], contract)
             /\ IsGeo(p) => CountOf(tree, reuse, migration, p) \in FileCount(p, tree[p], contract)
  <2>1. CASE p \in Reusable(tree, reuse, migration)
    <3>1. /\ served # NoVersion /\ served.contract = contract
          /\ p \in DOMAIN served.manifest /\ served.manifest[p] = tree[p]
      BY <2>1, ReusableIsFound
    <3>2. FoundSo(served)
      BY <3>1 DEF StagingInv
    <3> QED
      BY <2>1, <3>1, <3>2 DEF FoundSo, CountOf
  <2>2. CASE p \notin Reusable(tree, reuse, migration)
    <3>1. FileIsValid(p, tree[p], contract)
      BY <1>1, <2>2
    <3>2. FileCount(p, tree[p], contract) # {}
      BY <3>1 DEF FileIsValid
    <3> QED
      BY <2>2, <3>1, <3>2 DEF CountOf
  <2> QED
    BY <2>1, <2>2
<1>3. FoundSo(served)'
  BY <1>1, <1>2 DEF FoundSo
<1> QED
  BY <1>1, <1>3 DEF StagingInv

LEMMA StagingInvStep == StagingInv /\ [StagingNext]_stagingVars => StagingInv'
<1> SUFFICES ASSUME StagingInv, [StagingNext]_stagingVars PROVE StagingInv'
  OBVIOUS
<1>1. CASE \E tree \in Stagings, reuse, migration \in BOOLEAN, ref \in {Ref, ""} :
               PublishStaging(tree, reuse, migration, ref)
  BY <1>1, PublishingFinds
<1>2. ASSUME served # NoVersion, NEW q, Damage(q) PROVE StagingInv'
  <2> DEFINE files == [served.files EXCEPT ![q].form = "broken"]
  <2>1. served' = [served EXCEPT !.files = files]
    BY <1>2 DEF Damage
  <2>2. DOMAIN served = VersionFields /\ served.manifest \in Stagings /\ FoundSo(served)
    BY <1>2 DEF StagingInv
  <2> HIDE DEF files
  <2>3. /\ DOMAIN served' = VersionFields /\ served'.manifest = served.manifest
        /\ served'.contract = served.contract /\ served'.counts = served.counts
    BY <2>1, <2>2 DEF VersionFields
  <2> QED
    BY <2>2, <2>3 DEF StagingInv, FoundSo
<1>3. CASE served' = served
  BY <1>3 DEF StagingInv, FoundSo
<1> QED
  BY <1>1, <1>2, <1>3 DEF StagingNext, RulesChange, ConfigChanges, stagingVars

\* Whatever was taken over from the version before (runtime_dataset_validate.py, the reuse of
\* what the last validation found), every file of the served version satisfied the rules that
\* its manifest names, and its counts are of what was published.
THEOREM WhatIsReusedWasFound == StagingSpec => []ReuseIsSound
<1>1. StagingInit => StagingInv
  BY DEF StagingInit, StagingInv
<1>2. StagingInv => ReuseIsSound
  BY DEF StagingInv, FoundSo, ReuseIsSound
<1> QED
  BY <1>1, <1>2, StagingInvStep, PTL DEF StagingSpec

\* A file that passes with this many features has as many, or it is a single geometry.
LEMMA CountsAreOfTheFile ==
    ASSUME NEW p, IsGeo(p), NEW content, NEW rules, NEW n \in FileCount(p, content, rules)
    PROVE  n = Counted(p, content) \/ n = 1
<1>1. CASE p.suffix = ".geojson"
  <2>1. n \in DocumentCount(content, p.type, rules)
    BY <1>1 DEF FileCount
  <2> QED
    BY <1>1, <2>1 DEF DocumentCount, Counted, GeometryTypes
<1>2. CASE p.suffix = ".geojsonl"
  <2>1. content.form = "Feature" /\ n = content.items
    BY <1>2 DEF FileCount
  <2> QED
    BY <1>2, <2>1 DEF Counted
<1> QED
  BY <1>1, <1>2 DEF IsGeo

LEMMA CountsAreNumbers ==
    ASSUME NEW tree \in Stagings, NEW p \in DOMAIN tree
    PROVE  Counted(p, tree[p]) \in Nat
  BY StagingAssumption DEF Counted

LEMMA PublishingLosesLittle ==
    ASSUME StagingInv, served # NoVersion, NEW tree \in Stagings, NEW reuse \in BOOLEAN,
           NEW migration \in BOOLEAN, NEW ref, PublishStaging(tree, reuse, migration, ref),
           NEW p \in DOMAIN served.manifest, IsGeo(p),
           Counted(p, served.manifest[p]) >= Baseline
    PROVE  \/ p \in DOMAIN tree /\ 2 * Counted(p, tree[p]) >= Counted(p, served.manifest[p])
           \/ migration /\ IsLegacyFlood(p)
<1> DEFINE n == Counted(p, served.manifest[p])
           reusable == Reusable(tree, reuse, migration)
           reuseIsOn == reuse /\ served # NoVersion /\ ~migration /\ served.contract = contract
           paths == IF reuseIsOn THEN DOMAIN served.manifest \ reusable ELSE DOMAIN served.files
           before == GeoCounts(served.files, paths)
           counts == [q \in {r \in DOMAIN tree : IsGeo(r)} |-> CountOf(tree, reuse, migration, q)]
<1>1. /\ served.files = served.manifest
      /\ \A q \in DOMAIN tree \ reusable : FileIsValid(q, tree[q], contract)
      /\ \A q \in (DOMAIN before \cap DOMAIN tree) \ reusable : ~DroppedByHalf(before[q], counts[q])
      /\ \A q \in DOMAIN before \ (DOMAIN tree \cup {r \in DOMAIN before : migration /\ IsLegacyFlood(r)}) :
            before[q] < Baseline
  BY DEF PublishStaging, Validated, ManifestMatchesDisk, CountOf, Paths
<1>2. n \in Nat /\ n >= Baseline
  BY CountsAreNumbers DEF StagingInv
<1>3. CASE p \in reusable
  <2>1. p \in DOMAIN tree /\ tree[p] = served.manifest[p]
    BY <1>3, ReusableIsFound
  <2> HIDE DEF n
  <2>2. 2 * n >= n
    BY <1>2
  <2> QED
    BY <2>1, <2>2 DEF n
<1>4. CASE p \notin reusable
  <2>1. p \in DOMAIN before /\ before[p] = n
    BY <1>1, <1>4 DEF GeoCounts
  <2> HIDE DEF before, n, reusable, paths
  <2>2. CASE p \in DOMAIN tree
    <3> DEFINE m == counts[p]
    <3>1. ~DroppedByHalf(n, m)
      BY <1>1, <1>4, <2>1, <2>2
    <3>2. m = CHOOSE k \in FileCount(p, tree[p], contract) : TRUE
      BY <1>4, <2>2 DEF CountOf, reusable
    <3>3. FileCount(p, tree[p], contract) # {}
      BY <1>1, <1>4, <2>2 DEF FileIsValid
    <3>4. m \in FileCount(p, tree[p], contract)
      BY <3>2, <3>3
    <3> HIDE DEF m
    <3>5. m = Counted(p, tree[p]) \/ m = 1
      BY <3>4, CountsAreOfTheFile
    <3>6. Counted(p, tree[p]) \in Nat
      BY <2>2, CountsAreNumbers
    <3>7. 2 * m >= n
      BY <1>2, <3>1, <3>5, <3>6 DEF DroppedByHalf
    <3>8. m # 1
      BY <1>2, <3>7 DEF Baseline
    <3> QED
      BY <2>2, <3>5, <3>7, <3>8 DEF n
  <2>3. CASE p \notin DOMAIN tree
    <3>1. n < Baseline => FALSE
      BY <1>2 DEF Baseline
    <3> QED
      BY <1>1, <2>1, <2>3, <3>1
  <2> QED
    BY <2>2, <2>3
<1> QED
  BY <1>3, <1>4

\* No publish loses a dataset that was served, or more than half of it, but for the legacy flood
\* files of an approved migration, whether or not it took over what the last one found
\* (runtime_dataset_validate.py, the comparison with the previous version).
THEOREM NothingServedVanishes == StagingSpec => NothingVanishes
<1> DEFINE Lost(p) ==
             LET before == Counted(p, served.manifest[p]) IN
             IsGeo(p) /\ before >= Baseline =>
                 \/ p \in DOMAIN served'.manifest
                         /\ 2 * Counted(p, served'.manifest[p]) >= before
                 \/ served'.migrated /\ IsLegacyFlood(p)
           Step == served # NoVersion /\ served'.manifest # served.manifest =>
                       \A p \in DOMAIN served.manifest : Lost(p)
<1>1. StagingInit => StagingInv
  BY DEF StagingInit, StagingInv
<1>2. ASSUME StagingInv, [StagingNext]_stagingVars PROVE [Step]_stagingVars
  <2> SUFFICES ASSUME served # NoVersion, served'.manifest # served.manifest,
                      NEW p \in DOMAIN served.manifest
               PROVE  Lost(p)
    OBVIOUS
  <2>1. DOMAIN served = VersionFields
    BY <1>2 DEF StagingInv
  <2>2. ASSUME NEW q, Damage(q) PROVE FALSE
    <3> DEFINE files == [served.files EXCEPT ![q].form = "broken"]
    <3>1. served' = [served EXCEPT !.files = files]
      BY <2>2 DEF Damage
    <3> HIDE DEF files
    <3> QED
      BY <2>1, <3>1 DEF VersionFields
  <2>3. PICK tree \in Stagings, reuse \in BOOLEAN, migration \in BOOLEAN, ref \in {Ref, ""} :
            PublishStaging(tree, reuse, migration, ref)
    BY <1>2, <2>2 DEF StagingNext, RulesChange, ConfigChanges, stagingVars
  <2>4. served'.manifest = tree /\ served'.migrated = migration
    BY <2>3, PublishedCounts DEF PublishStaging
  <2> QED
    BY <1>2, <2>3, <2>4, PublishingLosesLittle
<1> QED
  BY <1>1, <1>2, StagingInvStep, PTL DEF StagingSpec, NothingVanishes
=============================================================================
