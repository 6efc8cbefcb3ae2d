--------------------------- MODULE SourceContract ----------------------------
(***************************************************************************)
(* What a dataset may be made of (source_group.py), whether the files it   *)
(* was made of are the registered ones (source_identity.py) and how far    *)
(* their provenance is to be trusted (provenance_validity.py).             *)
(*                                                                         *)
(* A file is [name, size, sha], a raw file [file, members]: members are    *)
(* the files of a zip, <<>> when it is none.  A pattern is the set of      *)
(* names it matches, a region code what the expression of the definition   *)
(* extracts from a name.                                                   *)
(***************************************************************************)
EXTENDS Integers, Sequences, FiniteSets, SequencesExt

CONSTANTS
    Definitions,    \* dataset -> [mode, patterns, required, expected, code]
    CodeIn,         \* name -> the region code in it
    Missing           \* a field without a value

ASSUME SourceAssumption ==
    \A d \in DOMAIN Definitions :
        /\ Definitions[d].mode \in {"single", "all_required", "any_of", "optional_addons",
                                    "multi_batch", Missing}
        /\ Definitions[d].required \in Nat

-----------------------------------------------------------------------------
(* The set of files of one ingest *)

MatchedBy(pattern, names) == SelectSeq(names, LAMBDA n : n \in pattern)
MatchesAny(def, name) == \E i \in DOMAIN def.patterns : name \in def.patterns[i]
MissingPatterns(def, n, names) ==
    {i \in DOMAIN def.patterns : i <= n /\ MatchedBy(def.patterns[i], names) = <<>>}
DoubledPatterns(def, names) ==
    {i \in DOMAIN def.patterns : Len(MatchedBy(def.patterns[i], names)) > 1}
UnexpectedFiles(def, names) ==
    {n \in ToSet(names) : def.patterns # <<>> /\ ~MatchesAny(def, n)}

\* An optional addon is one whose pattern comes after the required ones.
RequiredPatterns(def) ==
    CASE def.mode = "all_required" -> Len(def.patterns)
      [] def.mode = "optional_addons" -> IF def.required = 0 THEN 1 ELSE def.required
      [] OTHER -> 0

\* evaluate_source_set(): ok.
SourceSetOk(def, names) ==
    /\ names # <<>>
    /\ def.mode \in {"single", "any_of"} => Len(names) = 1
    /\ def.mode = "any_of" => \E i \in DOMAIN def.patterns : MatchedBy(def.patterns[i], names) # <<>>
    /\ def.mode \notin {"multi_batch", Missing} => UnexpectedFiles(def, names) = {}
    /\ MissingPatterns(def, RequiredPatterns(def), names) = {}
    /\ def.mode \in {"all_required", "optional_addons"} => DoubledPatterns(def, names) = {}

NamesOf(files) == [i \in DOMAIN files |-> files[i].name]
IsZip(raw) == raw.members # <<>>

\* evaluate_stored_file(): a zip that is not itself an expected file is looked into.
StoredSetOk(def, raw) ==
    SourceSetOk(def, IF def.mode = Missing \/ MatchesAny(def, raw.file.name) \/ ~IsZip(raw)
                     THEN <<raw.file.name>> ELSE NamesOf(raw.members))

\* upload_start_evaluation(): before the bytes are there a zip is given the benefit.
UploadMayStart(def, raw) ==
    (def.mode # Missing /\ ~MatchesAny(def, raw.file.name) /\ IsZip(raw))
        \/ SourceSetOk(def, <<raw.file.name>>)

-----------------------------------------------------------------------------
(* The files that are recorded *)

\* _record_acquisition(): the members of a zip that tell something; with_region_members()
\* adds those whose name has a region code.
WantedMembers(def, raw, original) ==
    LET names == ToSet(NamesOf(raw.members))
        whole == MatchesAny(def, raw.file.name) \/ (Cardinality(original) <= 1 /\ def.patterns = <<>>)
        byName == CASE whole -> {}
                    [] ~whole /\ Cardinality(original) > 1 -> original
                    [] OTHER -> {n \in names : MatchesAny(def, n)}
        byCode == IF def.code = Missing \/ (whole /\ CodeIn[raw.file.name] # Missing) THEN {}
                  ELSE {n \in names : CodeIn[n] # Missing}
    IN  byName \cup byCode

\* describe_source_files(): the members, or the file itself.
RecordedFiles(def, raw, original) ==
    LET kept == SelectSeq(raw.members,
                          LAMBDA f : f.name \in WantedMembers(def, raw, original))
    IN  IF kept = <<>> THEN <<raw.file>> ELSE kept

-----------------------------------------------------------------------------
(* Are they the registered ones? *)

ShaByName(files) ==
    [n \in ToSet(NamesOf(files)) |->
        files[CHOOSE i \in DOMAIN files :
                  files[i].name = n /\ \A j \in DOMAIN files : files[j].name = n => j <= i].sha]

\* A file that differs from the registered one; a sha nobody noted differs from none.
Differs(def, actual, n) ==
    def.expected[n] # Missing /\ actual[n] # Missing /\ actual[n] # def.expected[n]

\* verify()
Identity(def, files) ==
    LET actual == ShaByName(files) IN
    CASE def.expected = <<>> \/ files = <<>> -> "SOURCE_UNKNOWN"
      [] DOMAIN actual # DOMAIN def.expected -> "SOURCE_MISMATCH"
      [] \E n \in DOMAIN actual : Differs(def, actual, n) -> "SOURCE_MISMATCH"
      [] \E n \in DOMAIN actual : Missing \in {actual[n], def.expected[n]} -> "SOURCE_READABLE"
      [] OTHER -> "EXPECTED_SOURCE_MATCH"

-----------------------------------------------------------------------------
(* How far are they to be trusted? *)

RegionCodes(def, names) == IF def.code = Missing THEN {} ELSE {CodeIn[n] : n \in names} \ {Missing}

\* _same_file(): by sha, or by name and size when one of them is not known.
SameFile(f, g) ==
    IF Missing \notin {f.sha, g.sha} THEN f.sha = g.sha
    ELSE f.name = g.name /\ f.size # Missing /\ f.size = g.size
SharesAFile(files, others) ==
    \E i \in DOMAIN files, j \in DOMAIN others : SameFile(files[i], others[j])

\* assess(); peers are records of other datasets.
Assess(def, r, peers) ==
    LET codes == RegionCodes(def, ToSet(NamesOf(r.files)))
        identity == Identity(def, r.files)
    IN  CASE r.files = <<>> -> "unknown"
          [] codes \ {def.code} # {} -> "provenance_mismatch"
          [] identity = "SOURCE_MISMATCH" -> "provenance_mismatch"
          [] codes = {} /\ \E q \in peers : q.dataset # r.dataset /\ SharesAFile(r.files, q.files) ->
                "provenance_suspect"
          [] r.method = "legacy_unknown" -> "unknown"
          [] identity # "EXPECTED_SOURCE_MATCH" -> "unknown"
          [] OTHER -> "valid"

\* assess_raw_region(): what the names in the raw file itself say.
RawOfOtherRegion(def, raw) ==
    RegionCodes(def, {raw.file.name} \cup ToSet(NamesOf(raw.members))) \ {def.code} # {}
=============================================================================
