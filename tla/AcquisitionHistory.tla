------------------------- MODULE AcquisitionHistory --------------------------
(***************************************************************************)
(* The histories of what was acquired for each dataset                       *)
(* (acquisition_history.py): one file per dataset, changed under an flock   *)
(* of that dataset.  Two processes change it: the backend, whose ingest     *)
(* records a new acquisition and activates it when it ends                  *)
(* (pipeline_service.py), and a tool that migrates old datasets or          *)
(* reassesses the records (acquisition_migration.py).                       *)
(*                                                                         *)
(* Both look at histories without the lock before they change one under    *)
(* it, and either may be killed at any point.  The backend does not stop   *)
(* for a record it cannot write.  The lake holds the raw file and the      *)
(* canonical of each dataset; of a canonical only the raw file it was made *)
(* of is kept.                                                             *)
(***************************************************************************)
EXTENDS SourceContract

CONSTANTS
    Uploads,        \* dataset -> the raw files that may come in
    Batched,        \* datasets that a script downloads into a directory
    MaxIngests,     \* bound on ingests
    MaxKills        \* bound on killed processes

Processes == {"backend", "tool"}
Datasets == DOMAIN Definitions
RawFiles == UNION {Uploads[d] : d \in Datasets}

VARIABLES
    histories,  \* dataset -> the records of its file
    lake,       \* dataset -> [raw, canonical, ready]; ready: the state says it is validated
    doing,      \* process -> what it does: [pc, dataset, change, was]
    peers,      \* the active records the tool has seen
    ingests,    \* ingests so far
    kills,
    overtaken,  \* ghost: datasets whose migration looked at, or wrote, beside an ingest
    unrecorded  \* ghost: datasets whose canonical was made by an ingest without a record

acquisitionVars == <<histories, lake, doing, peers, ingests, kills, overtaken, unrecorded>>

AtRest == [pc |-> "idle", dataset |-> Missing, change |-> Missing, was |-> <<>>]

AcquisitionInit ==
    /\ histories = [d \in Datasets |-> <<>>]
    /\ \E raw \in [Datasets -> RawFiles \cup {Missing}] :
           /\ \A d \in Datasets \ Batched :
                raw[d] = Missing \/ (raw[d] \in Uploads[d] /\ StoredSetOk(Definitions[d], raw[d]))
           /\ \A d \in Batched : raw[d] = Missing
           /\ lake = [d \in Datasets |->
                         [raw |-> raw[d], canonical |-> raw[d], ready |-> raw[d] # Missing]]
    /\ doing = [p \in Processes |-> AtRest]
    /\ peers = {}
    /\ ingests = 0 /\ kills = 0 /\ overtaken = {} /\ unrecorded = {}

-----------------------------------------------------------------------------
(* Changes of a history, each applied to what was read under the lock      *)

ActiveOf(h) == {r \in ToSet(h) : r.active}
AllActive == UNION {ActiveOf(histories[d]) : d \in Datasets}

Add(record) == [kind |-> "add", id |-> record.id, fields |-> record]
Update(id, fields) == [kind |-> "update", id |-> id, fields |-> fields]

\* add()
Added(h, record) ==
    Append([i \in DOMAIN h |-> [h[i] EXCEPT !.active = @ /\ ~record.active]], record)

\* update(): status, activate and the assessment; the files never change.
Updated(h, id, fields) ==
    [i \in DOMAIN h |->
        [h[i] EXCEPT
            !.status = IF h[i].id = id /\ "status" \in DOMAIN fields THEN fields.status ELSE @,
            !.validity = IF h[i].id = id /\ "validity" \in DOMAIN fields THEN fields.validity
                         ELSE @,
            !.active = IF "activate" \in DOMAIN fields THEN h[i].id = id ELSE @]]

Changed(h, change) ==
    IF change.kind = "add" THEN Added(h, change.fields)
    ELSE Updated(h, change.id, change.fields)

\* _locked(): nobody else is between reading and writing this history.
LockFree(d) == \A p \in Processes : ~(doing[p].pc = "read" /\ doing[p].dataset = d)

StoreRead(p) ==
    LET d == doing[p].dataset IN
    /\ doing[p].pc = "change" /\ LockFree(d)
    /\ doing' = [doing EXCEPT ![p].pc = "read", ![p].was = histories[d]]
    /\ UNCHANGED <<histories, lake, peers, ingests, kills, overtaken, unrecorded>>

\* _write(): a new file takes the place of the old one at once.
StoreWrite(p) ==
    LET d == doing[p].dataset
        change == doing[p].change
        job == p = "backend" /\ change.kind = "add"
    IN  /\ doing[p].pc = "read"
        /\ histories' = [histories EXCEPT ![d] = Changed(doing[p].was, change)]
        /\ doing' = [doing EXCEPT ![p] = IF job THEN [doing[p] EXCEPT !.pc = "made", !.was = <<>>]
                                          ELSE AtRest]
        /\ overtaken' = IF p = "tool" /\ change.kind = "add" /\ doing[p].was # <<>>
                        THEN overtaken \cup {d} ELSE overtaken
        /\ UNCHANGED <<lake, peers, ingests, kills, unrecorded>>

-----------------------------------------------------------------------------
(* The backend *)

Record(id, d, raw, method, status, active, inUse) ==
    LET def == Definitions[d]
        r == [id |-> id, dataset |-> d, method |-> method, raw |-> raw, status |-> status,
              active |-> active, files |-> RecordedFiles(def, raw, {}), validity |-> Missing]
    IN  [r EXCEPT !.validity = Assess(def, r, inUse)]

IngestStarts ==
    /\ doing["backend"].pc = "idle" /\ ingests < MaxIngests
    /\ ingests' = ingests + 1
    /\ UNCHANGED <<histories, peers, kills, overtaken, unrecorded>>

\* The record is assessed against the records that are active now.
NewRecord(d, raw) == Record(ingests', d, raw, "told", "received", FALSE, AllActive)

\* The raw file is kept, and what the old one was made into still counts as ready until the
\* first script starts.
Stored(d, raw, record) ==
    /\ lake' = [lake EXCEPT ![d].raw = raw]
    /\ doing' = [doing EXCEPT !["backend"] =
                    [pc |-> "change", dataset |-> d, was |-> <<>>, change |-> Add(record)]]

\* run_ingest_upload(): an upload is looked at before it is stored.
Ingest(d, raw) ==
    /\ IngestStarts /\ d \notin Batched
    /\ UploadMayStart(Definitions[d], raw) /\ StoredSetOk(Definitions[d], raw)
    /\ Stored(d, raw, NewRecord(d, raw))

\* _store_downloaded(): what is refused stays there, and may have overwritten the file in use.
StoreDownloaded(d, raw, sameName) ==
    IF StoredSetOk(Definitions[d], raw) THEN Stored(d, raw, NewRecord(d, raw))
    ELSE /\ lake' = IF sameName THEN [lake EXCEPT ![d].raw = raw] ELSE lake
         /\ UNCHANGED doing

\* run_ingest_fetch_url(), run_ingest_fetch_official(): a download goes to the raw directory,
\* under the name its URL has, and is looked at there.
Fetch(d, raw) ==
    /\ IngestStarts /\ d \notin Batched
    /\ \E sameName \in BOOLEAN :
            /\ sameName => lake[d].raw # Missing
            /\ StoreDownloaded(d, raw, sameName)

\* run_ingest_fetch_official() with a batch downloader: nothing is looked at, and the record
\* names the directory but none of its files.
FetchBatch(d, raw) ==
    /\ IngestStarts /\ d \in Batched
    /\ Stored(d, raw, [NewRecord(d, raw) EXCEPT !.files = <<>>, !.validity = "unknown"])

\* The record cannot be made or written (a file that cannot be read, a lock or a disk that
\* fails): the ingest goes on without one.
RecordFails ==
    LET me == doing["backend"] IN
    /\ me.pc \in {"change", "read"} /\ me.change.kind = "add"
    /\ doing' = [doing EXCEPT !["backend"] =
                    [pc |-> "made", dataset |-> me.dataset, was |-> <<>>, change |-> Missing]]
    /\ UNCHANGED <<histories, lake, peers, ingests, kills, overtaken, unrecorded>>

\* Normalizing and validating succeed: the canonical is replaced, with a record or without.
CanonicalReplaced ==
    LET me == doing["backend"]
        d == me.dataset
    IN
    /\ me.pc = "made"
    /\ unrecorded' = IF me.change = Missing THEN unrecorded \cup {d} ELSE unrecorded \ {d}
    /\ lake' = [lake EXCEPT ![d].canonical = lake[d].raw, ![d].ready = TRUE]
    /\ doing' = [doing EXCEPT !["backend"].pc = "ending"]
    /\ UNCHANGED <<histories, peers, ingests, kills, overtaken>>

\* Mutant: the record says that it was processed, the older one stays in use.
FinalizedAsBefore(ok) == IF ok THEN [status |-> "processed"] ELSE [status |-> "failed"]

\* _finalize_acquisition()
Finalized(ok) ==
    IF ok THEN [status |-> "processed", activate |-> TRUE] ELSE [status |-> "failed"]

\* The job ends, well or with a failed step before (the canonical is the old one, and no
\* longer called ready) or after (the routing of a flood dataset) the canonical was replaced.
\* Without a record there is nothing to finalize.
IngestEnds(ok) ==
    LET me == doing["backend"] IN
    /\ me.pc \in IF ok THEN {"ending"} ELSE {"made", "ending"}
    /\ lake' = IF me.pc = "made" THEN [lake EXCEPT ![me.dataset].ready = FALSE] ELSE lake
    /\ doing' = IF me.change = Missing THEN [doing EXCEPT !["backend"] = AtRest]
                ELSE [doing EXCEPT !["backend"].pc = "change",
                                   !["backend"].change = Update(me.change.id, Finalized(ok))]
    /\ UNCHANGED <<histories, peers, ingests, kills, overtaken, unrecorded>>

\* The end cannot be written: the record stays one that was received, and the one before it
\* in use.
UpdateFails ==
    LET me == doing["backend"] IN
    /\ me.pc \in {"change", "read"} /\ me.change.kind = "update"
    /\ doing' = [doing EXCEPT !["backend"] = AtRest]
    /\ UNCHANGED <<histories, lake, peers, ingests, kills, overtaken, unrecorded>>

-----------------------------------------------------------------------------
(* The tool *)

\* migrate_all(): a dataset without a history is looked at once, without the lock; only a
\* valid record is written, later.  The job records of old ingests may tell the method or not.
Migrate(d, method) ==
    LET raw == lake[d].raw
        status == IF lake[d].ready THEN "processed" ELSE "received"
        record == Record(-1, d, raw, method, status, lake[d].ready, AllActive)
    IN  /\ doing["tool"].pc = "idle" /\ histories[d] = <<>> /\ raw # Missing
        /\ record.validity = "valid"
        /\ doing' = [doing EXCEPT !["tool"] =
                        [pc |-> "change", dataset |-> d, was |-> <<>>, change |-> Add(record)]]
        /\ overtaken' = IF raw # lake[d].canonical THEN overtaken \cup {d} ELSE overtaken
        /\ UNCHANGED <<histories, lake, peers, ingests, kills, unrecorded>>

\* reverify_all(): the active records are collected once, for all datasets.
ReverifyStarts ==
    /\ doing["tool"].pc = "idle" /\ AllActive # {}
    /\ peers' = AllActive
    /\ UNCHANGED <<histories, lake, doing, ingests, kills, overtaken, unrecorded>>

\* A record is assessed from a copy, and what it came to is written into the record.
Reverify(d) ==
    /\ doing["tool"].pc = "idle" /\ peers # {}
    /\ \E r \in ToSet(histories[d]) :
        LET validity == Assess(Definitions[d], r, peers) IN
        /\ validity # r.validity
        /\ doing' = [doing EXCEPT !["tool"] =
                        [pc |-> "change", dataset |-> d, was |-> <<>>,
                         change |-> Update(r.id, [validity |-> validity])]]
    /\ UNCHANGED <<histories, lake, peers, ingests, kills, overtaken, unrecorded>>

KillProcess(p) ==
    /\ doing[p].pc # "idle" /\ kills < MaxKills
    /\ kills' = kills + 1
    /\ doing' = [doing EXCEPT ![p] = AtRest]
    /\ peers' = IF p = "tool" THEN {} ELSE peers
    /\ lake' = IF p = "backend" /\ doing[p].pc = "made"
               THEN [lake EXCEPT ![doing[p].dataset].ready = FALSE] ELSE lake
    /\ UNCHANGED <<histories, ingests, overtaken, unrecorded>>

AcquisitionNext ==
    \/ \E p \in Processes : StoreRead(p) \/ StoreWrite(p) \/ KillProcess(p)
    \/ \E d \in Datasets : \E raw \in Uploads[d] :
            Ingest(d, raw) \/ Fetch(d, raw) \/ FetchBatch(d, raw)
    \/ RecordFails \/ CanonicalReplaced \/ UpdateFails
    \/ \E ok \in BOOLEAN : IngestEnds(ok)
    \/ \E d \in Datasets, method \in {"told", "legacy_unknown"} : Migrate(d, method)
    \/ ReverifyStarts
    \/ \E d \in Datasets : Reverify(d)

AcquisitionSpec == AcquisitionInit /\ [][AcquisitionNext]_acquisitionVars

-----------------------------------------------------------------------------
(* The newest record of a dataset that was made into a canonical *)
Processed(d) == {r \in ToSet(histories[d]) : r.status = "processed"}
NewestProcessed(d) == CHOOSE r \in Processed(d) : \A q \in Processed(d) : q.id <= r.id

\* At most one acquisition of a dataset is in use, and it is the one its canonical was made
\* of, as acquisition_history.py:10 has it, with three exceptions that the code allows: an
\* ingest that failed, was killed or could not write its end after it had replaced the
\* canonical leaves a record that is not in use; an ingest that could not write its record
\* (pipeline_service.py:381) leaves the canonical to no record at all, and the one before it
\* in use; and a migration beside an ingest, or of a download that was refused, may be wrong.
ActiveMadeCanonical ==
    \A d \in Datasets :
        /\ Cardinality(ActiveOf(histories[d])) <= 1
        /\ Processed(d) # {} /\ d \notin overtaken =>
               LET r == NewestProcessed(d) IN
               /\ r.active
               /\ lake[d].canonical # r.raw =>
                      \/ d \in unrecorded
                      \/ \E q \in ToSet(histories[d]) :
                             q.raw = lake[d].canonical /\ q.status \in {"failed", "received"}

\* What was acquired is never forgotten, and never said to have been something else: no
\* process writes back a history it read before the other had written.
HistoryOnlyGrows ==
    [][\A d \in Datasets : \A i \in DOMAIN histories[d] :
           /\ i \in DOMAIN histories'[d]
           /\ histories'[d][i].id = histories[d][i].id
           /\ histories'[d][i].files = histories[d][i].files
           /\ histories[d][i].status # "received" =>
                  histories'[d][i].status = histories[d][i].status
      ]_acquisitionVars
=============================================================================
