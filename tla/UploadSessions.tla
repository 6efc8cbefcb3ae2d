---------------------------- MODULE UploadSessions ----------------------------
(***************************************************************************)
(* Large files reach the operator backend in chunks (api/admin_upload.py). *)
(* The handler of a chunk appends what it receives to the .part file, one  *)
(* piece at a time; finish looks at the file and hands it to an ingest,    *)
(* alone or, for a group, bundled with the other files of the group.       *)
(*                                                                         *)
(* The browser (frontend-admin/upload-manager.js) sends one chunk after    *)
(* the other and repeats one whose answer it does not get; the handler of  *)
(* the first try may then still have something to write.                   *)
(*                                                                         *)
(* A piece is its number in the file.  The names a dataset accepts are     *)
(* SourceContract's, two finishes of one group DatasetRaces'.              *)
(***************************************************************************)
EXTENDS Naturals, Sequences, FiniteSets, SequencesExt, FiniteSetsExt

CONSTANTS
    UploadPlans,  \* [files: upload -> [chunks, name, dataset, group, sha], losses: a bound]
    ChunkPieces,  \* pieces in a chunk
    MaxPieces,    \* pieces one upload or group may have
    MaxTries,     \* tries the browser makes for a chunk (3)
    NoGroup       \* the group of a file that is sent alone

ASSUME UploadAssumption ==
    /\ ChunkPieces \in Nat
    /\ \A plan \in UploadPlans : \A u \in DOMAIN plan.files : plan.files[u].chunks \in Nat

VARIABLES
    uploadPlan,   \* what is being uploaded
    sessions,     \* _sessions: the uploads that are open
    browser,      \* per upload: the chunk it is at, its try, and where it is with it
    received,     \* per upload: the pieces in its file
    fileAt,       \* per upload: nowhere yet, part, named (after the upload), or lost
    chunkWriters, \* the handlers of chunks: [upload, chunk, try, written]
    bundles,      \* per group: the finish that is building its bundle
    intakes,      \* per upload: the job it went into, and what the job took
    doubled,   \* history: uploads of which two chunks were written at once
    displaced,    \* history: uploads whose accepted file was taken by another
    losses        \* requests and answers that are still to be lost

uploadVars == <<uploadPlan, sessions, browser, received, fileAt, chunkWriters, bundles, intakes,
                doubled, displaced, losses>>

Uploading == DOMAIN uploadPlan
Alone == {u \in Uploading : uploadPlan[u].group = NoGroup}
Groups == {uploadPlan[u].group : u \in Uploading \ Alone}
Members(g) == {u \in Uploading : uploadPlan[u].group = g}
Size(u) == uploadPlan[u].chunks * ChunkPieces
Whole(u) == [i \in 1..Size(u) |-> i]
Gap == 0

NotTaken == [at |-> "none", took |-> <<>>]
NoBundle == [at |-> "none", read |-> <<>>]

UploadInit ==
    /\ \E plan \in UploadPlans : uploadPlan = plan.files /\ losses = plan.losses
    /\ sessions = {}
    /\ browser = [u \in Uploading |-> [at |-> "starting", chunk |-> 1, try |-> 1]]
    /\ received = [u \in Uploading |-> <<>>]
    /\ fileAt = [u \in Uploading |-> "none"]
    /\ chunkWriters = {}
    /\ bundles = [g \in Groups |-> NoBundle]
    /\ intakes = [u \in Uploading |-> NotTaken]
    /\ doubled = {} /\ displaced = {}

\* has_running_job()
Busy(dataset) ==
    \E u \in Uploading : uploadPlan[u].dataset = dataset /\ intakes[u].at \in {"queued", "running"}

-----------------------------------------------------------------------------
(* Opening *)

\* An empty file has no chunk to send.
Opened(files) ==
    /\ \A u \in files : browser[u].at = "starting"
    /\ sessions' = sessions \cup files
    /\ browser' = [u \in Uploading |->
                      IF u \in files
                      THEN [browser[u] EXCEPT !.at = IF uploadPlan[u].chunks = 0 THEN "sent"
                                                     ELSE "ready"]
                      ELSE browser[u]]
    /\ UNCHANGED <<uploadPlan, received, fileAt, chunkWriters, bundles, intakes, doubled,
                   displaced, losses>>

UploadStart(u) == u \in Alone /\ Size(u) <= MaxPieces /\ Opened({u})

GroupStart(g) ==
    /\ \A u, v \in Members(g) : uploadPlan[u].name = uploadPlan[v].name => u = v
    /\ MapThenSumSet(Size, Members(g)) <= MaxPieces
    /\ \A u \in Members(g) : Size(u) > 0 /\ ~Busy(uploadPlan[u].dataset)
    /\ Opened(Members(g))

-----------------------------------------------------------------------------
(* Chunks *)

\* Nothing more is sent for these files.
GivenUp(files) == [u \in Uploading |-> IF u \in files THEN [browser[u] EXCEPT !.at = "over"]
                                       ELSE browser[u]]

ChunkOffset(chunk) == (chunk - 1) * ChunkPieces
Waits(u) == [upload |-> u, chunk |-> browser[u].chunk, try |-> browser[u].try]
WritersOf(u) == {w \in chunkWriters : w.upload = u}

\* A file that does not end where the chunk begins is cut there, or filled up with zeros.
\* Mutant: a try that is repeated is appended to what is there.
CutNowhere(file, offset) == file
CutAt(file, offset) == [i \in 1..offset |-> IF i <= Len(file) THEN file[i] ELSE Gap]

ChunkArrives(u) ==
    /\ u \in sessions /\ browser[u].at = "ready"
    /\ received' = [received EXCEPT ![u] = CutAt(@, ChunkOffset(browser[u].chunk))]
    /\ fileAt' = [fileAt EXCEPT ![u] = "part"]
    /\ chunkWriters' = chunkWriters \cup {[wait |-> Waits(u), upload |-> u, written |-> 0]}
    /\ doubled' = doubled \cup {v \in {u} : WritersOf(v) # {}}
    /\ browser' = [browser EXCEPT ![u].at = "waiting"]
    /\ UNCHANGED <<uploadPlan, sessions, bundles, intakes, displaced, losses>>

\* The file is opened for appending: wherever it ends by now, the piece goes there.
WritePiece(w) ==
    /\ w \in chunkWriters /\ w.written < ChunkPieces
    /\ received' = [received EXCEPT ![w.upload] =
                      Append(@, ChunkOffset(w.wait.chunk) + w.written + 1)]
    /\ chunkWriters' = (chunkWriters \ {w}) \cup {[w EXCEPT !.written = @ + 1]}
    /\ UNCHANGED <<uploadPlan, sessions, browser, fileAt, bundles, intakes, doubled,
                   displaced, losses>>

\* The answer to the current try lets the browser go on; any other is nobody's.
EndChunk(w) ==
    LET u == w.upload IN
    /\ w \in chunkWriters /\ w.written = ChunkPieces
    /\ chunkWriters' = chunkWriters \ {w}
    /\ browser' = IF browser[u].at = "waiting" /\ w.wait = Waits(u)
                  THEN [browser EXCEPT ![u] =
                          [at |-> IF @.chunk = uploadPlan[u].chunks THEN "sent" ELSE "ready",
                           chunk |-> @.chunk + 1, try |-> 1]]
                  ELSE browser
    /\ UNCHANGED <<uploadPlan, sessions, received, fileAt, bundles, intakes, doubled,
                   displaced, losses>>

\* The request or its answer is lost, and the browser tries again.  The handler finds out
\* when it next waits for a piece, or not at all.
LoseTry(u) ==
    /\ browser[u].at \in {"ready", "waiting"} /\ losses > 0
    /\ losses' = losses - 1
    /\ browser' = [browser EXCEPT ![u] = IF @.try < MaxTries
                                         THEN [at |-> "ready", chunk |-> @.chunk,
                                               try |-> @.try + 1]
                                         ELSE [@ EXCEPT !.at = "over"]]
    /\ UNCHANGED <<uploadPlan, sessions, received, fileAt, chunkWriters, bundles, intakes,
                   doubled, displaced>>
NoticeDisconnect(w) ==
    /\ w \in chunkWriters
    /\ ~(browser[w.upload].at = "waiting" /\ w.wait = Waits(w.upload))
    /\ chunkWriters' = chunkWriters \ {w}
    /\ UNCHANGED <<uploadPlan, sessions, browser, received, fileAt, bundles, intakes, doubled,
                   displaced, losses>>

-----------------------------------------------------------------------------
(* Finishing *)

ChecksumFits(u) == uploadPlan[u].sha => received[u] = Whole(u)
\* Mutant: what is there is taken for the file.
AnySizeFits(u) == fileAt[u] = "part"
SizeFits(u) == fileAt[u] = "part" /\ Len(received[u]) = Size(u)

\* Files whose names are those of others that are still to be taken.
Named(name) == {u \in Uploading : fileAt[u] = "named" /\ uploadPlan[u].name = name}
Displaces(u) == {v \in Named(uploadPlan[u].name) \ {u} : intakes[v].at = "queued"}

UploadFinish(u) ==
    /\ u \in sessions \cap Alone /\ browser[u].at # "over"
    /\ SizeFits(u) /\ ChecksumFits(u) /\ ~Busy(uploadPlan[u].dataset)
    /\ fileAt' = [v \in Uploading |-> IF v = u THEN "named"
                                      ELSE IF v \in Named(uploadPlan[u].name) THEN "lost"
                                      ELSE fileAt[v]]
    /\ displaced' = displaced \cup Displaces(u)
    /\ intakes' = [intakes EXCEPT ![u].at = "queued"]
    /\ sessions' = sessions \ {u}
    /\ browser' = GivenUp({u})
    /\ UNCHANGED <<uploadPlan, received, chunkWriters, bundles, doubled, losses>>

\* A file that fails its checksum is removed; its session stays, and the browser gives up.
ChecksumFails(u) ==
    /\ u \in sessions \cap Alone /\ browser[u].at # "over"
    /\ SizeFits(u) /\ ~ChecksumFits(u)
    /\ fileAt' = [fileAt EXCEPT ![u] = "lost"]
    /\ browser' = GivenUp({u})
    /\ UNCHANGED <<uploadPlan, sessions, received, chunkWriters, bundles, intakes, doubled,
                   displaced, losses>>

\* Cancelling also removes the file that has the upload's name, whoever put it there.
UploadCancel(u) ==
    /\ u \in sessions
    /\ fileAt' = [v \in Uploading |-> IF v \in {u} \cup Named(uploadPlan[u].name)
                                      THEN "lost" ELSE fileAt[v]]
    /\ displaced' = displaced \cup Displaces(u)
    /\ sessions' = sessions \ {u}
    /\ browser' = GivenUp({u})
    /\ UNCHANGED <<uploadPlan, received, chunkWriters, bundles, intakes, doubled, losses>>

\* The job takes the file by its name; it does not find one that is gone.
TakeFile(u) ==
    LET there == Named(uploadPlan[u].name)
    IN  /\ u \in Alone /\ intakes[u].at = "queued"
        /\ intakes' = [intakes EXCEPT ![u] =
                         IF there = {} THEN [@ EXCEPT !.at = "failed"]
                         ELSE [at |-> "running", took |-> received[CHOOSE v \in there : TRUE]]]
        /\ UNCHANGED <<uploadPlan, sessions, browser, received, fileAt, chunkWriters, bundles,
                       doubled, displaced, losses>>
EndIngest(u) ==
    /\ intakes[u].at = "running"
    /\ intakes' = [intakes EXCEPT ![u].at = "ended"]
    /\ UNCHANGED <<uploadPlan, sessions, browser, received, fileAt, chunkWriters, bundles,
                   doubled, displaced, losses>>

-----------------------------------------------------------------------------
(* Groups *)

\* _cleanup_group(): what is left of its sessions and parts.
CleanedUp(g) ==
    /\ sessions' = sessions \ Members(g)
    /\ fileAt' = [u \in Uploading |-> IF u \in Members(g) \cap sessions THEN "lost" ELSE fileAt[u]]
    /\ browser' = GivenUp(Members(g))

GroupAccepts(g) ==
    /\ Members(g) \subseteq sessions /\ bundles[g] = NoBundle
    /\ \A u \in Members(g) : SizeFits(u)

\* The files are read into the bundle by a thread, while handlers go on.
GroupFinish(g) ==
    /\ GroupAccepts(g) /\ \A u \in Members(g) : ChecksumFits(u) /\ ~Busy(uploadPlan[u].dataset)
    /\ bundles' = [bundles EXCEPT ![g].at = "building"]
    /\ browser' = GivenUp(Members(g))
    /\ UNCHANGED <<uploadPlan, sessions, received, fileAt, chunkWriters, intakes, doubled,
                   displaced, losses>>
GroupChecksumFails(g) ==
    /\ GroupAccepts(g) /\ \E u \in Members(g) : ~ChecksumFits(u)
    /\ CleanedUp(g)
    /\ UNCHANGED <<uploadPlan, received, chunkWriters, bundles, intakes, doubled, displaced,
                   losses>>
BundleFile(g, u) ==
    /\ bundles[g].at = "building" /\ u \in Members(g) \ DOMAIN bundles[g].read
    /\ bundles' = [bundles EXCEPT ![g] =
                      IF fileAt[u] = "part"
                      THEN [at |-> "building",
                            read |-> [v \in DOMAIN bundles[g].read \cup {u} |->
                                         IF v = u THEN received[u] ELSE bundles[g].read[v]]]
                      ELSE NoBundle]
    /\ UNCHANGED <<uploadPlan, sessions, browser, received, fileAt, chunkWriters, intakes,
                   doubled, displaced, losses>>
\* The session may be gone by now; the job starts none the less.
GroupSubmit(g) ==
    /\ bundles[g].at = "building" /\ DOMAIN bundles[g].read = Members(g)
    /\ CleanedUp(g)
    /\ intakes' = [u \in Uploading |-> IF u \in Members(g)
                                       THEN [at |-> "running", took |-> bundles[g].read[u]]
                                       ELSE intakes[u]]
    /\ bundles' = [bundles EXCEPT ![g].at = "done"]
    /\ UNCHANGED <<uploadPlan, received, chunkWriters, doubled, displaced, losses>>
GroupCancel(g) ==
    /\ Members(g) \cap sessions # {}
    /\ CleanedUp(g)
    /\ UNCHANGED <<uploadPlan, received, chunkWriters, bundles, intakes, doubled, displaced,
                   losses>>

UploadNext ==
    \/ \E u \in Alone : UploadStart(u) \/ UploadFinish(u) \/ ChecksumFails(u) \/ TakeFile(u)
    \/ \E u \in Uploading : ChunkArrives(u) \/ LoseTry(u) \/ UploadCancel(u) \/ EndIngest(u)
    \/ \E w \in chunkWriters : WritePiece(w) \/ EndChunk(w) \/ NoticeDisconnect(w)
    \/ \E g \in Groups : GroupStart(g) \/ GroupFinish(g) \/ GroupChecksumFails(g)
                         \/ GroupSubmit(g) \/ GroupCancel(g)
                         \/ (\E u \in Members(g) : BundleFile(g, u))

UploadSpec == UploadInit /\ [][UploadNext]_uploadVars

-----------------------------------------------------------------------------
\* What has been acknowledged is in the file, however tries were lost and repeated.
AcknowledgedIsHeld(u) ==
    u \in sessions /\ fileAt[u] = "part" /\ u \notin doubled =>
        IsPrefix(SubSeq(Whole(u), 1, ChunkOffset(browser[u].chunk)), received[u])

\* A job works on the file that was sent, unless a try was still being written when it
\* was repeated; with a checksum even then, but for what that try adds behind the end.
TakenIsWhole(u) ==
    intakes[u].took # <<>> =>
        /\ u \notin doubled => intakes[u].took = Whole(u)
        /\ uploadPlan[u].sha => IsPrefix(Whole(u), intakes[u].took)

\* However the chunks of uploads are lost, repeated, cut off by a finish or a cancel and
\* bundled: as long as no file of the same name comes between a finish and its job, what
\* was acknowledged is kept, and what is ingested is what was sent.
UploadsArriveWhole ==
    \A u \in Uploading : AcknowledgedIsHeld(u) /\ (u \notin displaced => TakenIsWhole(u))
=============================================================================
