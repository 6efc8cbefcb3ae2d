---------------------------- MODULE UploadProofs ----------------------------
(***************************************************************************)
(* Theorems about chunked uploads: however many files, chunks and tries    *)
(* there are, what is acknowledged is held and what is ingested is what    *)
(* was sent; and about the histories of what was acquired: what is in use   *)
(* is what the canonical was made of, and no process undoes the other's     *)
(* writes.                                                                 *)
(***************************************************************************)
EXTENDS UploadSessions, AcquisitionHistory, SequenceTheorems, FiniteSetTheorems, TLAPS

\* The first n pieces of any file.
Upto(n) == [i \in 1..n |-> i]

Places == {"starting", "ready", "waiting", "sent", "over"}
Browsers == [at : Places, chunk : Nat \ {0}, try : Nat]
Tries == [upload : Uploading, chunk : Nat \ {0}, try : Nat]
UploadType ==
    /\ ChunkPieces \in Nat /\ \A u \in Uploading : uploadPlan[u].chunks \in Nat
    /\ sessions \subseteq Uploading
    /\ browser \in [Uploading -> Browsers]
    /\ received \in [Uploading -> Seq(Nat)]
    /\ fileAt \in [Uploading -> {"none", "part", "named", "lost"}]
    /\ chunkWriters \subseteq [wait : Tries, upload : Uploading, written : 0..ChunkPieces]
    /\ DOMAIN bundles = Groups
    /\ \A g \in Groups :
           bundles[g] \in [at : {"none", "building", "done"},
                           read : UNION {[S -> Seq(Nat)] : S \in SUBSET Members(g)}]
    /\ intakes \in [Uploading -> [at : {"none", "queued", "running", "ended", "failed"},
                                  took : Seq(Nat)]]
    /\ doubled \subseteq Uploading /\ displaced \subseteq Uploading

BrowserStage(u) ==
    /\ browser[u].chunk <= uploadPlan[u].chunks + 1
    /\ browser[u].at \in {"ready", "waiting"} => browser[u].chunk <= uploadPlan[u].chunks

\* As long as no two chunks were written at once, a file is the beginning of what is sent: up to
\* the chunk the browser is at, and as far as the one handler has come with it.
Counted(u) ==
    u \notin doubled =>
        /\ received[u] = Upto(Len(received[u]))
        /\ Len(received[u]) >= ChunkOffset(browser[u].chunk)
        /\ \A w \in WritersOf(u) :
               /\ WritersOf(u) = {w}
               /\ w.wait.chunk = browser[u].chunk /\ w.wait.chunk <= uploadPlan[u].chunks
               /\ Len(received[u]) = ChunkOffset(w.wait.chunk) + w.written

\* What a finish has found fit: nothing is sent any more, and what was sent is there.
Complete(u) ==
    /\ browser[u].at = "over"
    /\ u \notin doubled => Len(received[u]) = Size(u)
    /\ uploadPlan[u].sha => IsPrefix(Whole(u), received[u])

QueuedIsComplete(u) ==
    intakes[u].at = "queued" =>
        Complete(u) /\ u \notin sessions /\ (u \notin displaced => fileAt[u] = "named")

UnopenedIsIdle(u) ==
    browser[u].at = "starting" =>
        browser[u].chunk = 1 /\ u \notin sessions /\ intakes[u].at # "queued"

Fine(u) ==
    /\ BrowserStage(u) /\ Counted(u) /\ QueuedIsComplete(u) /\ UnopenedIsIdle(u)
    /\ u \notin displaced => TakenIsWhole(u)

BundledIsComplete(g) ==
    bundles[g].at = "building" =>
        \A u \in Members(g) :
            /\ Complete(u)
            /\ u \in DOMAIN bundles[g].read =>
                   /\ u \notin doubled => bundles[g].read[u] = Whole(u)
                   /\ uploadPlan[u].sha => IsPrefix(Whole(u), bundles[g].read[u])

\* No two files have one name.
NamedOnce ==
    \A u, v \in Uploading :
        fileAt[u] = "named" /\ fileAt[v] = "named" /\ uploadPlan[u].name = uploadPlan[v].name
            => u = v

UploadInv ==
    /\ UploadType
    /\ \A u \in Uploading : Fine(u)
    /\ \A g \in Groups : BundledIsComplete(g)
    /\ NamedOnce

-----------------------------------------------------------------------------
(* Files as sequences of numbers *)

LEMMA UptoIs == \A n \in Nat : Upto(n) \in Seq(Nat) /\ Len(Upto(n)) = n
  BY DEF Upto

LEMMA UptoGrows == \A n \in Nat : Append(Upto(n), n + 1) = Upto(n + 1)
<1> SUFFICES ASSUME NEW n \in Nat PROVE Append(Upto(n), n + 1) = Upto(n + 1)
  OBVIOUS
<1>1. /\ Append(Upto(n), n + 1) \in Seq(Nat) /\ Len(Append(Upto(n), n + 1)) = n + 1
      /\ Upto(n + 1) \in Seq(Nat) /\ Len(Upto(n + 1)) = n + 1
  BY UptoIs
<1>2. \A i \in 1..(n + 1) : Append(Upto(n), n + 1)[i] = Upto(n + 1)[i]
  BY UptoIs DEF Upto
<1> QED
  BY <1>1, <1>2, SeqEqual

LEMMA CutIs ==
    \A s \in Seq(Nat), n \in Nat :
        /\ CutAt(s, n) \in Seq(Nat) /\ Len(CutAt(s, n)) = n
        /\ n <= Len(s) /\ s = Upto(Len(s)) => CutAt(s, n) = Upto(n)
<1> SUFFICES ASSUME NEW s \in Seq(Nat), NEW n \in Nat
             PROVE  /\ CutAt(s, n) \in Seq(Nat) /\ Len(CutAt(s, n)) = n
                    /\ n <= Len(s) /\ s = Upto(Len(s)) => CutAt(s, n) = Upto(n)
  OBVIOUS
<1>1. CutAt(s, n) \in Seq(Nat) /\ Len(CutAt(s, n)) = n
  BY DEF CutAt, Gap
<1>2. ASSUME n <= Len(s), s = Upto(Len(s)) PROVE CutAt(s, n) = Upto(n)
  <2>1. \A i \in 1..n : i \in 1..Len(s) /\ s[i] = i
    BY <1>2 DEF Upto
  <2> QED
    BY <2>1 DEF CutAt, Upto
<1> QED
  BY <1>1, <1>2

LEMMA PrefixGrows ==
    \A s, t \in Seq(Nat), e \in Nat :
        IsPrefix(s, s) /\ (IsPrefix(s, t) => IsPrefix(s, Append(t, e)))
<1> SUFFICES ASSUME NEW s \in Seq(Nat), NEW t \in Seq(Nat), NEW e \in Nat
             PROVE  IsPrefix(s, s) /\ (IsPrefix(s, t) => IsPrefix(s, Append(t, e)))
  OBVIOUS
<1>1. IsPrefix(s, s)
  BY DEF IsPrefix
<1>2. ASSUME IsPrefix(s, t) PROVE IsPrefix(s, Append(t, e))
  <2>1. Len(s) <= Len(t) /\ SubSeq(s, 1, Len(s)) = SubSeq(t, 1, Len(s)) /\ Len(s) \in Nat
    BY <1>2 DEF IsPrefix
  <2>2. SubSeq(t, 1, Len(s)) = SubSeq(Append(t, e), 1, Len(s))
    BY <2>1
  <2> QED
    BY <2>1, <2>2 DEF IsPrefix
<1> QED
  BY <1>1, <1>2

LEMMA PrefixOfUpto ==
    \A m, n, k \in Nat :
        m <= n /\ m <= k => IsPrefix(SubSeq(Upto(k), 1, m), Upto(n))
<1> SUFFICES ASSUME NEW m \in Nat, NEW n \in Nat, NEW k \in Nat, m <= n, m <= k
             PROVE  IsPrefix(SubSeq(Upto(k), 1, m), Upto(n))
  OBVIOUS
<1>1. SubSeq(Upto(k), 1, m) = Upto(m) /\ SubSeq(Upto(n), 1, m) = Upto(m)
  BY DEF Upto
<1>2. SubSeq(Upto(m), 1, m) = Upto(m)
  BY DEF Upto
<1> QED
  BY <1>1, <1>2, UptoIs DEF IsPrefix

\* A chunk of a file lies within the file.
LEMMA ChunksFit ==
    ASSUME ChunkPieces \in Nat
    PROVE  \A c \in Nat \ {0}, n \in Nat :
               /\ ChunkOffset(c) \in Nat /\ ChunkOffset(c + 1) = ChunkOffset(c) + ChunkPieces
               /\ c <= n + 1 => ChunkOffset(c) <= n * ChunkPieces
               /\ c <= n => ChunkOffset(c) + ChunkPieces <= n * ChunkPieces
<1> SUFFICES ASSUME NEW c \in Nat \ {0}, NEW n \in Nat
             PROVE  /\ ChunkOffset(c) \in Nat
                    /\ ChunkOffset(c + 1) = ChunkOffset(c) + ChunkPieces
                    /\ c <= n + 1 => ChunkOffset(c) <= n * ChunkPieces
                    /\ c <= n => ChunkOffset(c) + ChunkPieces <= n * ChunkPieces
  OBVIOUS
<1>1. \A a, b \in Nat : a * b \in Nat
  OBVIOUS
<1>2. \A a, b \in Nat : (a + b) * ChunkPieces = a * ChunkPieces + b * ChunkPieces
  OBVIOUS
<1>3. PICK a \in Nat : c = a + 1
  <2>1. c - 1 \in Nat /\ c = (c - 1) + 1
    OBVIOUS
  <2> QED
    BY <2>1
<1>4. ChunkOffset(c) = a * ChunkPieces /\ ChunkOffset(c + 1) = c * ChunkPieces
  BY <1>3 DEF ChunkOffset
<1>5. c * ChunkPieces = a * ChunkPieces + ChunkPieces
  BY <1>2, <1>3
<1>6. ASSUME c <= n + 1 PROVE ChunkOffset(c) <= n * ChunkPieces
  <2>1. PICK b \in Nat : n = a + b
    <3>1. n - a \in Nat /\ n = a + (n - a)
      BY <1>3, <1>6
    <3> QED
      BY <3>1
  <2>2. n * ChunkPieces = a * ChunkPieces + b * ChunkPieces
    BY <1>2, <2>1
  <2> QED
    BY <1>1, <1>4, <2>2
<1>7. ASSUME c <= n PROVE ChunkOffset(c) + ChunkPieces <= n * ChunkPieces
  <2>1. PICK b \in Nat : n = c + b
    <3>1. n - c \in Nat /\ n = c + (n - c)
      BY <1>7
    <3> QED
      BY <3>1
  <2>2. n * ChunkPieces = c * ChunkPieces + b * ChunkPieces
    BY <1>2, <2>1
  <2> QED
    BY <1>1, <1>4, <1>5, <2>2
<1> QED
  BY <1>1, <1>4, <1>5, <1>6, <1>7

-----------------------------------------------------------------------------
(* What changes for an upload, and what does not                           *)

LEMMA Sizes ==
    ASSUME UploadType, NEW u \in Uploading
    PROVE  Size(u) \in Nat /\ Whole(u) = Upto(Size(u)) /\ Whole(u) \in Seq(Nat)
<1>1. Size(u) \in Nat
  BY DEF UploadType, Size
<1> QED
  BY <1>1, UptoIs DEF Whole, Upto

LEMMA Frames ==
    uploadPlan' = uploadPlan =>
        /\ Uploading' = Uploading /\ Alone' = Alone /\ Groups' = Groups /\ Tries' = Tries
        /\ \A g : Members(g)' = Members(g)
  BY DEF Uploading, Alone, Groups, Tries, Members

LEMMA BrowserRecords ==
    \A b \in Browsers, place \in Places :
        /\ [b EXCEPT !.at = place] \in Browsers /\ [b EXCEPT !.at = place].at = place
        /\ [b EXCEPT !.at = place].chunk = b.chunk
  BY DEF Browsers

LEMMA StillComplete ==
    ASSUME NEW u \in Uploading, uploadPlan' = uploadPlan, received'[u] = received[u],
           browser[u].at = "over" => browser'[u].at = "over", doubled \subseteq doubled'
    PROVE  Complete(u) => Complete(u)'
  BY DEF Complete, Size, Whole

\* The browser may give up or repeat its chunk, handlers may go and accepted files be taken.
LEMMA FineKeeps ==
    ASSUME UploadType, NEW u \in Uploading, Fine(u), uploadPlan' = uploadPlan,
           received'[u] = received[u], browser'[u].chunk = browser[u].chunk,
           \/ browser'[u].at \in {browser[u].at, "over"}
           \/ {browser[u].at, browser'[u].at} \subseteq {"ready", "waiting"},
           WritersOf(u)' \subseteq WritersOf(u),
           intakes'[u].at = "queued" => intakes[u].at = "queued",
           intakes'[u].took = intakes[u].took \/ (u \notin displaced' => TakenIsWhole(u)'),
           u \in sessions' => u \in sessions,
           intakes'[u].at = "queued" => fileAt'[u] = fileAt[u] \/ u \in displaced',
           doubled \subseteq doubled', displaced \subseteq displaced'
    PROVE  Fine(u)'
<1>1. BrowserStage(u) /\ Counted(u) /\ QueuedIsComplete(u) /\ UnopenedIsIdle(u)
      /\ (u \notin displaced => TakenIsWhole(u))
  BY DEF Fine
<1>2. BrowserStage(u)'
  BY <1>1 DEF BrowserStage
<1>3. Counted(u)'
  BY <1>1 DEF Counted, ChunkOffset
<1>4. QueuedIsComplete(u)'
  <2> SUFFICES ASSUME intakes'[u].at = "queued"
               PROVE  /\ Complete(u)' /\ u \notin sessions'
                      /\ u \notin displaced' => fileAt'[u] = "named"
    BY DEF QueuedIsComplete
  <2>1. Complete(u) /\ u \notin sessions /\ (u \notin displaced => fileAt[u] = "named")
    BY <1>1 DEF QueuedIsComplete
  <2>2. browser'[u].at = "over"
    BY <2>1 DEF Complete
  <2> QED
    BY <2>1, <2>2, StillComplete
<1>5. UnopenedIsIdle(u)'
  BY <1>1 DEF UnopenedIsIdle
<1>6. u \notin displaced' => TakenIsWhole(u)'
  BY <1>1 DEF TakenIsWhole, Whole, Size
<1> QED
  BY <1>2, <1>3, <1>4, <1>5, <1>6 DEF Fine

LEMMA BundleKeeps ==
    ASSUME NEW g \in Groups, BundledIsComplete(g), uploadPlan' = uploadPlan,
           bundles'[g].at = "building" => bundles'[g] = bundles[g],
           doubled \subseteq doubled', \A u \in Members(g) : Complete(u) => Complete(u)'
    PROVE  BundledIsComplete(g)'
<1>1. Members(g)' = Members(g)
  BY DEF Members, Uploading
<1> QED
  BY <1>1 DEF BundledIsComplete, Whole, Size

\* The steps that neither write nor finish.
LEMMA QuietKeeps ==
    ASSUME UploadInv, UploadType', NamedOnce', uploadPlan' = uploadPlan, received' = received,
           doubled \subseteq doubled', displaced \subseteq displaced',
           \A u \in Uploading :
               /\ browser'[u].chunk = browser[u].chunk
               /\ \/ browser'[u].at \in {browser[u].at, "over"}
                  \/ {browser[u].at, browser'[u].at} \subseteq {"ready", "waiting"}
               /\ WritersOf(u)' \subseteq WritersOf(u)
               /\ intakes'[u].at = "queued" => intakes[u].at = "queued"
               /\ intakes'[u].took = intakes[u].took \/ (u \notin displaced' => TakenIsWhole(u)')
               /\ u \in sessions' => u \in sessions
               /\ intakes'[u].at = "queued" => fileAt'[u] = fileAt[u] \/ u \in displaced',
           \A g \in Groups : bundles'[g].at = "building" => bundles'[g] = bundles[g]
    PROVE  UploadInv'
<1>1. UploadType /\ Uploading' = Uploading /\ Groups' = Groups
  BY DEF UploadInv, Uploading, Groups, Alone
<1>2. ASSUME NEW u \in Uploading PROVE Fine(u)'
  BY <1>1, FineKeeps DEF UploadInv
<1>3. ASSUME NEW u \in Uploading PROVE Complete(u) => Complete(u)'
  <2>1. browser[u].at = "over" => browser'[u].at = "over"
    OBVIOUS
  <2> QED
    BY <2>1, StillComplete
<1>4. ASSUME NEW g \in Groups PROVE BundledIsComplete(g)'
  <2>1. Members(g) \subseteq Uploading
    BY DEF Members
  <2> QED
    BY <1>3, <2>1, BundleKeeps DEF UploadInv
<1> QED
  BY <1>1, <1>2, <1>4 DEF UploadInv


-----------------------------------------------------------------------------
(* The steps                                                               *)

\* A file that is opened has nothing behind it.
LEMMA OpenedKeeps ==
    ASSUME UploadInv, NEW files, files \subseteq Uploading, Opened(files)
    PROVE  UploadInv'
<1>1. /\ \A u \in files : browser[u].at = "starting"
      /\ sessions' = sessions \cup files
      /\ browser' = [u \in Uploading |->
                       IF u \in files
                       THEN [browser[u] EXCEPT !.at = IF uploadPlan[u].chunks = 0 THEN "sent"
                                                      ELSE "ready"]
                       ELSE browser[u]]
      /\ UNCHANGED <<uploadPlan, received, fileAt, chunkWriters, bundles, intakes, doubled,
                     displaced>>
  BY DEF Opened
<1>2. UploadType /\ NamedOnce /\ Uploading' = Uploading /\ Groups' = Groups
  BY <1>1 DEF UploadInv, Uploading, Groups, Alone
<1>3. \A u \in Uploading : WritersOf(u)' = WritersOf(u) /\ browser'[u].chunk = browser[u].chunk
  BY <1>1, <1>2 DEF WritersOf, UploadType
<1>4. ASSUME NEW u \in Uploading \ files PROVE Fine(u)'
  <2>1. browser'[u] = browser[u] /\ (u \in sessions' => u \in sessions)
    BY <1>1
  <2> QED
    BY <1>1, <1>2, <1>3, <2>1, FineKeeps DEF UploadInv
<1>5. ASSUME NEW u \in files PROVE Fine(u)'
  <2>1. Fine(u) /\ browser[u].at = "starting"
    BY <1>1 DEF UploadInv
  <2>2. BrowserStage(u) /\ Counted(u) /\ (u \notin displaced => TakenIsWhole(u))
        /\ intakes[u].at # "queued" /\ browser[u].chunk = 1
    BY <2>1 DEF Fine, UnopenedIsIdle
  <2>3. /\ browser'[u].at \in {"sent", "ready"}
        /\ browser'[u].at = "ready" => uploadPlan[u].chunks # 0
        /\ browser'[u].chunk = browser[u].chunk
    BY <1>1, <1>2 DEF UploadType
  <2>4. BrowserStage(u)'
    BY <1>1, <1>2, <2>2, <2>3 DEF BrowserStage, UploadType
  <2>5. Counted(u)'
    BY <1>1, <1>3, <2>2 DEF Counted, ChunkOffset
  <2>6. QueuedIsComplete(u)' /\ UnopenedIsIdle(u)'
    BY <1>1, <2>2, <2>3 DEF QueuedIsComplete, UnopenedIsIdle
  <2>7. u \notin displaced' => TakenIsWhole(u)'
    BY <1>1, <2>2 DEF TakenIsWhole, Whole, Size
  <2> QED
    BY <2>4, <2>5, <2>6, <2>7 DEF Fine
<1>6. ASSUME NEW g \in Groups PROVE BundledIsComplete(g)'
  <2>1. \A u \in Members(g) : Complete(u) => Complete(u)'
    <3> SUFFICES ASSUME NEW u \in Members(g), Complete(u) PROVE Complete(u)'
      OBVIOUS
    <3>1. u \in Uploading /\ browser[u].at = "over"
      BY DEF Members, Complete
    <3>2. u \notin files
      BY <1>1, <3>1
    <3>3. browser'[u] = browser[u]
      BY <1>1, <3>1, <3>2
    <3> QED
      BY <1>1, <3>1, <3>3, StillComplete
  <2> QED
    BY <1>1, <2>1, BundleKeeps DEF UploadInv
<1>7. UploadType'
  <2>1. sessions' \subseteq Uploading
    BY <1>1, <1>2 DEF UploadType
  <2>2. browser' \in [Uploading -> Browsers]
    <3>1. ASSUME NEW u \in Uploading
          PROVE  browser'[u] \in Browsers
      <4>1. browser[u] \in Browsers
        BY <1>2 DEF UploadType
      <4> QED
        BY <1>1, <4>1 DEF Browsers, Places
    <3> QED
      BY <1>1, <3>1
  <2> QED
    BY <1>1, <1>2, <2>1, <2>2, Frames DEF UploadType
<1>8. NamedOnce'
  BY <1>1, <1>2 DEF NamedOnce
<1> QED
  BY <1>2, <1>4, <1>5, <1>6, <1>7, <1>8 DEF UploadInv


LEMMA ChunkArrivesKeeps == \A u \in Uploading : UploadInv /\ ChunkArrives(u) => UploadInv'
<1> SUFFICES ASSUME NEW u \in Uploading, UploadInv, ChunkArrives(u) PROVE UploadInv'
  OBVIOUS
<1> DEFINE w == [wait |-> Waits(u), upload |-> u, written |-> 0]
<1> DEFINE offset == ChunkOffset(browser[u].chunk)
<1>1. /\ u \in sessions /\ browser[u].at = "ready"
      /\ received' = [received EXCEPT ![u] = CutAt(received[u], offset)]
      /\ fileAt' = [fileAt EXCEPT ![u] = "part"]
      /\ chunkWriters' = chunkWriters \cup {w}
      /\ doubled' = doubled \cup {v \in {u} : WritersOf(v) # {}}
      /\ browser' = [browser EXCEPT ![u].at = "waiting"]
      /\ UNCHANGED <<uploadPlan, sessions, bundles, intakes, displaced>>
  BY DEF ChunkArrives
<1>2. UploadType /\ NamedOnce /\ Fine(u)
  BY DEF UploadInv
<1>3. /\ Uploading' = Uploading /\ Groups' = Groups /\ Tries' = Tries
      /\ \A g : Members(g)' = Members(g)
  BY <1>1, Frames
<1>4. /\ browser[u].chunk \in Nat \ {0} /\ browser[u].try \in Nat /\ offset \in Nat
      /\ received[u] \in Seq(Nat)
  <2>1. browser[u] \in Browsers /\ received[u] \in Seq(Nat) /\ ChunkPieces \in Nat
    BY <1>2 DEF UploadType
  <2>2. browser[u].chunk \in Nat \ {0} /\ browser[u].try \in Nat
    BY <2>1 DEF Browsers
  <2> QED
    BY <2>1, <2>2, ChunksFit
<1>5. /\ CutAt(received[u], offset) \in Seq(Nat) /\ Len(CutAt(received[u], offset)) = offset
      /\ offset <= Len(received[u]) /\ received[u] = Upto(Len(received[u])) =>
             CutAt(received[u], offset) = Upto(offset)
  BY <1>4, CutIs
<1>6. w \in [wait : Tries, upload : Uploading, written : 0..ChunkPieces]
  BY <1>2, <1>4 DEF Waits, Tries, UploadType
<1>7. w.upload = u /\ w.wait.chunk = browser[u].chunk /\ w.written = 0
  BY DEF Waits
<1> HIDE DEF w, offset
<1>8. ASSUME NEW v \in Uploading \ {u} PROVE Fine(v)'
  <2>1. /\ received'[v] = received[v] /\ browser'[v] = browser[v] /\ fileAt'[v] = fileAt[v]
        /\ WritersOf(v)' = WritersOf(v)
    BY <1>1, <1>2, <1>7 DEF UploadType, WritersOf
  <2> QED
    BY <1>1, <1>2, <2>1, FineKeeps DEF UploadInv
<1>9. Fine(u)'
  <2>1. /\ BrowserStage(u) /\ Counted(u) /\ QueuedIsComplete(u)
        /\ u \notin displaced => TakenIsWhole(u)
    BY <1>2 DEF Fine
  <2>2. browser'[u].at = "waiting" /\ browser'[u].chunk = browser[u].chunk
    BY <1>1, <1>2 DEF UploadType
  <2>3. received'[u] = CutAt(received[u], offset)
    BY <1>1, <1>2 DEF UploadType
  <2>4. intakes'[u].at # "queued"
    BY <1>1, <2>1 DEF QueuedIsComplete, Complete
  <2>5. BrowserStage(u)'
    BY <1>1, <2>1, <2>2 DEF BrowserStage
  <2>6. Counted(u)'
    <3> SUFFICES ASSUME u \notin doubled' PROVE Counted(u)'
      BY DEF Counted
    <3>1. WritersOf(u) = {} /\ u \notin doubled
      BY <1>1
    <3>2. received[u] = Upto(Len(received[u])) /\ Len(received[u]) >= offset
      BY <2>1, <3>1 DEF Counted, offset
    <3>3. received'[u] = Upto(offset) /\ Len(received'[u]) = offset
      BY <1>4, <1>5, <2>3, <3>2
    <3>4. WritersOf(u)' = {w}
      BY <1>1, <1>7, <3>1 DEF WritersOf
    <3>5. w.wait.chunk <= uploadPlan'[u].chunks
      BY <1>1, <1>7, <2>1 DEF BrowserStage
    <3>6. ChunkOffset(browser'[u].chunk) = offset /\ ChunkOffset(w.wait.chunk) = offset
      BY <1>7, <2>2 DEF offset
    <3>7. Len(received'[u]) = ChunkOffset(w.wait.chunk) + w.written
      BY <1>4, <1>7, <3>3, <3>6
    <3> QED
      BY <1>4, <1>7, <2>2, <3>3, <3>4, <3>5, <3>6, <3>7 DEF Counted, offset
  <2>7. QueuedIsComplete(u)' /\ UnopenedIsIdle(u)'
    BY <2>2, <2>4 DEF QueuedIsComplete, UnopenedIsIdle
  <2>8. u \notin displaced' => TakenIsWhole(u)'
    BY <1>1, <2>1 DEF TakenIsWhole, Whole, Size
  <2> QED
    BY <2>5, <2>6, <2>7, <2>8 DEF Fine
<1>10. ASSUME NEW g \in Groups PROVE BundledIsComplete(g)'
  <2>1. \A v \in Members(g) : Complete(v) => Complete(v)'
    <3> SUFFICES ASSUME NEW v \in Members(g), Complete(v) PROVE Complete(v)'
      OBVIOUS
    <3>1. v \in Uploading /\ v # u
      BY <1>1 DEF Members, Complete
    <3>2. received'[v] = received[v] /\ browser'[v] = browser[v]
      BY <1>1, <1>2, <3>1 DEF UploadType
    <3> QED
      BY <1>1, <3>1, <3>2, StillComplete
  <2> QED
    BY <1>1, <2>1, BundleKeeps DEF UploadInv
<1>11. UploadType'
  <2>1. received' \in [Uploading -> Seq(Nat)]
    BY <1>1, <1>2, <1>5 DEF UploadType
  <2>2. browser' \in [Uploading -> Browsers]
    <3>1. browser[u] \in Browsers
      BY <1>2 DEF UploadType
    <3>2. [browser[u] EXCEPT !.at = "waiting"] \in Browsers
      BY <3>1, BrowserRecords DEF Places
    <3> QED
      BY <1>1, <1>2, <3>2 DEF UploadType
  <2>3. /\ fileAt' \in [Uploading -> {"none", "part", "named", "lost"}]
        /\ chunkWriters' \subseteq [wait : Tries, upload : Uploading, written : 0..ChunkPieces]
        /\ doubled' \subseteq Uploading
    BY <1>1, <1>2, <1>6 DEF UploadType
  <2> QED
    BY <1>1, <1>2, <1>3, <2>1, <2>2, <2>3 DEF UploadType
<1>12. NamedOnce'
  BY <1>1, <1>2, <1>3 DEF NamedOnce, UploadType
<1> QED
  BY <1>3, <1>8, <1>9, <1>10, <1>11, <1>12 DEF UploadInv


\* What a handler writes comes after what it has written, and when the file was complete there
\* is no handler that could still write.
LEMMA WritePieceKeeps == \A w \in chunkWriters : UploadInv /\ WritePiece(w) => UploadInv'
<1> SUFFICES ASSUME NEW w \in chunkWriters, UploadInv, WritePiece(w) PROVE UploadInv'
  OBVIOUS
<1> DEFINE u == w.upload
<1> DEFINE next == [w EXCEPT !.written = w.written + 1]
<1> DEFINE piece == ChunkOffset(w.wait.chunk) + w.written + 1
<1>1. /\ w.written < ChunkPieces
      /\ received' = [received EXCEPT ![u] = Append(received[u], piece)]
      /\ chunkWriters' = (chunkWriters \ {w}) \cup {next}
      /\ UNCHANGED <<uploadPlan, sessions, browser, fileAt, bundles, intakes, doubled, displaced>>
  BY DEF WritePiece
<1>2. UploadType /\ NamedOnce
  BY DEF UploadInv
<1>3. /\ Uploading' = Uploading /\ Groups' = Groups /\ Tries' = Tries
      /\ \A g : Members(g)' = Members(g)
  BY <1>1, Frames
<1>4. /\ w \in [wait : Tries, upload : Uploading, written : 0..ChunkPieces] /\ ChunkPieces \in Nat
      /\ received \in [Uploading -> Seq(Nat)]
  BY <1>2 DEF UploadType
<1>5. /\ u \in Uploading /\ w.wait.chunk \in Nat \ {0} /\ w.written \in Nat
      /\ ChunkOffset(w.wait.chunk) \in Nat /\ piece \in Nat /\ received[u] \in Seq(Nat)
  <2>1. u \in Uploading /\ w.wait.chunk \in Nat \ {0} /\ w.written \in Nat
    BY <1>4 DEF Tries
  <2>2. ChunkOffset(w.wait.chunk) \in Nat
    BY <1>4, <2>1, ChunksFit
  <2> QED
    BY <1>4, <2>1, <2>2
<1>6. /\ next \in [wait : Tries, upload : Uploading, written : 0..ChunkPieces]
      /\ next.upload = u /\ next.wait = w.wait /\ next.written = w.written + 1
  BY <1>1, <1>4, SMTT(20)
<1>7. Append(received[u], piece) \in Seq(Nat) /\ received'[u] = Append(received[u], piece)
      /\ Len(received'[u]) = Len(received[u]) + 1
  BY <1>1, <1>4, <1>5
<1>8. w \in WritersOf(u)
  BY DEF WritersOf
<1> HIDE DEF next, u
<1>9. ASSUME NEW v \in Uploading \ {u} PROVE received'[v] = received[v] /\ Fine(v)'
  <2>1. received'[v] = received[v]
    BY <1>1, <1>4
  <2>2. WritersOf(v)' = WritersOf(v)
    BY <1>1, <1>6 DEF WritersOf, u
  <2> QED
    BY <1>1, <1>2, <2>1, <2>2, FineKeeps DEF UploadInv
<1>10. BrowserStage(u) /\ Counted(u) /\ QueuedIsComplete(u) /\ UnopenedIsIdle(u)
       /\ (u \notin displaced => TakenIsWhole(u))
  BY <1>5 DEF UploadInv, Fine
<1>11. u \notin doubled =>
           /\ WritersOf(u) = {w}
           /\ w.wait.chunk = browser[u].chunk /\ w.wait.chunk <= uploadPlan[u].chunks
           /\ Len(received[u]) = ChunkOffset(w.wait.chunk) + w.written
           /\ received[u] = Upto(Len(received[u]))
  BY <1>8, <1>10 DEF Counted
<1>12. Complete(u) => Complete(u)'
  <2> SUFFICES ASSUME Complete(u) PROVE Complete(u)'
    OBVIOUS
  <2>1. u \in doubled
    <3> SUFFICES ASSUME u \notin doubled PROVE FALSE
      OBVIOUS
    <3>1. Len(received[u]) = Size(u) /\ uploadPlan[u].chunks \in Nat
      BY <1>2, <1>5 DEF Complete, UploadType
    <3>2. ChunkOffset(w.wait.chunk) + ChunkPieces <= Size(u)
      BY <1>4, <1>5, <1>11, <3>1, ChunksFit DEF Size
    <3>3. Size(u) \in Nat
      BY <1>2, <1>5, Sizes
    <3> QED
      BY <1>1, <1>4, <1>5, <1>11, <3>1, <3>2, <3>3
  <2>2. uploadPlan[u].sha => IsPrefix(Whole(u), received'[u])
    BY <1>2, <1>5, <1>7, Sizes, PrefixGrows DEF Complete
  <2> QED
    BY <1>1, <2>1, <2>2 DEF Complete, Whole, Size
<1>13. Fine(u)'
  <2>1. BrowserStage(u)' /\ UnopenedIsIdle(u)'
    BY <1>1, <1>10 DEF BrowserStage, UnopenedIsIdle
  <2>2. QueuedIsComplete(u)'
    BY <1>1, <1>10, <1>12 DEF QueuedIsComplete
  <2>3. Counted(u)'
    <3> SUFFICES ASSUME u \notin doubled' PROVE Counted(u)'
      BY DEF Counted
    <3>1. u \notin doubled
      BY <1>1
    <3>2. piece = Len(received[u]) + 1 /\ Len(received[u]) \in Nat
      BY <1>5, <1>11, <3>1
    <3>3. received'[u] = Upto(Len(received'[u]))
      BY <1>7, <1>11, <3>1, <3>2, UptoGrows
    <3>4. WritersOf(u)' = {next}
      BY <1>1, <1>6, <1>11, <3>1 DEF WritersOf
    <3>5. Len(received'[u]) = ChunkOffset(next.wait.chunk) + next.written
      BY <1>5, <1>6, <1>7, <1>11, <3>1
    <3>6. Len(received[u]) >= ChunkOffset(browser[u].chunk)
      BY <1>10, <3>1 DEF Counted
    <3>7. Len(received'[u]) >= ChunkOffset(browser[u].chunk)
      BY <1>5, <1>7, <1>11, <3>1, <3>2, <3>6
    <3> QED
      BY <1>1, <1>6, <1>11, <3>1, <3>3, <3>4, <3>5, <3>7 DEF Counted, ChunkOffset
  <2>4. u \notin displaced' => TakenIsWhole(u)'
    BY <1>1, <1>10 DEF TakenIsWhole, Whole, Size
  <2> QED
    BY <2>1, <2>2, <2>3, <2>4 DEF Fine
<1>14. ASSUME NEW g \in Groups PROVE BundledIsComplete(g)'
  <2>1. \A v \in Members(g) : Complete(v) => Complete(v)'
    <3> SUFFICES ASSUME NEW v \in Members(g), v # u PROVE Complete(v) => Complete(v)'
      BY <1>12
    <3>1. v \in Uploading
      BY DEF Members
    <3> QED
      BY <1>1, <1>9, <3>1, StillComplete
  <2> QED
    BY <1>1, <2>1, BundleKeeps DEF UploadInv
<1>15. UploadType'
  <2>1. received' \in [Uploading -> Seq(Nat)]
    BY <1>1, <1>4, <1>7
  <2>2. chunkWriters' \subseteq [wait : Tries, upload : Uploading, written : 0..ChunkPieces]
    BY <1>1, <1>2, <1>6 DEF UploadType
  <2> QED
    BY <1>1, <1>2, <1>3, <2>1, <2>2 DEF UploadType
<1>16. NamedOnce'
  BY <1>1, <1>2, <1>3 DEF NamedOnce
<1> QED
  BY <1>3, <1>9, <1>13, <1>14, <1>15, <1>16 DEF UploadInv

\* The browser goes on to the next chunk when the one handler has written all of this one.
LEMMA EndChunkKeeps == \A w \in chunkWriters : UploadInv /\ EndChunk(w) => UploadInv'
<1> SUFFICES ASSUME NEW w \in chunkWriters, UploadInv, EndChunk(w) PROVE UploadInv'
  OBVIOUS
<1> DEFINE u == w.upload
<1> DEFINE onward == [at |-> IF browser[u].chunk = uploadPlan[u].chunks THEN "sent" ELSE "ready",
                      chunk |-> browser[u].chunk + 1, try |-> 1]
<1>1. /\ w.written = ChunkPieces /\ chunkWriters' = chunkWriters \ {w}
      /\ UNCHANGED <<uploadPlan, sessions, received, fileAt, bundles, intakes, doubled, displaced>>
      /\ browser' = IF browser[u].at = "waiting" /\ w.wait = Waits(u)
                    THEN [browser EXCEPT ![u] = onward] ELSE browser
  BY DEF EndChunk
<1>2. UploadType /\ NamedOnce
  BY DEF UploadInv
<1>3. /\ Uploading' = Uploading /\ Groups' = Groups /\ Tries' = Tries
      /\ \A g : Members(g)' = Members(g)
  BY <1>1, Frames
<1>4. u \in Uploading /\ w \in WritersOf(u) /\ browser[u] \in Browsers
      /\ browser \in [Uploading -> Browsers]
  BY <1>2 DEF UploadType, WritersOf
<1>5. browser[u].chunk \in Nat \ {0} /\ ChunkPieces \in Nat /\ received[u] \in Seq(Nat)
      /\ uploadPlan[u].chunks \in Nat
  BY <1>2, <1>4 DEF UploadType, Browsers
<1>6. /\ onward \in Browsers /\ onward.chunk = browser[u].chunk + 1
      /\ onward.at \in {"sent", "ready"}
      /\ onward.at = "ready" => browser[u].chunk # uploadPlan[u].chunks
  BY <1>5 DEF Browsers, Places
<1> HIDE DEF u, onward
<1>7. UploadType'
  <2>1. browser' \in [Uploading -> Browsers]
    BY <1>1, <1>4, <1>6
  <2>2. chunkWriters' \subseteq [wait : Tries, upload : Uploading, written : 0..ChunkPieces]
    BY <1>1, <1>2 DEF UploadType
  <2> QED
    BY <1>1, <1>2, <1>3, <2>1, <2>2 DEF UploadType
<1>8. NamedOnce'
  BY <1>1, <1>2, <1>3 DEF NamedOnce
<1>9. \A v \in Uploading : WritersOf(v)' \subseteq WritersOf(v)
  BY <1>1 DEF WritersOf
<1>10. CASE browser' = browser
  BY <1>1, <1>7, <1>8, <1>9, <1>10, QuietKeeps
<1>11. CASE /\ browser' = [browser EXCEPT ![u] = onward]
            /\ browser[u].at = "waiting" /\ w.wait = Waits(u)
  <2>1. ASSUME NEW v \in Uploading \ {u} PROVE browser'[v] = browser[v] /\ Fine(v)'
    <3>1. browser'[v] = browser[v]
      BY <1>4, <1>11
    <3> QED
      BY <1>1, <1>2, <1>9, <3>1, FineKeeps DEF UploadInv
  <2>2. BrowserStage(u) /\ Counted(u) /\ QueuedIsComplete(u)
        /\ (u \notin displaced => TakenIsWhole(u))
    BY <1>4 DEF UploadInv, Fine
  <2>3. browser'[u] = onward
    BY <1>4, <1>11
  <2>4. BrowserStage(u)'
    BY <1>1, <1>5, <1>6, <1>11, <2>2, <2>3 DEF BrowserStage
  <2>5. Counted(u)'
    <3> SUFFICES ASSUME u \notin doubled' PROVE Counted(u)'
      BY DEF Counted
    <3>1. /\ WritersOf(u) = {w} /\ received[u] = Upto(Len(received[u]))
          /\ w.wait.chunk = browser[u].chunk
          /\ Len(received[u]) = ChunkOffset(w.wait.chunk) + w.written
      BY <1>1, <1>4, <2>2 DEF Counted
    <3>2. WritersOf(u)' = {}
      BY <1>1, <3>1 DEF WritersOf
    <3>3. Len(received[u]) = ChunkOffset(onward.chunk)
      BY <1>1, <1>5, <1>6, <3>1, ChunksFit
    <3>4. Len(received[u]) >= ChunkOffset(onward.chunk)
      BY <1>5, <3>3
    <3> QED
      BY <1>1, <2>3, <3>1, <3>2, <3>4 DEF Counted, ChunkOffset
  <2>6. QueuedIsComplete(u)' /\ UnopenedIsIdle(u)'
    BY <1>1, <1>6, <1>11, <2>2, <2>3 DEF QueuedIsComplete, UnopenedIsIdle, Complete
  <2>7. u \notin displaced' => TakenIsWhole(u)'
    BY <1>1, <2>2 DEF TakenIsWhole, Whole, Size
  <2>8. ASSUME NEW g \in Groups PROVE BundledIsComplete(g)'
    <3>1. \A v \in Members(g) : Complete(v) => Complete(v)'
      <4> SUFFICES ASSUME NEW v \in Members(g), Complete(v) PROVE Complete(v)'
        OBVIOUS
      <4>1. v \in Uploading \ {u}
        BY <1>11 DEF Members, Complete
      <4> QED
        BY <1>1, <2>1, <4>1, StillComplete
    <3> QED
      BY <1>1, <3>1, BundleKeeps DEF UploadInv
  <2>9. Fine(u)'
    BY <2>4, <2>5, <2>6, <2>7 DEF Fine
  <2> QED
    BY <1>3, <1>7, <1>8, <2>1, <2>8, <2>9 DEF UploadInv
<1> QED
  BY <1>1, <1>10, <1>11


LEMMA GivingUp ==
    ASSUME UploadType, NEW files
    PROVE  /\ GivenUp(files) \in [Uploading -> Browsers]
           /\ \A u \in Uploading :
                  /\ GivenUp(files)[u].chunk = browser[u].chunk
                  /\ GivenUp(files)[u].at \in {browser[u].at, "over"}
                  /\ u \in files => GivenUp(files)[u].at = "over"
<1>1. ASSUME NEW u \in Uploading
      PROVE  /\ browser[u] \in Browsers /\ [browser[u] EXCEPT !.at = "over"] \in Browsers
             /\ [browser[u] EXCEPT !.at = "over"].at = "over"
             /\ [browser[u] EXCEPT !.at = "over"].chunk = browser[u].chunk
  <2>1. browser[u] \in Browsers /\ "over" \in Places
    BY DEF UploadType, Places
  <2> QED
    BY <2>1, BrowserRecords
<1> QED
  BY <1>1 DEF GivenUp

LEMMA LoseTryKeeps == \A u \in Uploading : UploadInv /\ LoseTry(u) => UploadInv'
<1> SUFFICES ASSUME NEW u \in Uploading, UploadInv, LoseTry(u) PROVE UploadInv'
  OBVIOUS
<1> DEFINE b == browser[u]
<1> DEFINE again == IF b.try < MaxTries THEN [at |-> "ready", chunk |-> b.chunk, try |-> b.try + 1]
                    ELSE [b EXCEPT !.at = "over"]
<1>1. /\ b.at \in {"ready", "waiting"} /\ browser' = [browser EXCEPT ![u] = again]
      /\ UNCHANGED <<uploadPlan, sessions, received, fileAt, chunkWriters, bundles, intakes,
                     doubled, displaced>>
  BY DEF LoseTry
<1>2. UploadType /\ NamedOnce /\ b \in Browsers /\ browser \in [Uploading -> Browsers]
  BY DEF UploadInv, UploadType
<1>3. /\ again \in Browsers /\ again.chunk = b.chunk /\ again.at \in {"ready", "over"}
  <2>1. \A n \in Nat : n + 1 \in Nat
    OBVIOUS
  <2> QED
    BY <1>2, <2>1 DEF Browsers, Places
<1> HIDE DEF again
<1>4. \A v \in Uploading :
          /\ browser'[v].chunk = browser[v].chunk
          /\ \/ browser'[v].at \in {browser[v].at, "over"}
             \/ {browser[v].at, browser'[v].at} \subseteq {"ready", "waiting"}
          /\ WritersOf(v)' = WritersOf(v)
  BY <1>1, <1>2, <1>3 DEF WritersOf
<1>5. UploadType'
  <2>1. browser' \in [Uploading -> Browsers]
    BY <1>1, <1>2, <1>3
  <2> QED
    BY <1>1, <1>2, <2>1, Frames DEF UploadType
<1>6. NamedOnce'
  BY <1>1, <1>2, Frames DEF NamedOnce
<1> QED
  BY <1>1, <1>4, <1>5, <1>6, QuietKeeps

LEMMA NoticeKeeps == \A w \in chunkWriters : UploadInv /\ NoticeDisconnect(w) => UploadInv'
<1> SUFFICES ASSUME NEW w \in chunkWriters, UploadInv, NoticeDisconnect(w) PROVE UploadInv'
  OBVIOUS
<1>1. /\ chunkWriters' = chunkWriters \ {w}
      /\ UNCHANGED <<uploadPlan, sessions, browser, received, fileAt, bundles, intakes,
                     doubled, displaced>>
  BY DEF NoticeDisconnect
<1>2. UploadType /\ NamedOnce
  BY DEF UploadInv
<1>3. UploadType' /\ NamedOnce'
  BY <1>1, <1>2, Frames DEF UploadType, NamedOnce
<1>4. \A v \in Uploading : WritersOf(v)' \subseteq WritersOf(v)
  BY <1>1 DEF WritersOf
<1> QED
  BY <1>1, <1>3, <1>4, QuietKeeps

LEMMA ChecksumFailsKeeps == \A u \in Uploading : UploadInv /\ ChecksumFails(u) => UploadInv'
<1> SUFFICES ASSUME NEW u \in Uploading, UploadInv, ChecksumFails(u) PROVE UploadInv'
  OBVIOUS
<1>1. /\ u \in sessions /\ browser' = GivenUp({u}) /\ fileAt' = [fileAt EXCEPT ![u] = "lost"]
      /\ UNCHANGED <<uploadPlan, sessions, received, chunkWriters, bundles, intakes, doubled,
                     displaced>>
  BY DEF ChecksumFails
<1>2. UploadType /\ NamedOnce /\ QueuedIsComplete(u)
      /\ fileAt \in [Uploading -> {"none", "part", "named", "lost"}]
  BY DEF UploadInv, UploadType, Fine
<1>3. UploadType' /\ NamedOnce'
  BY <1>1, <1>2, Frames, GivingUp DEF UploadType, NamedOnce
<1>4. \A v \in Uploading : intakes[v].at = "queued" => fileAt'[v] = fileAt[v]
  BY <1>1, <1>2 DEF QueuedIsComplete
<1>5. \A v \in Uploading : WritersOf(v)' = WritersOf(v)
  BY <1>1 DEF WritersOf
<1> QED
  BY <1>1, <1>2, <1>3, <1>4, <1>5, GivingUp, QuietKeeps

\* Whoever's accepted file is removed with the cancelled one counts as displaced.
LEMMA CancelKeeps == \A u \in Uploading : UploadInv /\ UploadCancel(u) => UploadInv'
<1> SUFFICES ASSUME NEW u \in Uploading, UploadInv, UploadCancel(u) PROVE UploadInv'
  OBVIOUS
<1> DEFINE gone == {u} \cup Named(uploadPlan[u].name)
<1>1. /\ u \in sessions /\ browser' = GivenUp({u}) /\ sessions' = sessions \ {u}
      /\ fileAt' = [v \in Uploading |-> IF v \in gone THEN "lost" ELSE fileAt[v]]
      /\ displaced' = displaced \cup Displaces(u)
      /\ UNCHANGED <<uploadPlan, received, chunkWriters, bundles, intakes, doubled>>
  BY DEF UploadCancel
<1>2. UploadType /\ NamedOnce /\ QueuedIsComplete(u)
      /\ fileAt \in [Uploading -> {"none", "part", "named", "lost"}]
  BY DEF UploadInv, UploadType, Fine
<1>3. \A v \in Uploading :
          intakes[v].at = "queued" => fileAt'[v] = fileAt[v] \/ v \in displaced'
  <2> SUFFICES ASSUME NEW v \in Uploading, intakes[v].at = "queued", v \in gone
               PROVE  v \in displaced'
    BY <1>1
  <2>1. v # u
    BY <1>1, <1>2 DEF QueuedIsComplete
  <2> QED
    BY <1>1, <2>1 DEF Displaces
<1>4. Displaces(u) \subseteq Uploading
  BY DEF Displaces, Named
<1> HIDE DEF gone
<1>5. fileAt' \in [Uploading -> {"none", "part", "named", "lost"}]
  BY <1>1, <1>2
<1>6. UploadType'
  BY <1>1, <1>2, <1>4, <1>5, Frames, GivingUp DEF UploadType
<1>7. NamedOnce'
  BY <1>1, <1>2, Frames DEF NamedOnce
<1>8. \A v \in Uploading : WritersOf(v)' = WritersOf(v)
  BY <1>1 DEF WritersOf
<1> QED
  BY <1>1, <1>2, <1>3, <1>6, <1>7, <1>8, GivingUp, QuietKeeps

\* A group's files are no one else's.
LEMMA CleanedKeeps ==
    ASSUME UploadInv, NEW g \in Groups, CleanedUp(g), intakes' \in [Uploading ->
               [at : {"none", "queued", "running", "ended", "failed"}, took : Seq(Nat)]],
           DOMAIN bundles' = Groups,
           \A h \in Groups :
               /\ bundles'[h] \in [at : {"none", "building", "done"},
                                   read : UNION {[S -> Seq(Nat)] : S \in SUBSET Members(h)}]
               /\ bundles'[h].at = "building" => bundles'[h] = bundles[h],
           \A u \in Uploading :
               /\ intakes'[u].at = "queued" => intakes[u].at = "queued"
               /\ intakes'[u].took = intakes[u].took \/ (u \notin displaced' => TakenIsWhole(u)'),
           UNCHANGED <<uploadPlan, received, chunkWriters, doubled, displaced>>
    PROVE  UploadInv'
<1>1. /\ sessions' = sessions \ Members(g) /\ browser' = GivenUp(Members(g))
      /\ fileAt' = [u \in Uploading |-> IF u \in Members(g) \cap sessions THEN "lost"
                                        ELSE fileAt[u]]
  BY DEF CleanedUp
<1>2. UploadType /\ NamedOnce
  BY DEF UploadInv
<1>3. ASSUME NEW u \in Uploading, intakes[u].at = "queued" PROVE fileAt'[u] = fileAt[u]
  <2>1. u \notin sessions
    BY <1>3 DEF UploadInv, Fine, QueuedIsComplete
  <2> QED
    BY <1>1, <2>1
<1>4. fileAt' \in [Uploading -> {"none", "part", "named", "lost"}]
  BY <1>1, <1>2 DEF UploadType
<1>5. UploadType'
  BY <1>1, <1>2, <1>4, Frames, GivingUp DEF UploadType
<1>6. NamedOnce'
  BY <1>1, <1>2, Frames DEF NamedOnce
<1>7. \A v \in Uploading : WritersOf(v)' = WritersOf(v)
  BY DEF WritersOf
<1> QED
  BY <1>1, <1>2, <1>3, <1>5, <1>6, <1>7, GivingUp, QuietKeeps


\* No other accepted file has the name, so the job takes the one that was finished.
LEMMA TakeFileKeeps == \A u \in Uploading : UploadInv /\ TakeFile(u) => UploadInv'
<1> SUFFICES ASSUME NEW u \in Uploading, UploadInv, TakeFile(u) PROVE UploadInv'
  OBVIOUS
<1> DEFINE there == Named(uploadPlan[u].name)
<1> DEFINE pick == CHOOSE v \in there : TRUE
<1> DEFINE took == IF there = {} THEN [intakes[u] EXCEPT !.at = "failed"]
                   ELSE [at |-> "running", took |-> received[pick]]
<1>1. /\ intakes[u].at = "queued" /\ intakes' = [intakes EXCEPT ![u] = took]
      /\ UNCHANGED <<uploadPlan, sessions, browser, received, fileAt, chunkWriters, bundles,
                     doubled, displaced>>
  BY DEF TakeFile
<1>2. /\ UploadType /\ NamedOnce /\ Counted(u) /\ QueuedIsComplete(u)
      /\ intakes \in [Uploading -> [at : {"none", "queued", "running", "ended", "failed"},
                                    took : Seq(Nat)]]
      /\ u \notin displaced => TakenIsWhole(u)
  BY DEF UploadInv, UploadType, Fine
<1>3. there # {} => pick \in Uploading
  BY DEF Named
<1>4. received \in [Uploading -> Seq(Nat)]
  BY <1>2 DEF UploadType
<1>5. took \in [at : {"none", "queued", "running", "ended", "failed"}, took : Seq(Nat)]
      /\ took.at # "queued"
  BY <1>2, <1>3, <1>4
<1>6. ASSUME u \notin displaced PROVE there = {u} /\ pick = u
  <2>1. fileAt[u] = "named"
    BY <1>1, <1>2, <1>6 DEF QueuedIsComplete
  <2>2. there = {u}
    BY <1>2, <2>1 DEF NamedOnce, Named
  <2> QED
    BY <2>2
<1>7. u \notin displaced' => TakenIsWhole(u)'
  <2> SUFFICES ASSUME u \notin displaced PROVE TakenIsWhole(u)'
    BY <1>1
  <2>1. Complete(u)
    BY <1>1, <1>2 DEF QueuedIsComplete
  <2>2. intakes'[u].took = received[u]
    BY <1>1, <1>2, <1>6
  <2>3. u \notin doubled => received[u] = Whole(u)
    BY <1>2, <2>1, Sizes DEF Counted, Complete
  <2>4. uploadPlan[u].sha => IsPrefix(Whole(u), received[u])
    BY <2>1 DEF Complete
  <2> QED
    BY <1>1, <2>2, <2>3, <2>4 DEF TakenIsWhole, Whole, Size
<1> HIDE DEF took, pick, there
<1>8. /\ intakes' \in [Uploading -> [at : {"none", "queued", "running", "ended", "failed"},
                                     took : Seq(Nat)]]
      /\ \A v \in Uploading :
             /\ intakes'[v].at = "queued" => intakes[v].at = "queued"
             /\ intakes'[v].took = intakes[v].took \/ (v \notin displaced' => TakenIsWhole(v)')
  BY <1>1, <1>2, <1>5, <1>7
<1>9. UploadType' /\ NamedOnce'
  BY <1>1, <1>2, <1>8, Frames DEF UploadType, NamedOnce
<1>10. \A v \in Uploading : WritersOf(v)' = WritersOf(v)
  BY <1>1 DEF WritersOf
<1> QED
  BY <1>1, <1>8, <1>9, <1>10, QuietKeeps

LEMMA EndIngestKeeps == \A u \in Uploading : UploadInv /\ EndIngest(u) => UploadInv'
<1> SUFFICES ASSUME NEW u \in Uploading, UploadInv, EndIngest(u) PROVE UploadInv'
  OBVIOUS
<1> DEFINE Intakes == [at : {"none", "queued", "running", "ended", "failed"}, took : Seq(Nat)]
<1> DEFINE ended == [intakes[u] EXCEPT !.at = "ended"]
<1>1. /\ intakes' = [intakes EXCEPT ![u] = ended]
      /\ UNCHANGED <<uploadPlan, sessions, browser, received, fileAt, chunkWriters, bundles,
                     doubled, displaced>>
  BY DEF EndIngest
<1>2. UploadType /\ NamedOnce /\ intakes \in [Uploading -> Intakes]
  BY DEF UploadInv, UploadType
<1>3. ended \in Intakes /\ ended.at = "ended" /\ ended.took = intakes[u].took
  BY <1>2
<1> HIDE DEF ended, Intakes
<1>4. /\ intakes' \in [Uploading -> Intakes]
      /\ \A v \in Uploading :
             /\ intakes'[v].at = "queued" => intakes[v].at = "queued"
             /\ intakes'[v].took = intakes[v].took
  BY <1>1, <1>2, <1>3
<1>5. UploadType' /\ NamedOnce'
  BY <1>1, <1>2, <1>4, Frames DEF UploadType, NamedOnce, Intakes
<1>6. \A v \in Uploading : WritersOf(v)' = WritersOf(v)
  BY <1>1 DEF WritersOf
<1> QED
  BY <1>1, <1>4, <1>5, <1>6, QuietKeeps

LEMMA GroupEndsKeep ==
    \A g \in Groups : UploadInv /\ (GroupCancel(g) \/ GroupChecksumFails(g)) => UploadInv'
<1> SUFFICES ASSUME NEW g \in Groups, UploadInv, GroupCancel(g) \/ GroupChecksumFails(g)
             PROVE  UploadInv'
  OBVIOUS
<1>1. CleanedUp(g) /\ UNCHANGED <<uploadPlan, received, chunkWriters, bundles, intakes, doubled,
                                  displaced>>
  BY DEF GroupCancel, GroupChecksumFails
<1>2. UploadType
  BY DEF UploadInv
<1> QED
  BY <1>1, <1>2, CleanedKeeps DEF UploadType

\* The job of a group starts with what was read into its bundle.
LEMMA GroupSubmitKeeps == \A g \in Groups : UploadInv /\ GroupSubmit(g) => UploadInv'
<1> SUFFICES ASSUME NEW g \in Groups, UploadInv, GroupSubmit(g) PROVE UploadInv'
  OBVIOUS
<1> DEFINE Intakes == [at : {"none", "queued", "running", "ended", "failed"}, took : Seq(Nat)]
<1>1. /\ bundles[g].at = "building" /\ DOMAIN bundles[g].read = Members(g) /\ CleanedUp(g)
      /\ intakes' = [u \in Uploading |-> IF u \in Members(g)
                                         THEN [at |-> "running", took |-> bundles[g].read[u]]
                                         ELSE intakes[u]]
      /\ bundles' = [bundles EXCEPT ![g].at = "done"]
      /\ UNCHANGED <<uploadPlan, received, chunkWriters, doubled, displaced>>
  BY DEF GroupSubmit
<1>2. UploadType /\ BundledIsComplete(g) /\ intakes \in [Uploading -> Intakes]
      /\ DOMAIN bundles = Groups
      /\ \A h \in Groups : bundles[h] \in [at : {"none", "building", "done"},
                               read : UNION {[S -> Seq(Nat)] : S \in SUBSET Members(h)}]
  BY DEF UploadInv, UploadType
<1>3. ASSUME NEW u \in Members(g)
      PROVE  [at |-> "running", took |-> bundles[g].read[u]] \in Intakes
  <2>1. bundles[g].read[u] \in Seq(Nat)
    BY <1>1, <1>2
  <2> QED
    BY <2>1
<1>4. intakes' \in [Uploading -> Intakes]
  BY <1>1, <1>2, <1>3
<1>5. ASSUME NEW u \in Uploading
      PROVE  /\ intakes'[u].at = "queued" => intakes[u].at = "queued"
             /\ intakes'[u].took = intakes[u].took \/ (u \notin displaced' => TakenIsWhole(u)')
  <2>1. CASE u \in Members(g)
    <3>1. intakes'[u] = [at |-> "running", took |-> bundles[g].read[u]]
      BY <1>1, <2>1
    <3>2. /\ u \notin doubled => bundles[g].read[u] = Whole(u)
          /\ uploadPlan[u].sha => IsPrefix(Whole(u), bundles[g].read[u])
      BY <1>1, <1>2, <2>1 DEF BundledIsComplete
    <3>3. TakenIsWhole(u)'
      BY <1>1, <3>1, <3>2 DEF TakenIsWhole, Whole, Size
    <3> QED
      BY <3>1, <3>3
  <2>2. CASE u \notin Members(g)
    BY <1>1, <2>2
  <2> QED
    BY <2>1, <2>2
<1>6. DOMAIN bundles' = Groups /\ \A h \in Groups :
          /\ bundles'[h] \in [at : {"none", "building", "done"},
                              read : UNION {[S -> Seq(Nat)] : S \in SUBSET Members(h)}]
          /\ bundles'[h].at = "building" => bundles'[h] = bundles[h]
  BY <1>1, <1>2, SMTT(20)
<1> QED
  BY <1>1, <1>4, <1>5, <1>6, CleanedKeeps

\* A finish looks at the length and the checksum, and takes the name from whoever had it.
LEMMA UploadFinishKeeps == \A u \in Uploading : UploadInv /\ UploadFinish(u) => UploadInv'
<1> SUFFICES ASSUME NEW u \in Uploading, UploadInv, UploadFinish(u) PROVE UploadInv'
  OBVIOUS
<1> DEFINE Intakes == [at : {"none", "queued", "running", "ended", "failed"}, took : Seq(Nat)]
<1> DEFINE queued == [intakes[u] EXCEPT !.at = "queued"]
<1>1. /\ u \in sessions /\ Len(received[u]) = Size(u) /\ ChecksumFits(u)
      /\ fileAt' = [v \in Uploading |-> IF v = u THEN "named"
                                        ELSE IF v \in Named(uploadPlan[u].name) THEN "lost"
                                        ELSE fileAt[v]]
      /\ displaced' = displaced \cup Displaces(u)
      /\ intakes' = [intakes EXCEPT ![u] = queued]
      /\ sessions' = sessions \ {u} /\ browser' = GivenUp({u})
      /\ UNCHANGED <<uploadPlan, received, chunkWriters, bundles, doubled>>
  BY DEF UploadFinish, SizeFits
<1>2. /\ UploadType /\ NamedOnce /\ Fine(u) /\ intakes \in [Uploading -> Intakes]
      /\ Uploading' = Uploading /\ Groups' = Groups
  BY <1>1, Frames DEF UploadInv, UploadType
<1>3. queued \in Intakes /\ queued.at = "queued" /\ queued.took = intakes[u].took
  BY <1>2
<1> HIDE DEF queued, Intakes
<1>4. /\ intakes' \in [Uploading -> Intakes] /\ intakes'[u].at = "queued"
      /\ intakes'[u].took = intakes[u].took
      /\ \A v \in Uploading \ {u} : intakes'[v] = intakes[v]
  BY <1>1, <1>2, <1>3
<1>5. UploadType'
  <2>1. Displaces(u) \subseteq Uploading
    BY DEF Displaces, Named
  <2>2. fileAt' \in [Uploading -> {"none", "part", "named", "lost"}]
    BY <1>1, <1>2 DEF UploadType
  <2> QED
    BY <1>1, <1>2, <1>4, <2>1, <2>2, Frames, GivingUp DEF UploadType, Intakes
<1>6. NamedOnce'
  <2>1. \A v \in Uploading \ {u} :
            fileAt'[v] = "named" => fileAt[v] = "named" /\ uploadPlan[v].name # uploadPlan[u].name
    BY <1>1 DEF Named
  <2> QED
    BY <1>1, <1>2, <2>1 DEF NamedOnce
<1>7. \A v \in Uploading : WritersOf(v)' = WritersOf(v)
  BY <1>1 DEF WritersOf
<1>8. Complete(u)'
  <2>1. uploadPlan[u].sha => IsPrefix(Whole(u), received[u])
    BY <1>1, <1>2, Sizes, PrefixGrows DEF ChecksumFits
  <2>2. browser'[u].at = "over"
    BY <1>1, <1>2, GivingUp
  <2>3. Size(u)' = Size(u) /\ Whole(u)' = Whole(u)
    BY <1>1 DEF Size, Whole
  <2> QED
    BY <1>1, <2>1, <2>2, <2>3 DEF Complete
<1>9. ASSUME NEW v \in Uploading \ {u} PROVE Fine(v)'
  <2>1. intakes'[v].at = "queued" => fileAt'[v] = fileAt[v] \/ v \in displaced'
    BY <1>1, <1>4 DEF Displaces
  <2>2. Fine(v) /\ intakes'[v] = intakes[v]
    BY <1>4 DEF UploadInv
  <2>3. browser'[v].chunk = browser[v].chunk /\ browser'[v].at \in {browser[v].at, "over"}
    BY <1>1, <1>2, GivingUp
  <2> QED
    BY <1>1, <1>2, <1>7, <2>1, <2>2, <2>3, FineKeeps
<1>10. Fine(u)'
  <2>1. BrowserStage(u) /\ Counted(u) /\ (u \notin displaced => TakenIsWhole(u))
    BY <1>2 DEF Fine
  <2>2. browser'[u].chunk = browser[u].chunk /\ browser'[u].at = "over"
    BY <1>1, <1>2, GivingUp
  <2>3. BrowserStage(u)' /\ UnopenedIsIdle(u)'
    BY <1>1, <2>1, <2>2 DEF BrowserStage, UnopenedIsIdle
  <2>4. Counted(u)'
    BY <1>1, <1>7, <2>1, <2>2 DEF Counted, ChunkOffset
  <2>5. QueuedIsComplete(u)'
    BY <1>1, <1>8 DEF QueuedIsComplete
  <2>6. u \notin displaced' => TakenIsWhole(u)'
    BY <1>1, <1>4, <2>1 DEF TakenIsWhole, Whole, Size
  <2> QED
    BY <2>3, <2>4, <2>5, <2>6 DEF Fine
<1>11. ASSUME NEW g \in Groups PROVE BundledIsComplete(g)'
  <2>1. \A v \in Uploading : Complete(v) => Complete(v)'
    <3> SUFFICES ASSUME NEW v \in Uploading PROVE Complete(v) => Complete(v)'
      OBVIOUS
    <3>1. browser'[v].at \in {browser[v].at, "over"}
      BY <1>1, <1>2, GivingUp
    <3>2. browser[v].at = "over" => browser'[v].at = "over"
      BY <3>1
    <3> QED
      BY <1>1, <3>2, StillComplete
  <2>2. Members(g) \subseteq Uploading
    BY DEF Members
  <2> QED
    BY <1>1, <2>1, <2>2, BundleKeeps DEF UploadInv
<1> QED
  BY <1>2, <1>5, <1>6, <1>9, <1>10, <1>11 DEF UploadInv

\* A group's bundle starts empty, when all its files are there.
LEMMA GroupFinishKeeps == \A g \in Groups : UploadInv /\ GroupFinish(g) => UploadInv'
<1> SUFFICES ASSUME NEW g \in Groups, UploadInv, GroupFinish(g) PROVE UploadInv'
  OBVIOUS
<1> DEFINE building == [bundles[g] EXCEPT !.at = "building"]
<1>1. /\ bundles[g] = NoBundle
      /\ \A u \in Members(g) : Len(received[u]) = Size(u) /\ ChecksumFits(u)
      /\ bundles' = [bundles EXCEPT ![g] = building] /\ browser' = GivenUp(Members(g))
      /\ UNCHANGED <<uploadPlan, sessions, received, fileAt, chunkWriters, intakes, doubled,
                     displaced>>
  BY DEF GroupFinish, GroupAccepts, SizeFits
<1>2. /\ UploadType /\ NamedOnce /\ Uploading' = Uploading /\ Groups' = Groups
      /\ DOMAIN bundles = Groups
  BY <1>1, Frames DEF UploadInv, UploadType
<1>3. building = [at |-> "building", read |-> <<>>]
  BY <1>1 DEF NoBundle
<1> HIDE DEF building
<1>4. UploadType'
  <2>1. <<>> \in [{} -> Seq(Nat)] /\ {} \in SUBSET Members(g)
    OBVIOUS
  <2>2. building \in [at : {"none", "building", "done"},
                      read : UNION {[S -> Seq(Nat)] : S \in SUBSET Members(g)}]
    BY <1>3, <2>1
  <2>3. /\ DOMAIN bundles' = Groups
        /\ \A h \in Groups : bundles'[h] \in [at : {"none", "building", "done"},
                               read : UNION {[S -> Seq(Nat)] : S \in SUBSET Members(h)}]
    BY <1>1, <1>2, <2>2 DEF UploadType
  <2> QED
    BY <1>1, <1>2, <2>3, Frames, GivingUp DEF UploadType
<1>5. NamedOnce'
  BY <1>1, <1>2 DEF NamedOnce
<1>6. \A v \in Uploading :
          /\ WritersOf(v)' = WritersOf(v) /\ browser'[v].chunk = browser[v].chunk
          /\ browser'[v].at \in {browser[v].at, "over"}
          /\ v \in Members(g) => browser'[v].at = "over"
          /\ browser[v].at = "over" => browser'[v].at = "over"
  <2>1. \A v \in Uploading : WritersOf(v)' = WritersOf(v)
    BY <1>1 DEF WritersOf
  <2> QED
    BY <1>1, <1>2, <2>1, GivingUp
<1>7. ASSUME NEW v \in Uploading PROVE Fine(v)'
  BY <1>1, <1>2, <1>6, FineKeeps DEF UploadInv
<1>8. ASSUME NEW h \in Groups \ {g} PROVE BundledIsComplete(h)'
  <2>1. Members(h) \subseteq Uploading /\ bundles'[h] = bundles[h]
    BY <1>1, <1>2 DEF Members
  <2>2. \A v \in Uploading : Complete(v) => Complete(v)'
    BY <1>1, <1>6, StillComplete
  <2> QED
    BY <1>1, <2>1, <2>2, BundleKeeps DEF UploadInv
<1>9. BundledIsComplete(g)'
  <2>1. ASSUME NEW v \in Members(g) PROVE Complete(v)'
    <3>1. v \in Uploading
      BY DEF Members
    <3>2. uploadPlan[v].sha => IsPrefix(Whole(v), received[v])
      BY <1>1, <1>2, <3>1, Sizes, PrefixGrows DEF ChecksumFits
    <3>3. Size(v)' = Size(v) /\ Whole(v)' = Whole(v)
      BY <1>1 DEF Size, Whole
    <3> QED
      BY <1>1, <1>6, <3>1, <3>2, <3>3 DEF Complete
  <2>2. bundles'[g].read = <<>> /\ Members(g)' = Members(g)
    BY <1>1, <1>2, <1>3, Frames
  <2>3. DOMAIN bundles'[g].read = {}
    BY <2>2
  <2> QED
    BY <2>1, <2>2, <2>3 DEF BundledIsComplete
<1> QED
  BY <1>2, <1>4, <1>5, <1>7, <1>8, <1>9 DEF UploadInv

\* A file whose handlers are done is read as it was finished.
LEMMA BundleFileKeeps ==
    \A g \in Groups : \A u \in Members(g) : UploadInv /\ BundleFile(g, u) => UploadInv'
<1> SUFFICES ASSUME NEW g \in Groups, NEW u \in Members(g), UploadInv, BundleFile(g, u)
             PROVE  UploadInv'
  OBVIOUS
<1> DEFINE read == [v \in DOMAIN bundles[g].read \cup {u} |->
                      IF v = u THEN received[u] ELSE bundles[g].read[v]]
<1> DEFINE next == IF fileAt[u] = "part" THEN [at |-> "building", read |-> read] ELSE NoBundle
<1>1. /\ bundles[g].at = "building" /\ bundles' = [bundles EXCEPT ![g] = next]
      /\ UNCHANGED <<uploadPlan, sessions, browser, received, fileAt, chunkWriters, intakes,
                     doubled, displaced>>
  BY DEF BundleFile
<1>2. /\ UploadType /\ NamedOnce /\ Uploading' = Uploading /\ Groups' = Groups
      /\ DOMAIN bundles = Groups /\ u \in Uploading /\ received \in [Uploading -> Seq(Nat)]
      /\ bundles[g] \in [at : {"none", "building", "done"},
                         read : UNION {[S -> Seq(Nat)] : S \in SUBSET Members(g)}]
      /\ BundledIsComplete(g)
  BY <1>1, Frames DEF UploadInv, UploadType, Members
<1>3. /\ DOMAIN read = DOMAIN bundles[g].read \cup {u} /\ read[u] = received[u]
      /\ \A v \in DOMAIN bundles[g].read \ {u} : read[v] = bundles[g].read[v]
  OBVIOUS
<1>4. /\ DOMAIN bundles[g].read \subseteq Members(g)
      /\ \A v \in DOMAIN bundles[g].read : bundles[g].read[v] \in Seq(Nat)
  BY <1>2
<1>5. read \in UNION {[S -> Seq(Nat)] : S \in SUBSET Members(g)}
  <2>1. \A v \in DOMAIN read : read[v] \in Seq(Nat)
    BY <1>2, <1>3, <1>4
  <2>2. read = [v \in DOMAIN read |-> read[v]]
    OBVIOUS
  <2>3. DOMAIN read \in SUBSET Members(g)
    BY <1>3, <1>4
  <2> HIDE DEF read
  <2>4. read \in [DOMAIN read -> Seq(Nat)]
    BY <2>1, <2>2
  <2> QED
    BY <2>3, <2>4
<1>6. next \in [at : {"none", "building", "done"},
                read : UNION {[S -> Seq(Nat)] : S \in SUBSET Members(g)}]
      /\ (next.at = "building" => next.read = read)
  <2>1. <<>> \in [{} -> Seq(Nat)] /\ {} \in SUBSET Members(g)
    OBVIOUS
  <2> HIDE DEF read
  <2> QED
    BY <1>5, <2>1 DEF NoBundle
<1> HIDE DEF next, read
<1>7. UploadType'
  <2>1. /\ DOMAIN bundles' = Groups
        /\ \A h \in Groups : bundles'[h] \in [at : {"none", "building", "done"},
                               read : UNION {[S -> Seq(Nat)] : S \in SUBSET Members(h)}]
    BY <1>1, <1>2, <1>6 DEF UploadType
  <2> QED
    BY <1>1, <1>2, <2>1, Frames DEF UploadType
<1>8. NamedOnce'
  BY <1>1, <1>2 DEF NamedOnce
<1>9. \A v \in Uploading : WritersOf(v)' = WritersOf(v)
  BY <1>1 DEF WritersOf
<1>10. ASSUME NEW v \in Uploading PROVE Fine(v)'
  BY <1>1, <1>2, <1>9, FineKeeps DEF UploadInv
<1>11. ASSUME NEW v \in Uploading PROVE Complete(v) => Complete(v)'
  BY <1>1, StillComplete
<1>12. ASSUME NEW h \in Groups \ {g} PROVE BundledIsComplete(h)'
  <2>1. Members(h) \subseteq Uploading /\ bundles'[h] = bundles[h]
    BY <1>1, <1>2 DEF Members
  <2> QED
    BY <1>1, <1>11, <2>1, BundleKeeps DEF UploadInv
<1>13. ASSUME bundles'[g].at = "building", NEW v \in Members(g), v \in DOMAIN bundles'[g].read
       PROVE  /\ v \notin doubled => bundles'[g].read[v] = Whole(v)
              /\ uploadPlan[v].sha => IsPrefix(Whole(v), bundles'[g].read[v])
  <2>1. bundles'[g] = next /\ bundles'[g].read = read
    BY <1>1, <1>2, <1>6, <1>13
  <2>2. CASE v # u
    BY <1>1, <1>2, <1>3, <1>13, <2>1, <2>2 DEF BundledIsComplete
  <2>3. CASE v = u
    <3>1. Complete(u) /\ Counted(u)
      BY <1>1, <1>2 DEF BundledIsComplete, UploadInv, Fine
    <3>2. u \notin doubled => received[u] = Whole(u)
      BY <1>2, <3>1, Sizes DEF Counted, Complete
    <3> QED
      BY <1>3, <2>1, <2>3, <3>1, <3>2 DEF Complete
  <2> QED
    BY <2>2, <2>3
<1>14. BundledIsComplete(g)'
  <2>1. Members(g)' = Members(g) /\ Members(g) \subseteq Uploading
    BY <1>1, Frames DEF Members
  <2>2. \A v \in Members(g) : Complete(v)'
    BY <1>1, <1>2, <1>11, <2>1 DEF BundledIsComplete
  <2>3. \A v \in Members(g) : Whole(v)' = Whole(v)
    BY <1>1 DEF Whole, Size
  <2> QED
    BY <1>1, <1>13, <2>1, <2>2, <2>3 DEF BundledIsComplete
<1> QED
  BY <1>2, <1>7, <1>8, <1>10, <1>12, <1>14 DEF UploadInv

-----------------------------------------------------------------------------
(* The invariant, and what it says of uploads                              *)

LEMMA UploadInvInit == UploadInit => UploadInv
<1> SUFFICES ASSUME UploadInit PROVE UploadInv
  OBVIOUS
<1>1. /\ sessions = {}
      /\ browser = [u \in Uploading |-> [at |-> "starting", chunk |-> 1, try |-> 1]]
      /\ received = [u \in Uploading |-> <<>>] /\ fileAt = [u \in Uploading |-> "none"]
      /\ chunkWriters = {} /\ bundles = [g \in Groups |-> NoBundle]
      /\ intakes = [u \in Uploading |-> NotTaken] /\ doubled = {} /\ displaced = {}
  BY DEF UploadInit
<1>2. ChunkPieces \in Nat /\ \A u \in Uploading : uploadPlan[u].chunks \in Nat
  BY UploadAssumption DEF UploadInit, Uploading
<1>3. ASSUME NEW g \in Groups
      PROVE  bundles[g] \in [at : {"none", "building", "done"},
                             read : UNION {[S -> Seq(Nat)] : S \in SUBSET Members(g)}]
             /\ bundles[g].at = "none"
  <2>1. <<>> \in [{} -> Seq(Nat)] /\ {} \in SUBSET Members(g)
    OBVIOUS
  <2> QED
    BY <1>1, <2>1 DEF NoBundle
<1>4. UploadType
  <2>1. [at |-> "starting", chunk |-> 1, try |-> 1] \in Browsers
    BY DEF Browsers, Places
  <2>2. NotTaken \in [at : {"none", "queued", "running", "ended", "failed"}, took : Seq(Nat)]
    BY DEF NotTaken
  <2>3. <<>> \in Seq(Nat)
    OBVIOUS
  <2> QED
    BY <1>1, <1>2, <1>3, <2>1, <2>2, <2>3 DEF UploadType
<1>5. ASSUME NEW u \in Uploading PROVE Fine(u)
  <2>1. browser[u].chunk = 1 /\ browser[u].at = "starting" /\ received[u] = <<>>
        /\ intakes[u].at = "none" /\ intakes[u].took = <<>>
    BY <1>1 DEF NotTaken
  <2>2. BrowserStage(u)
    BY <1>2, <2>1 DEF BrowserStage
  <2>3. Counted(u)
    <3>1. Len(received[u]) = 0 /\ received[u] = Upto(0)
      BY <2>1, UptoIs
    <3>2. ChunkOffset(1) = 0 /\ WritersOf(u) = {}
      BY <1>1, <1>2 DEF ChunkOffset, WritersOf
    <3> QED
      BY <2>1, <3>1, <3>2 DEF Counted
  <2>4. QueuedIsComplete(u) /\ UnopenedIsIdle(u) /\ TakenIsWhole(u)
    BY <1>1, <2>1 DEF QueuedIsComplete, UnopenedIsIdle, TakenIsWhole
  <2> QED
    BY <2>2, <2>3, <2>4 DEF Fine
<1>6. \A g \in Groups : BundledIsComplete(g)
  BY <1>3 DEF BundledIsComplete
<1>7. NamedOnce
  BY <1>1 DEF NamedOnce
<1> QED
  BY <1>4, <1>5, <1>6, <1>7 DEF UploadInv

LEMMA UploadInvStep == UploadInv /\ [UploadNext]_uploadVars => UploadInv'
<1> SUFFICES ASSUME UploadInv, [UploadNext]_uploadVars PROVE UploadInv'
  OBVIOUS
<1>1. Alone \subseteq Uploading /\ \A g \in Groups : Members(g) \subseteq Uploading
  BY DEF Alone, Members
<1>2. ASSUME NEW u \in Alone,
             UploadStart(u) \/ UploadFinish(u) \/ ChecksumFails(u) \/ TakeFile(u)
      PROVE  UploadInv'
  <2>1. CASE UploadStart(u)
    <3>1. Opened({u}) /\ {u} \subseteq Uploading
      BY <1>1, <2>1 DEF UploadStart
    <3> QED
      BY <3>1, OpenedKeeps
  <2> QED
    BY <1>1, <1>2, <2>1, UploadFinishKeeps, ChecksumFailsKeeps, TakeFileKeeps
<1>3. ASSUME NEW u \in Uploading,
             ChunkArrives(u) \/ LoseTry(u) \/ UploadCancel(u) \/ EndIngest(u)
      PROVE  UploadInv'
  BY <1>3, ChunkArrivesKeeps, LoseTryKeeps, CancelKeeps, EndIngestKeeps
<1>4. ASSUME NEW w \in chunkWriters, WritePiece(w) \/ EndChunk(w) \/ NoticeDisconnect(w)
      PROVE  UploadInv'
  BY <1>4, WritePieceKeeps, EndChunkKeeps, NoticeKeeps
<1>5. ASSUME NEW g \in Groups,
             \/ GroupStart(g) \/ GroupFinish(g) \/ GroupChecksumFails(g)
             \/ GroupSubmit(g) \/ GroupCancel(g)
             \/ \E u \in Members(g) : BundleFile(g, u)
      PROVE  UploadInv'
  <2>1. CASE GroupStart(g)
    <3>1. Opened(Members(g))
      BY <2>1 DEF GroupStart
    <3> QED
      BY <1>1, <3>1, OpenedKeeps
  <2> QED
    BY <1>5, <2>1, GroupFinishKeeps, GroupEndsKeep, GroupSubmitKeeps, BundleFileKeeps
<1>6. CASE UNCHANGED uploadVars
  <2>1. UNCHANGED <<uploadPlan, sessions, browser, received, fileAt, chunkWriters, bundles,
                    intakes, doubled, displaced>>
    BY <1>6 DEF uploadVars
  <2>2. UploadType' /\ NamedOnce'
    BY <2>1, Frames DEF UploadInv, UploadType, NamedOnce
  <2>3. \A u \in Uploading : WritersOf(u)' = WritersOf(u)
    BY <2>1 DEF WritersOf
  <2> QED
    BY <2>1, <2>2, <2>3, QuietKeeps
<1> QED
  BY <1>2, <1>3, <1>4, <1>5, <1>6 DEF UploadNext

LEMMA InvIsEnough == UploadInv => UploadsArriveWhole
<1> SUFFICES ASSUME UploadInv, NEW u \in Uploading
             PROVE  AcknowledgedIsHeld(u) /\ (u \notin displaced => TakenIsWhole(u))
  BY DEF UploadsArriveWhole
<1>1. UploadType /\ BrowserStage(u) /\ Counted(u) /\ (u \notin displaced => TakenIsWhole(u))
  BY DEF UploadInv, Fine
<1>2. ASSUME u \notin doubled
      PROVE  IsPrefix(SubSeq(Whole(u), 1, ChunkOffset(browser[u].chunk)), received[u])
  <2>1. /\ browser[u].chunk \in Nat \ {0} /\ uploadPlan[u].chunks \in Nat /\ ChunkPieces \in Nat
        /\ received[u] \in Seq(Nat)
    BY <1>1 DEF UploadType, Browsers
  <2>2. /\ ChunkOffset(browser[u].chunk) \in Nat
        /\ ChunkOffset(browser[u].chunk) <= Size(u)
    BY <1>1, <2>1, ChunksFit DEF BrowserStage, Size
  <2>3. /\ received[u] = Upto(Len(received[u])) /\ Len(received[u]) \in Nat
        /\ ChunkOffset(browser[u].chunk) <= Len(received[u])
    BY <1>1, <1>2, <2>1, <2>2 DEF Counted
  <2> QED
    BY <1>1, <2>2, <2>3, Sizes, PrefixOfUpto
<1> QED
  BY <1>1, <1>2 DEF AcknowledgedIsHeld

\* However many uploads are sent, lost, repeated, finished and cancelled: what was acknowledged
\* is in the file, and as long as no file of the same name comes between, what a job takes is
\* what was sent.
THEOREM UploadsArrive == UploadSpec => []UploadsArriveWhole
<1> QED
  BY UploadInvInit, UploadInvStep, InvIsEnough, PTL DEF UploadSpec

-----------------------------------------------------------------------------
(***************************************************************************)
(* The histories of what was acquired.  Neither process reads a history    *)
(* and writes it after the other wrote (Doing); how far the running ingest *)
(* is (BackendAt) and what the tool is about to write (ToolAt), which it   *)
(* made up without the lock, say what a write will do to the history of    *)
(* then.                                                                    *)
(***************************************************************************)

Verdicts == {"unknown", "provenance_mismatch", "provenance_suspect", "valid"}
FileLists == {RecordedFiles(Definitions[d], raw, {}) : d \in Datasets, raw \in RawFiles} \cup {<<>>}
Records ==
    [id : Int, dataset : Datasets, method : {"told", "legacy_unknown"}, raw : RawFiles,
     status : {"received", "processed", "failed"}, active : BOOLEAN, files : FileLists,
     validity : Verdicts \cup {Missing}]
Additions == [kind : {"add"}, id : Int, fields : Records]
Assessments == [validity : Verdicts]
Endings == [status : {"processed"}, activate : {TRUE}] \cup [status : {"failed"}]
Reassessments == [kind : {"update"}, id : Int, fields : Assessments]
Finishings == [kind : {"update"}, id : Int, fields : Endings]

Lakes == [raw : RawFiles \cup {Missing}, canonical : RawFiles \cup {Missing}, ready : BOOLEAN]

HistoryType ==
    /\ histories \in [Datasets -> Seq(Records)]
    /\ lake \in [Datasets -> Lakes]
    /\ ingests \in Nat
    /\ overtaken \subseteq Datasets /\ unrecorded \subseteq Datasets
    /\ DOMAIN doing = Processes

\* What a process does, and that it holds the lock of what it has read.
Doing(p) ==
    LET m == doing[p] IN
    /\ m = [pc |-> m.pc, dataset |-> m.dataset, change |-> m.change, was |-> m.was]
    /\ m.pc \in {"idle", "change", "read"} \/ (p = "backend" /\ m.pc \in {"made", "ending"})
    /\ m.pc # "idle" => m.dataset \in Datasets
    /\ m.pc = "read" =>
           /\ m.was = histories[m.dataset]
           /\ \A q \in Processes : doing[q].pc = "read" /\ doing[q].dataset = m.dataset => q = p

\* A history names each acquisition once, the newest ingest last, and uses at most one.
Orderly(h) ==
    /\ \A i \in DOMAIN h : h[i].id <= ingests
    /\ \A i, j \in DOMAIN h : h[i].id = h[j].id => i = j
    /\ \A i, j \in DOMAIN h : h[i].active /\ h[j].active => i = j

\* The record of the ingest that runs: it was received, and of the raw file r.
Running(h, r) ==
    \E i \in DOMAIN h : h[i].id = ingests /\ h[i].status = "received" /\ h[i].raw = r

\* How far the ingest is: its record is still to be added, was added, or is to be finalized.
BackendAt ==
    LET m == doing["backend"]
        h == histories[m.dataset]
        here == lake[m.dataset]
        adding == m.pc \in {"change", "read"} /\ m.change.kind = "add"
        recorded == m.pc \in {"change", "read"} \/ m.change # Missing
    IN  m.pc # "idle" =>
            /\ ingests > 0 /\ (recorded => m.change.id = ingests)
            /\ m.pc \in {"change", "read"} => m.change \in Additions \/ m.change \in Finishings
            /\ adding =>
                   /\ m.change.fields.id = ingests
                   /\ m.change.fields.status = "received" /\ ~m.change.fields.active
                   /\ m.change.fields.raw = here.raw
                   /\ \A i \in DOMAIN h : h[i].id < ingests
            /\ recorded /\ ~adding => Running(h, here.raw)
            /\ m.pc = "ending"
               \/ (~adding /\ m.pc # "made" /\ m.change.fields.status = "processed") =>
                   here.canonical = here.raw

\* What the tool is about to write: its one new record, or a verdict.
ToolAt ==
    LET m == doing["tool"]
        h == histories[m.dataset]
    IN  m.pc # "idle" =>
            \/ /\ m.change \in Additions
               /\ m.change.fields.id = -1
               /\ \A i \in DOMAIN h : h[i].id # -1
               /\ m.change.fields.status \in {"processed", "received"}
               /\ m.change.fields.active <=> m.change.fields.status = "processed"
               /\ m.dataset \notin overtaken /\ h = <<>> =>
                      \/ lake[m.dataset].canonical = m.change.fields.raw
                      \/ m.dataset \in unrecorded
            \/ m.change \in Reassessments

\* The newest acquisition that was made into a canonical is in use, and made the one of the lake, or
\* an ingest that did not end, or that has no record, made it.
InUse(h, canonical, d) ==
    (\E i \in DOMAIN h : h[i].status = "processed") =>
        \E n \in DOMAIN h :
            /\ h[n].status = "processed" /\ h[n].active
            /\ \A i \in DOMAIN h : h[i].status = "processed" => h[i].id <= h[n].id
            /\ \/ canonical = h[n].raw
               \/ \E i \in DOMAIN h : h[i].raw = canonical /\ h[i].status \in {"failed", "received"}
               \/ d \in unrecorded

AcquisitionInv ==
    /\ HistoryType
    /\ \A p \in Processes : Doing(p)
    /\ BackendAt /\ ToolAt
    /\ \A d \in Datasets :
           /\ Orderly(histories[d])
           /\ d \notin overtaken => InUse(histories[d], lake[d].canonical, d)

-----------------------------------------------------------------------------
(* A verdict is one of four, whatever the files are. *)
LEMMA VerdictOf == ASSUME NEW def, NEW r, NEW inUse PROVE Assess(def, r, inUse) \in Verdicts
BY DEF Assess, Verdicts

(* A new record has the fields it is made of. *)
LEMMA RecordIs ==
    ASSUME NEW id \in Int, NEW d \in Datasets, NEW raw \in RawFiles,
           NEW method \in {"told", "legacy_unknown"},
           NEW status \in {"received", "processed", "failed"}, NEW active \in BOOLEAN, NEW inUse
    PROVE  LET r == Record(id, d, raw, method, status, active, inUse) IN
           /\ r \in Records
           /\ r.id = id /\ r.raw = raw /\ r.status = status /\ r.active = active
<1> DEFINE files == RecordedFiles(Definitions[d], raw, {})
           blank == [id |-> id, dataset |-> d, method |-> method, raw |-> raw, status |-> status,
                     active |-> active, files |-> files, validity |-> Missing]
           verdict == Assess(Definitions[d], blank, inUse)
<1>1. files \in FileLists
  BY DEF FileLists
<1>2. verdict \in Verdicts
  BY VerdictOf
<1>3. Record(id, d, raw, method, status, active, inUse) = [blank EXCEPT !.validity = verdict]
  BY DEF Record
<1> HIDE DEF files, verdict
<1> QED
  BY <1>1, <1>2, <1>3 DEF Records

LEMMA Deactivated ==
    ASSUME NEW r \in Records, NEW b \in BOOLEAN
    PROVE  LET s == [r EXCEPT !.active = b] IN
           /\ s \in Records
           /\ s.id = r.id /\ s.raw = r.raw /\ s.status = r.status /\ s.active = b
           /\ s.files = r.files
BY DEF Records

(* add(): the others stay as they were, in use only when the new one is not. *)
LEMMA AddedIs ==
    ASSUME NEW h \in Seq(Records), NEW record \in Records
    PROVE  LET g == Added(h, record) IN
           /\ g \in Seq(Records) /\ Len(g) = Len(h) + 1 /\ g[Len(h) + 1] = record
           /\ \A i \in DOMAIN h :
                  /\ g[i].id = h[i].id /\ g[i].raw = h[i].raw /\ g[i].status = h[i].status
                  /\ g[i].files = h[i].files
                  /\ g[i].active <=> h[i].active /\ ~record.active
<1> DEFINE old == [i \in DOMAIN h |-> [h[i] EXCEPT !.active = h[i].active /\ ~record.active]]
<1>1. /\ Len(h) \in Nat /\ DOMAIN h = 1..Len(h) /\ \A i \in 1..Len(h) : h[i] \in Records
  OBVIOUS
<1>2. \A i \in DOMAIN h : old[i] \in Records
  <2> SUFFICES ASSUME NEW i \in DOMAIN h PROVE old[i] \in Records
    OBVIOUS
  <2>1. (h[i].active /\ ~record.active) \in BOOLEAN
    OBVIOUS
  <2> QED
    BY <1>1, <2>1, Deactivated
<1>3. /\ old \in Seq(Records) /\ Len(old) = Len(h)
  BY <1>1, <1>2
<1>4. Added(h, record) = Append(old, record)
  BY DEF Added
<1>5. \A i \in DOMAIN h :
          /\ old[i].id = h[i].id /\ old[i].raw = h[i].raw /\ old[i].status = h[i].status
          /\ old[i].files = h[i].files
          /\ old[i].active <=> h[i].active /\ ~record.active
  <2> SUFFICES ASSUME NEW i \in DOMAIN h
               PROVE  /\ old[i].id = h[i].id /\ old[i].raw = h[i].raw
                      /\ old[i].status = h[i].status /\ old[i].files = h[i].files
                      /\ old[i].active <=> h[i].active /\ ~record.active
    OBVIOUS
  <2> DEFINE b == h[i].active /\ ~record.active
  <2>1. b \in BOOLEAN
    OBVIOUS
  <2>2. old[i] = [h[i] EXCEPT !.active = b]
    OBVIOUS
  <2>3. h[i] \in Records
    BY <1>1
  <2>4. b <=> h[i].active /\ ~record.active
    OBVIOUS
  <2> HIDE DEF b, old
  <2>5. /\ old[i].id = h[i].id /\ old[i].raw = h[i].raw /\ old[i].status = h[i].status
        /\ old[i].active = b /\ old[i].files = h[i].files
    BY <2>1, <2>2, <2>3, Deactivated
  <2> QED
    BY <2>4, <2>5
<1> HIDE DEF old
<1> QED
  BY <1>1, <1>3, <1>4, <1>5, AppendProperties

(* update(): a verdict changes nothing else; a bad end only the status of its record; a good one *)
(* also puts that record in use, and no other.                                                   *)
LEMMA UpdatedIs ==
    ASSUME NEW h \in Seq(Records), NEW id \in Int, NEW fields,
           fields \in Assessments \/ fields \in Endings
    PROVE  LET g == Updated(h, id, fields) IN
           /\ g \in Seq(Records) /\ Len(g) = Len(h)
           /\ \A i \in DOMAIN h :
                  /\ g[i].id = h[i].id /\ g[i].raw = h[i].raw /\ g[i].files = h[i].files
                  /\ fields \in Assessments =>
                         g[i].status = h[i].status /\ (g[i].active <=> h[i].active)
                  /\ fields \in Endings =>
                         /\ g[i].status = IF h[i].id = id THEN fields.status ELSE h[i].status
                         /\ fields.status = "processed" => (g[i].active <=> h[i].id = id)
                         /\ fields.status = "failed" => (g[i].active <=> h[i].active)
<1> DEFINE st(i) == IF h[i].id = id /\ "status" \in DOMAIN fields
                    THEN fields.status ELSE h[i].status
           va(i) == IF h[i].id = id /\ "validity" \in DOMAIN fields THEN fields.validity
                    ELSE h[i].validity
           ac(i) == IF "activate" \in DOMAIN fields THEN h[i].id = id ELSE h[i].active
           g == Updated(h, id, fields)
<1>1. /\ Len(h) \in Nat /\ DOMAIN h = 1..Len(h) /\ \A i \in 1..Len(h) : h[i] \in Records
  OBVIOUS
<1>2. g = [i \in DOMAIN h |-> [h[i] EXCEPT !.status = st(i), !.validity = va(i), !.active = ac(i)]]
  BY DEF Updated
<1>3. ASSUME NEW i \in DOMAIN h
      PROVE  /\ st(i) \in {"received", "processed", "failed"} /\ va(i) \in Verdicts \cup {Missing}
             /\ ac(i) \in BOOLEAN
  <2>1. h[i] \in Records
    BY <1>1
  <2> QED
    BY <2>1 DEF Records, Assessments, Endings
<1>4. ASSUME NEW i \in DOMAIN h
      PROVE  /\ fields \in Assessments => st(i) = h[i].status /\ (ac(i) <=> h[i].active)
             /\ fields \in Endings =>
                    /\ st(i) = IF h[i].id = id THEN fields.status ELSE h[i].status
                    /\ fields.status = "processed" => (ac(i) <=> h[i].id = id)
                    /\ fields.status = "failed" => (ac(i) <=> h[i].active)
  BY DEF Assessments, Endings
<1> HIDE DEF st, va, ac, g
<1>5. ASSUME NEW i \in DOMAIN h
      PROVE  /\ g[i] \in Records /\ g[i].id = h[i].id /\ g[i].raw = h[i].raw
             /\ g[i].files = h[i].files /\ g[i].status = st(i) /\ g[i].active = ac(i)
  <2>1. h[i] \in Records
    BY <1>1
  <2>2. g[i] = [h[i] EXCEPT !.status = st(i), !.validity = va(i), !.active = ac(i)]
    BY <1>2
  <2>3. /\ st(i) \in {"received", "processed", "failed"} /\ va(i) \in Verdicts \cup {Missing}
        /\ ac(i) \in BOOLEAN
    BY <1>3
  <2> DEFINE r == h[i]  s == st(i)  v == va(i)  b == ac(i)
             t == [r EXCEPT !.status = s, !.validity = v, !.active = b]
  <2>4. g[i] = t
    BY <2>2
  <2>6. /\ r \in Records /\ s \in {"received", "processed", "failed"}
        /\ v \in Verdicts \cup {Missing} /\ b \in BOOLEAN
    BY <2>1, <2>3
  <2> HIDE DEF r, s, v, b
  <2>5. /\ t \in Records /\ t.id = r.id /\ t.raw = r.raw /\ t.files = r.files
        /\ t.status = s /\ t.active = b
    BY <2>6 DEF Records
  <2> HIDE DEF t
  <2> QED
    BY <2>4, <2>5 DEF r, s, b
<1>6. g = [i \in 1..Len(h) |-> g[i]]
  BY <1>1, <1>2
<1>7. g \in Seq(Records) /\ Len(g) = Len(h)
  BY <1>1, <1>5, <1>6
<1> QED
  BY <1>4, <1>5, <1>7 DEF g

-----------------------------------------------------------------------------
(* What the four writes make of a history *)

\* What was acquired stays, and what was said of how it ended.
Keeps(h, g) ==
    \A i \in DOMAIN h :
        /\ i \in DOMAIN g /\ g[i].id = h[i].id /\ g[i].files = h[i].files
        /\ h[i].status # "received" => g[i].status = h[i].status

LEMMA RecordsOf ==
    ASSUME NEW h \in Seq(Records)
    PROVE  /\ Len(h) \in Nat /\ DOMAIN h = 1..Len(h)
           /\ \A i \in DOMAIN h : h[i] \in Records /\ h[i].id \in Int
<1>1. /\ Len(h) \in Nat /\ DOMAIN h = 1..Len(h) /\ \A i \in DOMAIN h : h[i] \in Records
  OBVIOUS
<1>2. \A r \in Records : r.id \in Int
  BY DEF Records
<1> QED
  BY <1>1, <1>2

LEMMA IngestAdded ==
    ASSUME NEW h \in Seq(Records), NEW record \in Records, NEW canonical, NEW d, ingests \in Nat,
           Orderly(h), \A i \in DOMAIN h : h[i].id < ingests,
           record.id = ingests, record.status = "received", ~record.active
    PROVE  LET g == Added(h, record) IN
           /\ g \in Seq(Records) /\ Orderly(g) /\ Keeps(h, g) /\ Running(g, record.raw)
           /\ g # <<>> /\ ((\A i \in DOMAIN h : h[i].id # -1) => \A i \in DOMAIN g : g[i].id # -1)
           /\ InUse(h, canonical, d) => InUse(g, canonical, d)
<1> DEFINE g == Added(h, record)
<1>1. /\ g \in Seq(Records) /\ Len(g) = Len(h) + 1 /\ g[Len(h) + 1] = record
      /\ \A i \in DOMAIN h :
             /\ g[i].id = h[i].id /\ g[i].raw = h[i].raw /\ g[i].status = h[i].status
             /\ g[i].files = h[i].files
             /\ g[i].active <=> h[i].active /\ ~record.active
  BY AddedIs
<1> HIDE DEF g
<1>2. /\ Len(h) \in Nat /\ DOMAIN h = 1..Len(h) /\ DOMAIN g = 1..(Len(h) + 1)
      /\ \A i \in DOMAIN h : h[i].id \in Int
      /\ \A i \in DOMAIN g : i \in DOMAIN h \/ i = Len(h) + 1
  BY <1>1, RecordsOf
<1>3. Orderly(g)
  BY <1>1, <1>2 DEF Orderly
<1>4. Running(g, record.raw)
  BY <1>1, <1>2 DEF Running
<1>5. g # <<>> /\ ((\A i \in DOMAIN h : h[i].id # -1) => \A i \in DOMAIN g : g[i].id # -1)
  BY <1>1, <1>2
<1>6. ASSUME InUse(h, canonical, d) PROVE InUse(g, canonical, d)
  <2>1. /\ \A i \in DOMAIN g : g[i].status = "processed" => i \in DOMAIN h
        /\ \A i \in DOMAIN h : i \in DOMAIN g /\ (g[i].active <=> h[i].active)
    BY <1>1, <1>2
  <2> QED
    BY <1>1, <1>6, <2>1, SMTT(20) DEF InUse
<1>8. Keeps(h, g)
  BY <1>1, <1>2 DEF Keeps
<1> QED
  BY <1>1, <1>3, <1>4, <1>5, <1>6, <1>8 DEF g

LEMMA MigrationAdded ==
    ASSUME NEW h \in Seq(Records), NEW record \in Records, NEW canonical, NEW d, ingests \in Nat,
           Orderly(h), \A i \in DOMAIN h : h[i].id # -1,
           record.id = -1, record.active <=> record.status = "processed"
    PROVE  LET g == Added(h, record) IN
           /\ g \in Seq(Records) /\ Orderly(g) /\ Keeps(h, g)
           /\ \A raw : Running(h, raw) => Running(g, raw)
           /\ ingests > 0 /\ (\A i \in DOMAIN h : h[i].id < ingests) =>
                  \A i \in DOMAIN g : g[i].id < ingests
           /\ h = <<>> /\ (canonical = record.raw \/ d \in unrecorded) => InUse(g, canonical, d)
<1> DEFINE g == Added(h, record)
<1>1. /\ g \in Seq(Records) /\ Len(g) = Len(h) + 1 /\ g[Len(h) + 1] = record
      /\ \A i \in DOMAIN h :
             /\ g[i].id = h[i].id /\ g[i].raw = h[i].raw /\ g[i].status = h[i].status
             /\ g[i].files = h[i].files
             /\ g[i].active <=> h[i].active /\ ~record.active
  BY AddedIs
<1> HIDE DEF g
<1>2. /\ Len(h) \in Nat /\ DOMAIN h = 1..Len(h) /\ DOMAIN g = 1..(Len(h) + 1)
      /\ \A i \in DOMAIN h : h[i].id \in Int
      /\ \A i \in DOMAIN g : i \in DOMAIN h \/ i = Len(h) + 1
  BY <1>1, RecordsOf
<1>3. Orderly(g)
  BY <1>1, <1>2 DEF Orderly
<1>4. \A raw : Running(h, raw) => Running(g, raw)
  BY <1>1, <1>2 DEF Running
<1>5. ingests > 0 /\ (\A i \in DOMAIN h : h[i].id < ingests) =>
          \A i \in DOMAIN g : g[i].id < ingests
  BY <1>1, <1>2
<1>6. ASSUME h = <<>>, canonical = record.raw \/ d \in unrecorded PROVE InUse(g, canonical, d)
  <2>1. Len(h) = 0 /\ DOMAIN g = {1} /\ g[1] = record
    BY <1>1, <1>2, <1>6
  <2> QED
    BY <1>6, <2>1 DEF InUse
<1>8. Keeps(h, g)
  BY <1>1, <1>2 DEF Keeps
<1> QED
  BY <1>1, <1>3, <1>4, <1>5, <1>6, <1>8 DEF g

LEMMA IngestFinished ==
    ASSUME NEW h \in Seq(Records), NEW fields \in Endings, NEW canonical, NEW d, NEW raw,
           ingests \in Nat, Orderly(h), Running(h, raw),
           fields.status = "processed" => canonical = raw
    PROVE  LET g == Updated(h, ingests, fields) IN
           /\ g \in Seq(Records) /\ Orderly(g) /\ Keeps(h, g)
           /\ g # <<>> /\ ((\A i \in DOMAIN h : h[i].id # -1) => \A i \in DOMAIN g : g[i].id # -1)
           /\ InUse(h, canonical, d) => InUse(g, canonical, d)
<1> DEFINE g == Updated(h, ingests, fields)
<1>1. /\ g \in Seq(Records) /\ Len(g) = Len(h)
      /\ \A i \in DOMAIN h :
             /\ g[i].files = h[i].files
             /\ g[i].id = h[i].id /\ g[i].raw = h[i].raw
             /\ g[i].status = IF h[i].id = ingests THEN fields.status ELSE h[i].status
             /\ fields.status = "processed" => (g[i].active <=> h[i].id = ingests)
             /\ fields.status = "failed" => (g[i].active <=> h[i].active)
  <2>1. ingests \in Int
    OBVIOUS
  <2> QED
    BY <2>1, UpdatedIs
<1> HIDE DEF g
<1>2. /\ Len(h) \in Nat /\ DOMAIN h = 1..Len(h) /\ DOMAIN g = DOMAIN h
      /\ \A i \in DOMAIN h : h[i].id \in Int
  BY <1>1, RecordsOf
<1>3. fields.status \in {"processed", "failed"}
  BY DEF Endings
<1>4. Orderly(g)
  BY <1>1, <1>2, <1>3 DEF Orderly
<1>5. PICK n \in DOMAIN h : h[n].id = ingests /\ h[n].status = "received" /\ h[n].raw = raw
  BY DEF Running
<1>6. g # <<>> /\ ((\A i \in DOMAIN h : h[i].id # -1) => \A i \in DOMAIN g : g[i].id # -1)
  BY <1>1, <1>2, <1>5
<1>7. ASSUME InUse(h, canonical, d) PROVE InUse(g, canonical, d)
  <2>1. CASE fields.status = "processed"
    <3>1. /\ n \in DOMAIN g /\ g[n].status = "processed" /\ g[n].active /\ g[n].id = ingests
          /\ canonical = g[n].raw
      BY <1>1, <1>2, <1>5, <2>1
    <3>2. \A i \in DOMAIN g : g[i].id <= ingests
      BY <1>4 DEF Orderly
    <3> QED
      BY <3>1, <3>2 DEF InUse
  <2>2. CASE fields.status = "failed"
    <3>1. \A i \in DOMAIN g : g[i].status = "processed" <=> h[i].status = "processed"
      BY <1>1, <1>2, <1>5, <2>2 DEF Orderly
    <3>2. \A i \in DOMAIN h :
              h[i].status \in {"failed", "received"} => g[i].status \in {"failed", "received"}
      BY <1>1, <2>2
    <3>3. \A i \in DOMAIN h : g[i].active <=> h[i].active
      BY <1>1, <2>2
    <3> QED
      BY <1>1, <1>2, <1>7, <3>1, <3>2, <3>3 DEF InUse
  <2> QED
    BY <1>3, <2>1, <2>2
<1>8. Keeps(h, g)
  BY <1>1, <1>2, <1>5 DEF Keeps, Orderly
<1> QED
  BY <1>1, <1>4, <1>6, <1>7, <1>8 DEF g

LEMMA Reassessed ==
    ASSUME NEW h \in Seq(Records), NEW id \in Int, NEW fields \in Assessments, NEW canonical, NEW d,
           ingests \in Nat, Orderly(h)
    PROVE  LET g == Updated(h, id, fields) IN
           /\ g \in Seq(Records) /\ Orderly(g) /\ Keeps(h, g)
           /\ \A raw : Running(h, raw) => Running(g, raw)
           /\ (\A i \in DOMAIN h : h[i].id < ingests) => \A i \in DOMAIN g : g[i].id < ingests
           /\ InUse(h, canonical, d) => InUse(g, canonical, d)
<1> DEFINE g == Updated(h, id, fields)
<1>1. /\ g \in Seq(Records) /\ Len(g) = Len(h)
      /\ \A i \in DOMAIN h :
             /\ g[i].files = h[i].files
             /\ g[i].id = h[i].id /\ g[i].raw = h[i].raw /\ g[i].status = h[i].status
             /\ g[i].active <=> h[i].active
  BY UpdatedIs
<1> HIDE DEF g
<1>2. DOMAIN g = DOMAIN h
  BY <1>1
<1>3. Orderly(g) /\ Keeps(h, g)
  BY <1>1, <1>2 DEF Orderly, Keeps
<1>4. \A raw : Running(h, raw) => Running(g, raw)
  BY <1>1, <1>2 DEF Running
<1>5. InUse(h, canonical, d) => InUse(g, canonical, d)
  BY <1>1, <1>2, SMTT(20) DEF InUse
<1>6. (\A i \in DOMAIN h : h[i].id < ingests) => \A i \in DOMAIN g : g[i].id < ingests
  BY <1>1, <1>2
<1> QED
  BY <1>1, <1>3, <1>4, <1>5, <1>6 DEF g

-----------------------------------------------------------------------------
(* The steps *)

LEMMA FirstHistories == ASSUME AcquisitionInit PROVE AcquisitionInv
<1>1. PICK raw \in [Datasets -> RawFiles \cup {Missing}] :
          lake = [d \in Datasets |-> [raw |-> raw[d],
                                      canonical |-> raw[d], ready |-> raw[d] # Missing]]
  BY DEF AcquisitionInit
<1>2. /\ doing = [p \in Processes |-> AtRest] /\ histories = [d \in Datasets |-> <<>>]
      /\ ingests = 0 /\ overtaken = {} /\ unrecorded = {}
  BY DEF AcquisitionInit
<1>3. \A d \in Datasets : histories[d] = <<>> /\ DOMAIN histories[d] = {}
  BY <1>2
<1>4. HistoryType
  BY <1>1, <1>2 DEF HistoryType, Lakes
<1>5. \A p \in Processes : doing[p].pc = "idle" /\ Doing(p)
  BY <1>2 DEF Doing, AtRest
<1>6. BackendAt /\ ToolAt
  BY <1>5 DEF BackendAt, ToolAt, Processes
<1>7. \A d \in Datasets : Orderly(histories[d]) /\ InUse(histories[d], lake[d].canonical, d)
  BY <1>3 DEF Orderly, InUse
<1> QED
  BY <1>4, <1>5, <1>6, <1>7 DEF AcquisitionInv

(* A write keeps the lock: what another process has read is of another history. *)
LEMMA WriteFrame ==
    ASSUME AcquisitionInv, NEW p \in Processes, StoreWrite(p), NEW g \in Seq(Records),
           g = Changed(histories[doing[p].dataset], doing[p].change)
    PROVE  LET d == doing[p].dataset IN
           /\ d \in Datasets /\ histories[d] \in Seq(Records)
           /\ histories' = [histories EXCEPT ![d] = g]
           /\ \A q \in Processes : q # p => doing'[q] = doing[q]
           /\ HistoryType' /\ \A q \in Processes : Doing(q)'
<1> DEFINE d == doing[p].dataset
           job == p = "backend" /\ doing[p].change.kind = "add"
<1>1. /\ HistoryType /\ \A q \in Processes : Doing(q)
  BY DEF AcquisitionInv
<1>2. /\ doing[p].pc = "read" /\ d \in Datasets /\ doing[p].was = histories[d]
      /\ \A q \in Processes : doing[q].pc = "read" /\ doing[q].dataset = d => q = p
  BY <1>1 DEF StoreWrite, Doing
<1>3. /\ histories' = [histories EXCEPT ![d] = g]
      /\ histories \in [Datasets -> Seq(Records)]
  BY <1>1, <1>2 DEF StoreWrite, HistoryType
<1>4. /\ doing' = [doing EXCEPT ![p] = IF job THEN [doing[p] EXCEPT !.pc = "made", !.was = <<>>]
                                        ELSE AtRest]
      /\ DOMAIN doing = Processes
  BY <1>1 DEF StoreWrite, HistoryType
<1>5. \A q \in Processes : q # p => doing'[q] = doing[q]
  BY <1>4
<1>6. HistoryType'
  <2>1. overtaken' \subseteq Datasets /\ unrecorded' \subseteq Datasets
    BY <1>1, <1>2 DEF StoreWrite, HistoryType
  <2> QED
    BY <1>1, <1>2, <1>3, <1>4, <2>1 DEF StoreWrite, HistoryType
<1>7. ASSUME NEW q \in Processes PROVE Doing(q)'
  <2>1. CASE q = p /\ job
    <3>1. /\ doing'[q] = [doing[p] EXCEPT !.pc = "made", !.was = <<>>] /\ q = "backend"
      BY <1>4, <2>1
    <3> DEFINE m == doing[p]  c == m.change  k == m.pc  w == m.was
    <3>2. m = [pc |-> k, dataset |-> d, change |-> c, was |-> w]
      BY <1>1 DEF Doing
    <3>3. doing'[q] = [m EXCEPT !.pc = "made", !.was = <<>>]
      BY <3>1
    <3> HIDE DEF d, job, m, c, k, w
    <3>4. doing'[q] = [pc |-> "made", dataset |-> d, change |-> c, was |-> <<>>]
      BY <3>2, <3>3
    <3>5. /\ doing'[q].pc = "made" /\ doing'[q].dataset = d /\ doing'[q].change = c
          /\ doing'[q].was = <<>>
      BY <3>4
    <3>6. doing'[q] = [pc |-> doing'[q].pc, dataset |-> doing'[q].dataset,
                       change |-> doing'[q].change, was |-> doing'[q].was]
      BY <3>4, <3>5
    <3> QED
      BY <1>2, <3>1, <3>5, <3>6 DEF Doing
  <2>2. CASE q = p /\ ~job
    <3>1. doing'[q] = AtRest
      BY <1>4, <2>2
    <3> QED
      BY <3>1 DEF Doing, AtRest
  <2>3. CASE q # p
    <3>1. doing'[q] = doing[q] /\ (doing[q].pc = "read" => doing[q].dataset # d)
      BY <1>2, <1>5, <2>3
    <3>2. /\ doing[q].pc = "read" => histories'[doing[q].dataset] = histories[doing[q].dataset]
      BY <1>1, <1>3, <3>1 DEF Doing
    <3>3. doing'[p].pc # "read"
      BY <1>4, <1>2 DEF AtRest
    <3>4. \A o \in Processes : doing'[o].pc = "read" => o # p /\ doing'[o] = doing[o]
      BY <1>5, <3>3
    <3> QED
      BY <1>1, <3>1, <3>2, <3>4 DEF Doing
  <2> QED
    BY <2>1, <2>2, <2>3
<1> QED
  BY <1>1, <1>2, <1>3, <1>5, <1>6, <1>7 DEF HistoryType

LEMMA BackendWrites ==
    ASSUME AcquisitionInv, StoreWrite("backend")
    PROVE  AcquisitionInv' /\ \A e \in Datasets : Keeps(histories[e], histories'[e])
<1> DEFINE m == doing["backend"]  d == m.dataset  h == histories[d]
           c == m.change  t == doing["tool"]
           g == Changed(h, c)
<1>1. /\ HistoryType /\ Doing("backend") /\ BackendAt /\ ToolAt
      /\ \A e \in Datasets :
             /\ Orderly(histories[e])
             /\ e \notin overtaken => InUse(histories[e], lake[e].canonical, e)
  BY DEF AcquisitionInv, Processes
<1>2. /\ m.pc = "read" /\ d \in Datasets /\ h \in Seq(Records) /\ Orderly(h) /\ ingests \in Nat
      /\ overtaken' = overtaken /\ unrecorded' = unrecorded /\ ingests' = ingests /\ lake' = lake
      /\ doing' = [doing EXCEPT !["backend"] = IF c.kind = "add"
                                               THEN [m EXCEPT !.pc = "made", !.was = <<>>]
                                               ELSE AtRest]
      /\ DOMAIN doing = Processes
  BY <1>1 DEF StoreWrite, Doing, HistoryType
<1>3. \/ c \in Additions /\ c.kind = "add"
      \/ c \in Finishings /\ c.kind = "update"
  BY <1>1, <1>2 DEF BackendAt, Additions, Finishings
<1>4. /\ c.id = ingests /\ ingests > 0
      /\ c.kind = "add" => /\ c.fields.id = ingests /\ c.fields.status = "received"
                           /\ ~c.fields.active /\ c.fields.raw = lake[d].raw
                           /\ \A i \in DOMAIN h : h[i].id < ingests
      /\ c.kind = "update" => /\ Running(h, lake[d].raw)
                              /\ c.fields.status = "processed" => lake[d].canonical = lake[d].raw
  BY <1>1, <1>2 DEF BackendAt
<1>5. /\ g \in Seq(Records) /\ Orderly(g) /\ Keeps(h, g) /\ g # <<>>
      /\ (\A i \in DOMAIN h : h[i].id # -1) => \A i \in DOMAIN g : g[i].id # -1
      /\ InUse(h, lake[d].canonical, d) => InUse(g, lake[d].canonical, d)
      /\ c.kind = "add" => Running(g, lake[d].raw)
  <2>1. CASE c \in Additions /\ c.kind = "add"
    <3>1. g = Added(h, c.fields) /\ c.fields \in Records
      BY <2>1 DEF Changed, Additions
    <3> HIDE DEF g, h, c, d
    <3> QED
      BY <1>2, <1>4, <2>1, <3>1, IngestAdded
  <2>2. CASE c \in Finishings /\ c.kind = "update"
    <3>1. g = Updated(h, ingests, c.fields) /\ c.fields \in Endings
      BY <1>4, <2>2 DEF Changed, Finishings
    <3> HIDE DEF g, h, c, d
    <3> QED
      BY <1>2, <1>4, <2>2, <3>1, IngestFinished
  <2> QED
    BY <1>3, <2>1, <2>2
<1>6. /\ histories' = [histories EXCEPT ![d] = g]
      /\ doing'["tool"] = doing["tool"]
      /\ HistoryType' /\ \A q \in Processes : Doing(q)'
  BY <1>5, WriteFrame DEF Processes
<1>7. histories'[d] = g /\ \A e \in Datasets : e # d => histories'[e] = histories[e]
  BY <1>1, <1>2, <1>6 DEF HistoryType
<1> HIDE DEF g
<1>8. BackendAt'
  <2>1. CASE c.kind = "add"
    <3>1. doing'["backend"] = [m EXCEPT !.pc = "made", !.was = <<>>]
      BY <1>2, <2>1 DEF Processes
    <3>2. /\ doing'["backend"].pc = "made"
          /\ doing'["backend"].dataset = d /\ doing'["backend"].change = c
      BY <1>1, <3>1 DEF Doing
    <3> QED
      BY <1>2, <1>4, <1>5, <1>7, <2>1, <3>2 DEF BackendAt, Running
  <2>2. CASE c.kind = "update"
    <3>1. doing'["backend"].pc = "idle"
      BY <1>2, <2>2 DEF Processes, AtRest
    <3> QED
      BY <3>1 DEF BackendAt
  <2> QED
    BY <1>3, <2>1, <2>2
<1>9. ToolAt'
  <2>1. CASE t.pc = "idle" \/ t.change \in Reassessments
    BY <1>6, <2>1 DEF ToolAt
  <2>2. CASE t.pc # "idle" /\ t.change \notin Reassessments
    <3>1. \A i \in DOMAIN histories'[t.dataset] : histories'[t.dataset][i].id # -1
      BY <1>1, <1>5, <1>7, <2>2, <1>6 DEF ToolAt, AcquisitionInv, Doing, Processes
    <3>2. histories'[t.dataset] = <<>> => histories[t.dataset] = <<>>
      BY <1>1, <1>5, <1>7, <2>2 DEF AcquisitionInv, Doing, Processes
    <3> QED
      BY <1>1, <1>2, <1>6, <2>2, <3>1, <3>2 DEF ToolAt
  <2> QED
    BY <2>1, <2>2
<1>10. ASSUME NEW e \in Datasets
       PROVE  /\ Orderly(histories[e])'
              /\ e \notin overtaken' => InUse(histories'[e], lake'[e].canonical, e)
  <2>1. Orderly(histories[e])' <=> Orderly(histories'[e])
    BY <1>2 DEF Orderly
  <2>2. CASE e = d
    BY <1>1, <1>2, <1>5, <1>7, <2>1, <2>2
  <2>3. CASE e # d
    BY <1>1, <1>2, <1>7, <2>1, <2>3
  <2> QED
    BY <2>2, <2>3
<1>11. \A e \in Datasets : Keeps(histories[e], histories'[e])
  BY <1>5, <1>7 DEF Keeps
<1> QED
  BY <1>2, <1>6, <1>8, <1>9, <1>10, <1>11 DEF AcquisitionInv, InUse

LEMMA ToolWrites ==
    ASSUME AcquisitionInv, StoreWrite("tool")
    PROVE  AcquisitionInv' /\ \A e \in Datasets : Keeps(histories[e], histories'[e])
<1> DEFINE m == doing["tool"]  d == m.dataset  h == histories[d]
           c == m.change  b == doing["backend"]
           g == Changed(h, c)
<1>1. /\ HistoryType /\ Doing("tool") /\ Doing("backend") /\ BackendAt /\ ToolAt
      /\ \A e \in Datasets :
             /\ Orderly(histories[e])
             /\ e \notin overtaken => InUse(histories[e], lake[e].canonical, e)
  BY DEF AcquisitionInv, Processes
<1>2. /\ m.pc = "read" /\ d \in Datasets /\ h \in Seq(Records) /\ Orderly(h) /\ ingests \in Nat
      /\ overtaken' = (IF c.kind = "add" /\ h # <<>> THEN overtaken \cup {d} ELSE overtaken)
      /\ unrecorded' = unrecorded
      /\ ingests' = ingests /\ lake' = lake
      /\ doing' = [doing EXCEPT !["tool"] = AtRest] /\ DOMAIN doing = Processes
  BY <1>1 DEF StoreWrite, Doing, HistoryType
<1>3. \/ /\ c \in Additions /\ c.kind = "add" /\ c.fields.id = -1
         /\ \A i \in DOMAIN h : h[i].id # -1
         /\ c.fields.active <=> c.fields.status = "processed"
         /\ d \notin overtaken /\ h = <<>> => lake[d].canonical = c.fields.raw \/ d \in unrecorded
      \/ c \in Reassessments /\ c.kind = "update"
  BY <1>1, <1>2 DEF ToolAt, Additions, Reassessments
<1>4. /\ g \in Seq(Records) /\ Orderly(g) /\ Keeps(h, g)
      /\ \A raw : Running(h, raw) => Running(g, raw)
      /\ ingests > 0 /\ (\A i \in DOMAIN h : h[i].id < ingests) =>
             \A i \in DOMAIN g : g[i].id < ingests
      /\ d \notin overtaken' => InUse(g, lake[d].canonical, d)
  <2>1. CASE c.kind = "add"
    <3>1. g = Added(h, c.fields) /\ c.fields \in Records
      BY <1>3, <2>1 DEF Changed, Additions, Reassessments
    <3>2. /\ c.fields.id = -1 /\ \A i \in DOMAIN h : h[i].id # -1
          /\ c.fields.active <=> c.fields.status = "processed"
          /\ d \notin overtaken' =>
                 h = <<>> /\ (lake[d].canonical = c.fields.raw \/ d \in unrecorded)
      BY <1>2, <1>3, <2>1
    <3> HIDE DEF g, h, c, d
    <3> QED
      BY <1>2, <3>1, <3>2, MigrationAdded
  <2>2. CASE c.kind # "add"
    <3>1. g = Updated(h, c.id, c.fields) /\ c.fields \in Assessments /\ c.id \in Int
      BY <1>3, <2>2 DEF Changed, Reassessments
    <3>2. d \notin overtaken' => InUse(h, lake[d].canonical, d)
      BY <1>1, <1>2, <2>2
    <3> HIDE DEF g, h, c, d
    <3> QED
      BY <1>2, <3>1, <3>2, Reassessed
  <2> QED
    BY <2>1, <2>2
<1>5. /\ histories' = [histories EXCEPT ![d] = g]
      /\ doing'["backend"] = b
      /\ HistoryType' /\ \A q \in Processes : Doing(q)'
  BY <1>4, WriteFrame DEF Processes
<1>6. histories'[d] = g /\ \A e \in Datasets : e # d => histories'[e] = histories[e]
  BY <1>1, <1>2, <1>5 DEF HistoryType
<1> HIDE DEF g
<1>7. BackendAt'
  <2>1. CASE b.pc = "idle"
    BY <1>5, <2>1 DEF BackendAt
  <2>2. CASE b.pc # "idle"
    <3> DEFINE k == histories[b.dataset]
    <3>1. b.dataset \in Datasets
      BY <1>1, <2>2 DEF Doing
    <3>2. \A raw : Running(k, raw) => Running(histories'[b.dataset], raw)
      BY <1>4, <1>6, <3>1
    <3>3. (\A i \in DOMAIN k : k[i].id < ingests) /\ ingests > 0 =>
              \A i \in DOMAIN histories'[b.dataset] : histories'[b.dataset][i].id < ingests
      BY <1>4, <1>6, <3>1
    <3> DEFINE r == lake[b.dataset].raw  k2 == histories'[b.dataset]
               adding == b.pc \in {"change", "read"} /\ b.change.kind = "add"
               recorded == b.pc \in {"change", "read"} \/ b.change # Missing
    <3>4. /\ ingests > 0 /\ (recorded => b.change.id = ingests)
          /\ b.pc \in {"change", "read"} => b.change \in Additions \/ b.change \in Finishings
          /\ adding => /\ b.change.fields.id = ingests
                       /\ b.change.fields.status = "received" /\ ~b.change.fields.active
                       /\ b.change.fields.raw = r
                       /\ \A i \in DOMAIN k2 : k2[i].id < ingests
          /\ recorded /\ ~adding => Running(k2, r)
          /\ b.pc = "ending"
             \/ (~adding /\ b.pc # "made" /\ b.change.fields.status = "processed") =>
                 lake[b.dataset].canonical = r
      BY <1>1, <2>2, <3>2, <3>3 DEF BackendAt
    <3>5. Running(k2, r) => Running(histories[b.dataset], lake[b.dataset].raw)'
      BY <1>2, <1>5 DEF Running
    <3> QED
      BY <1>2, <1>5, <3>4, <3>5 DEF BackendAt, Running
  <2> QED
    BY <2>1, <2>2
<1>8. ToolAt'
  <2>1. doing'["tool"].pc = "idle"
    BY <1>2 DEF Processes, AtRest
  <2> QED
    BY <2>1 DEF ToolAt
<1>9. ASSUME NEW e \in Datasets
      PROVE  /\ Orderly(histories[e])'
             /\ e \notin overtaken' => InUse(histories'[e], lake'[e].canonical, e)
  <2>1. Orderly(histories[e])' <=> Orderly(histories'[e])
    BY <1>2 DEF Orderly
  <2>2. CASE e = d
    BY <1>2, <1>4, <1>6, <2>1, <2>2
  <2>3. CASE e # d
    BY <1>1, <1>2, <1>6, <2>1, <2>3
  <2> QED
    BY <2>2, <2>3
<1>11. \A e \in Datasets : Keeps(histories[e], histories'[e])
  BY <1>4, <1>6 DEF Keeps
<1> QED
  BY <1>2, <1>5, <1>7, <1>8, <1>9, <1>11 DEF AcquisitionInv, InUse

(* What a step that writes no history has to keep. *)
LEMMA NothingWritten ==
    ASSUME AcquisitionInv, HistoryType', histories' = histories, ingests' >= ingests,
           overtaken \subseteq overtaken', unrecorded' = unrecorded,
           \A d \in Datasets : lake'[d].canonical = lake[d].canonical,
           NEW p \in Processes, \A q \in Processes : q # p => doing'[q] = doing[q],
           doing'[p] = [pc |-> doing'[p].pc, dataset |-> doing'[p].dataset,
                        change |-> doing'[p].change, was |-> doing'[p].was],
           doing'[p].pc \in {"idle", "change"}
               \/ (p = "backend" /\ doing'[p].pc \in {"made", "ending"}),
           doing'[p].pc # "idle" => doing'[p].dataset \in Datasets,
           BackendAt', ToolAt'
    PROVE  AcquisitionInv'
<1>1. \A q \in Processes : Doing(q)'
  BY DEF AcquisitionInv, Doing
<1>2. ASSUME NEW d \in Datasets
      PROVE  /\ Orderly(histories[d])'
             /\ d \notin overtaken' => InUse(histories[d], lake[d].canonical, d)'
  <2>1. \A i \in DOMAIN histories[d] : histories[d][i].id \in Int
    BY RecordsOf DEF AcquisitionInv, HistoryType
  <2>2. Orderly(histories[d])'
    BY <2>1 DEF AcquisitionInv, HistoryType, Orderly
  <2> QED
    BY <2>2 DEF AcquisitionInv, InUse
<1> QED
  BY <1>1, <1>2 DEF AcquisitionInv

LEMMA Reads == ASSUME AcquisitionInv, NEW p \in Processes, StoreRead(p) PROVE AcquisitionInv'
<1> DEFINE m == doing[p]  d == m.dataset  k == m.pc  c == m.change  w == m.was
<1>1. HistoryType /\ (\A q \in Processes : Doing(q)) /\ BackendAt /\ ToolAt
  BY DEF AcquisitionInv
<1>2. /\ m.pc = "change" /\ d \in Datasets
      /\ \A q \in Processes : ~(doing[q].pc = "read" /\ doing[q].dataset = d)
      /\ UNCHANGED <<histories, lake, ingests, overtaken, unrecorded>>
  BY <1>1 DEF StoreRead, LockFree, Doing
<1>3. doing' = [doing EXCEPT ![p] = [m EXCEPT !.pc = "read", !.was = histories[d]]]
  BY <1>1 DEF StoreRead, HistoryType
<1>4. /\ doing'[p] = [m EXCEPT !.pc = "read", !.was = histories[d]]
      /\ \A q \in Processes : q # p => doing'[q] = doing[q]
      /\ DOMAIN doing' = Processes
  BY <1>1, <1>3 DEF HistoryType
<1>5. m = [pc |-> k, dataset |-> d, change |-> c, was |-> w]
  BY <1>1 DEF Doing
<1>6. doing'[p] = [pc |-> "read", dataset |-> d, change |-> c, was |-> histories[d]]
  <2> HIDE DEF m, d, k, c, w
  <2> QED
    BY <1>4, <1>5
<1>7. /\ doing'[p].pc = "read" /\ doing'[p].dataset = d /\ doing'[p].change = c
      /\ doing'[p].was = histories[d]
  BY <1>6
<1>8. \A q \in Processes : Doing(q)'
  <2> HIDE DEF m, d, k, c, w
  <2>1. Doing(p)'
    <3>1. doing'[p] = [pc |-> doing'[p].pc, dataset |-> doing'[p].dataset,
                       change |-> doing'[p].change, was |-> doing'[p].was]
      BY <1>6, <1>7
    <3>2. \A q \in Processes : doing'[q].pc = "read" /\ doing'[q].dataset = d => q = p
      BY <1>2, <1>4
    <3> QED
      BY <1>2, <1>7, <3>1, <3>2 DEF Doing
  <2>2. ASSUME NEW q \in Processes, q # p PROVE Doing(q)'
    <3>1. doing'[q] = doing[q] /\ Doing(q)
      BY <1>1, <1>4, <2>2
    <3>2. doing'[q].pc = "read" => doing'[q].dataset # d
      BY <1>2, <3>1
    <3>3. ASSUME doing'[q].pc = "read", NEW o \in Processes, doing'[o].pc = "read",
                 doing'[o].dataset = doing'[q].dataset
          PROVE  o = q
      <4>1. o # p /\ doing'[o] = doing[o]
        BY <1>4, <1>7, <3>2, <3>3
      <4> QED
        BY <3>1, <3>3, <4>1 DEF Doing
    <3> QED
      BY <1>2, <3>1, <3>3 DEF Doing
  <2> QED
    BY <2>1, <2>2
<1>9. HistoryType'
  BY <1>1, <1>2, <1>4 DEF HistoryType
<1>10. BackendAt'
  <2>1. /\ doing["backend"].pc # "idle" <=> doing'["backend"].pc # "idle"
        /\ doing["backend"].pc \in {"change", "read"}
              <=> doing'["backend"].pc \in {"change", "read"}
        /\ doing["backend"].pc = "made" <=> doing'["backend"].pc = "made"
        /\ doing["backend"].pc = "ending" <=> doing'["backend"].pc = "ending"
        /\ doing'["backend"].dataset = doing["backend"].dataset
        /\ doing'["backend"].change = doing["backend"].change
    BY <1>2, <1>4, <1>7 DEF Processes
  <2> QED
    BY <1>1, <1>2, <2>1 DEF BackendAt, Running
<1>11. ToolAt'
  <2>1. /\ doing["tool"].pc # "idle" <=> doing'["tool"].pc # "idle"
        /\ doing'["tool"].dataset = doing["tool"].dataset
        /\ doing'["tool"].change = doing["tool"].change
    BY <1>2, <1>4, <1>7 DEF Processes
  <2> QED
    BY <1>1, <1>2, <2>1 DEF ToolAt
<1>12. \A e \in Datasets :
           /\ Orderly(histories[e])'
           /\ (e \notin overtaken' => InUse(histories[e], lake[e].canonical, e)')
  BY <1>2 DEF AcquisitionInv, Orderly, InUse
<1> QED
  BY <1>8, <1>9, <1>10, <1>11, <1>12 DEF AcquisitionInv

(* A raw file that comes in leaves the canonicals what they were made of. *)
LEMMA RawIs ==
    ASSUME HistoryType, NEW d \in Datasets, NEW raw \in RawFiles
    PROVE  LET l == [lake EXCEPT ![d].raw = raw] IN
           /\ l \in [Datasets -> Lakes]
           /\ l[d].raw = raw
           /\ \A e \in Datasets : l[e].canonical = lake[e].canonical
<1> DEFINE here == [lake[d] EXCEPT !.raw = raw]
           l == [lake EXCEPT ![d] = here]
<1>1. lake \in [Datasets -> Lakes] /\ lake[d] \in Lakes
  BY DEF HistoryType
<1>2. here \in Lakes /\ here.raw = raw /\ here.canonical = lake[d].canonical
  BY <1>1 DEF Lakes
<1>3. [lake EXCEPT ![d].raw = raw] = l
  OBVIOUS
<1> HIDE DEF here
<1>4. /\ l \in [Datasets -> Lakes] /\ l[d] = here
      /\ \A e \in Datasets : e # d => l[e] = lake[e]
  BY <1>1, <1>2
<1> HIDE DEF l
<1> QED
  BY <1>2, <1>3, <1>4

(* So does a step that fails, which leaves the raw files alone, too. *)
LEMMA ReadyIs ==
    ASSUME HistoryType, NEW d \in Datasets, NEW ready \in BOOLEAN
    PROVE  LET l == [lake EXCEPT ![d].ready = ready] IN
           /\ l \in [Datasets -> Lakes]
           /\ \A e \in Datasets : l[e].canonical = lake[e].canonical /\ l[e].raw = lake[e].raw
<1> DEFINE here == [lake[d] EXCEPT !.ready = ready]
           l == [lake EXCEPT ![d] = here]
<1>1. lake \in [Datasets -> Lakes] /\ lake[d] \in Lakes
  BY DEF HistoryType
<1>2. here \in Lakes /\ here.raw = lake[d].raw /\ here.canonical = lake[d].canonical
  BY <1>1 DEF Lakes
<1>3. [lake EXCEPT ![d].ready = ready] = l
  OBVIOUS
<1> HIDE DEF here
<1>4. /\ l \in [Datasets -> Lakes] /\ l[d] = here
      /\ \A e \in Datasets : e # d => l[e] = lake[e]
  BY <1>1, <1>2
<1> HIDE DEF l
<1> QED
  BY <1>2, <1>3, <1>4

(* A raw file is kept: the record to be added is the newest, and of that file. *)
LEMMA Begins ==
    ASSUME AcquisitionInv, NEW d \in Datasets, NEW raw \in RawFiles, NEW record \in Records,
           IngestStarts, record.id = ingests', record.raw = raw, record.status = "received",
           ~record.active, Stored(d, raw, record)
    PROVE  AcquisitionInv'
<1>1. /\ HistoryType /\ ToolAt /\ ingests \in Nat /\ ingests' = ingests + 1
      /\ UNCHANGED <<histories, overtaken, unrecorded>>
      /\ \A i \in DOMAIN histories[d] : histories[d][i].id \in Int /\ histories[d][i].id <= ingests
  BY RecordsOf DEF AcquisitionInv, HistoryType, IngestStarts, Orderly
<1>2. /\ lake' = [lake EXCEPT ![d].raw = raw]
      /\ doing' = [doing EXCEPT !["backend"] =
                      [pc |-> "change", dataset |-> d, was |-> <<>>, change |-> Add(record)]]
  BY DEF Stored
<1>3. /\ lake'[d].raw = raw
      /\ \A e \in Datasets : lake'[e].canonical = lake[e].canonical
      /\ HistoryType'
  <2>4. /\ lake' \in [Datasets -> Lakes] /\ lake'[d].raw = raw
        /\ \A e \in Datasets : lake'[e].canonical = lake[e].canonical
    BY <1>1, <1>2, RawIs
  <2>5. DOMAIN doing' = Processes
    BY <1>1, <1>2 DEF HistoryType
  <2>7. /\ ingests' \in Nat /\ histories' \in [Datasets -> Seq(Records)]
        /\ overtaken' \subseteq Datasets /\ unrecorded' \subseteq Datasets
    BY <1>1 DEF HistoryType
  <2>8. HistoryType'
    BY <2>4, <2>5, <2>7 DEF HistoryType
  <2> QED
    BY <2>4, <2>8
<1>4. /\ doing'["backend"] = [pc |-> "change", dataset |-> d, was |-> <<>>, change |-> Add(record)]
      /\ doing'["tool"] = doing["tool"]
  BY <1>1, <1>2 DEF HistoryType, Processes
<1>5. /\ Add(record) \in Additions /\ Add(record).kind = "add" /\ Add(record).id = ingests'
      /\ Add(record).fields = record
  BY <1>1 DEF Add, Additions, Records
<1>6. BackendAt'
  BY <1>1, <1>3, <1>4, <1>5 DEF BackendAt
<1>7. doing["tool"].pc # "idle" => doing["tool"].dataset \in Datasets
  BY DEF AcquisitionInv, Doing, Processes
<1>8. ToolAt'
  BY <1>1, <1>3, <1>4, <1>7 DEF ToolAt
<1> QED
  BY <1>1, <1>3, <1>4, <1>6, <1>8, NothingWritten DEF Processes

LEMMA Batch ==
    ASSUME NEW r \in Records
    PROVE  LET b == [r EXCEPT !.files = <<>>, !.validity = "unknown"] IN
           /\ b \in Records
           /\ b.id = r.id /\ b.raw = r.raw /\ b.status = r.status /\ b.active = r.active
<1>1. <<>> \in FileLists /\ "unknown" \in Verdicts \cup {Missing}
  BY DEF FileLists, Verdicts
<1> QED
  BY <1>1 DEF Records

LEMMA RawComes ==
    ASSUME AcquisitionInv, NEW d \in Datasets, NEW raw \in Uploads[d],
           Ingest(d, raw) \/ Fetch(d, raw) \/ FetchBatch(d, raw)
    PROVE  AcquisitionInv'
<1> DEFINE new == NewRecord(d, raw)
           batch == [new EXCEPT !.files = <<>>, !.validity = "unknown"]
<1>1. raw \in RawFiles /\ IngestStarts
  BY DEF RawFiles, Ingest, Fetch, FetchBatch
<1>2. HistoryType /\ BackendAt /\ ToolAt /\ ingests \in Nat /\ ingests' = ingests + 1
  BY <1>1 DEF AcquisitionInv, HistoryType, IngestStarts
<1>3. /\ new \in Records
      /\ new.id = ingests' /\ new.raw = raw /\ new.status = "received" /\ new.active = FALSE
  <2>1. ingests' \in Int
    BY <1>2
  <2>2. new = Record(ingests', d, raw, "told", "received", FALSE, AllActive)
    BY DEF NewRecord
  <2> HIDE DEF new
  <2> DEFINE n == ingests'  u == AllActive  f == FALSE
  <2>3. new = Record(n, d, raw, "told", "received", f, u) /\ n \in Int /\ f \in BOOLEAN
    BY <2>1, <2>2
  <2> HIDE DEF n, u, f
  <2>4. new \in Records /\ new.id = n /\ new.raw = raw /\ new.status = "received" /\ new.active = f
    BY <1>1, <2>3, RecordIs
  <2> QED
    BY <2>4 DEF n, f
<1>4. CASE Stored(d, raw, new)
  <2> HIDE DEF new
  <2> QED
    BY <1>1, <1>3, <1>4, Begins
<1>5. CASE Stored(d, raw, batch)
  <2> HIDE DEF new
  <2>1. /\ batch \in Records
        /\ batch.id = ingests' /\ batch.raw = raw /\ batch.status = "received"
        /\ batch.active = FALSE
    BY <1>3, Batch
  <2> HIDE DEF batch
  <2> QED
    BY <1>1, <1>5, <2>1, Begins
<1>6. ASSUME doing' = doing, lake' = lake \/ lake' = [lake EXCEPT ![d].raw = raw]
      PROVE  AcquisitionInv'
  <2>1. /\ lake' \in [Datasets -> Lakes]
        /\ \A e \in Datasets : lake'[e].canonical = lake[e].canonical
    <3>1. CASE lake' = lake
      BY <1>2, <3>1 DEF HistoryType
    <3>2. CASE lake' = [lake EXCEPT ![d].raw = raw]
      BY <1>1, <1>2, <3>2, RawIs
    <3> QED
      BY <1>6, <3>1, <3>2
  <2>2. UNCHANGED <<histories, overtaken, unrecorded>> /\ doing["backend"].pc = "idle"
    BY <1>1 DEF IngestStarts
  <2>3. HistoryType'
    BY <1>2, <1>6, <2>1, <2>2 DEF HistoryType
  <2>4. BackendAt'
    BY <1>6, <2>2 DEF BackendAt
  <2>5. ToolAt'
    BY <1>2, <1>6, <2>1, <2>2 DEF ToolAt, AcquisitionInv, Doing, Processes
  <2>6. /\ doing'["tool"] = [pc |-> doing'["tool"].pc, dataset |-> doing'["tool"].dataset,
                             change |-> doing'["tool"].change, was |-> doing'["tool"].was]
    BY <1>6 DEF AcquisitionInv, Doing, Processes
  <2>7. \A q \in Processes : Doing(q)'
    BY <1>6, <2>2 DEF AcquisitionInv, Doing
  <2>8. ASSUME NEW e \in Datasets
        PROVE  /\ Orderly(histories[e])'
               /\ e \notin overtaken' => InUse(histories[e], lake[e].canonical, e)'
    <3>1. \A i \in DOMAIN histories[e] : histories[e][i].id \in Int
      BY RecordsOf DEF AcquisitionInv, HistoryType
    <3> QED
      BY <1>2, <2>1, <2>2, <3>1 DEF AcquisitionInv, Orderly, InUse
  <2> QED
    BY <2>3, <2>4, <2>5, <2>7, <2>8 DEF AcquisitionInv
<1> HIDE DEF new, batch
<1> QED
  BY <1>4, <1>5, <1>6 DEF Ingest, Fetch, FetchBatch, StoreDownloaded, new, batch

(* The canonical is replaced by what the running ingest brought, whose record is there. *)
LEMMA Replaces == ASSUME AcquisitionInv, CanonicalReplaced PROVE AcquisitionInv'
<1> DEFINE m == doing["backend"]  d == m.dataset  c == m.change  w == m.was  t == doing["tool"]
           here == [lake[d] EXCEPT !.canonical = lake[d].raw, !.ready = TRUE]
<1>1. /\ HistoryType /\ Doing("backend") /\ Doing("tool") /\ BackendAt /\ ToolAt
  BY DEF AcquisitionInv, Processes
<1>2. /\ m.pc = "made" /\ d \in Datasets /\ UNCHANGED <<histories, ingests, overtaken>>
      /\ unrecorded' = (IF c = Missing THEN unrecorded \cup {d} ELSE unrecorded \ {d})
      /\ m = [pc |-> "made", dataset |-> d, change |-> c, was |-> w]
      /\ doing' = [doing EXCEPT !["backend"].pc = "ending"]
      /\ lake' = [lake EXCEPT ![d].canonical = lake[d].raw, ![d].ready = TRUE]
  BY <1>1 DEF CanonicalReplaced, Doing
<1>3. lake' = [lake EXCEPT ![d] = here] /\ lake \in [Datasets -> Lakes] /\ lake[d] \in Lakes
  BY <1>1, <1>2 DEF HistoryType
<1>4. here \in Lakes /\ here.raw = lake[d].raw /\ here.canonical = lake[d].raw
  BY <1>3 DEF Lakes
<1> HIDE DEF here
<1>5. /\ lake' \in [Datasets -> Lakes] /\ lake'[d].raw = lake[d].raw
      /\ lake'[d].canonical = lake[d].raw /\ \A e \in Datasets : e # d => lake'[e] = lake[e]
  BY <1>2, <1>3, <1>4
<1>6. /\ doing'["backend"] = [m EXCEPT !.pc = "ending"] /\ doing'["tool"] = t
      /\ DOMAIN doing' = Processes
  BY <1>1, <1>2 DEF HistoryType, Processes
<1>7. doing'["backend"] = [pc |-> "ending", dataset |-> d, change |-> c, was |-> w]
  <2> HIDE DEF m, d, c, w
  <2> QED
    BY <1>2, <1>6
<1>8. HistoryType'
  BY <1>1, <1>2, <1>5, <1>6 DEF HistoryType
<1>9. /\ ingests > 0
      /\ c # Missing => Running(histories[d], lake[d].raw) /\ c.id = ingests
  BY <1>1, <1>2 DEF BackendAt
<1>10. BackendAt'
  <2>1. /\ doing'["backend"].pc = "ending" /\ doing'["backend"].dataset = d
        /\ doing'["backend"].change = c
    BY <1>7
  <2> HIDE DEF m, d, c, w, t
  <2> QED
    BY <1>2, <1>5, <1>9, <2>1, SMTT(20) DEF BackendAt, Running
<1>11. ToolAt'
  <2>1. CASE t.pc = "idle" \/ t.change \in Reassessments
    BY <1>6, <2>1 DEF ToolAt
  <2>2. CASE t.pc # "idle" /\ t.change \notin Reassessments
    <3>1. c # Missing => histories[d] # <<>>
      BY <1>9 DEF Running
    <3>2. /\ t.dataset \in Datasets
          /\ histories[t.dataset] = <<>> =>
                 \/ t.dataset \in unrecorded'
                 \/ /\ lake'[t.dataset] = lake[t.dataset]
                    /\ t.dataset \in unrecorded <=> t.dataset \in unrecorded'
      BY <1>1, <1>2, <1>5, <2>2, <3>1 DEF Doing
    <3> DEFINE k == histories[t.dataset]  c2 == lake[t.dataset].canonical
    <3>3. /\ t.change \in Additions /\ t.change.fields.id = -1
          /\ \A i \in DOMAIN k : k[i].id # -1
          /\ t.change.fields.status \in {"processed", "received"}
          /\ t.change.fields.active <=> t.change.fields.status = "processed"
          /\ t.dataset \notin overtaken /\ k = <<>> =>
                 c2 = t.change.fields.raw \/ t.dataset \in unrecorded
      BY <1>1, <2>2 DEF ToolAt
    <3>4. k = <<>> => \/ t.dataset \in unrecorded'
                      \/ /\ lake'[t.dataset].canonical = c2
                         /\ t.dataset \in unrecorded <=> t.dataset \in unrecorded'
      BY <3>2
    <3> QED
      BY <1>2, <1>6, <2>2, <3>3, <3>4 DEF ToolAt
  <2> QED
    BY <2>1, <2>2
<1>12. \A q \in Processes : Doing(q)'
  <2>1. Doing("tool")'
    BY <1>1, <1>2, <1>6, <1>7 DEF Doing, Processes
  <2>2. Doing("backend")'
    BY <1>2, <1>7 DEF Doing
  <2> QED
    BY <2>1, <2>2 DEF Processes
<1>13. ASSUME NEW e \in Datasets
       PROVE  /\ Orderly(histories[e])'
              /\ (e \notin overtaken' => InUse(histories[e], lake[e].canonical, e)')
  <2>1. Orderly(histories[e]) /\ (e \notin overtaken => InUse(histories[e], lake[e].canonical, e))
    BY DEF AcquisitionInv
  <2>2. Orderly(histories[e])'
    BY <1>2, <2>1 DEF Orderly
  <2>3. CASE e = d
    <3> DEFINE c2 == lake'[e].canonical  h == histories[e]
    <3>1. /\ InUse(h, lake[e].canonical, e) \/ e \in overtaken
          /\ \/ e \in unrecorded'
             \/ \E j \in DOMAIN h : h[j].raw = c2 /\ h[j].status \in {"failed", "received"}
      <4>1. CASE c = Missing
        BY <1>2, <2>1, <2>3, <4>1
      <4>2. CASE c # Missing
        <5>1. Running(h, c2)
          BY <1>5, <1>9, <2>3, <4>2
        <5>2. \E j \in DOMAIN h : h[j].raw = c2 /\ h[j].status = "received"
          BY <5>1 DEF Running
        <5> HIDE DEF c2
        <5> QED
          BY <2>1, <5>2
      <4> QED
        BY <4>1, <4>2
    <3>2. e \notin overtaken /\ (\E i \in DOMAIN h : h[i].status = "processed") =>
              \E n \in DOMAIN h :
                  /\ h[n].status = "processed" /\ h[n].active
                  /\ \A i \in DOMAIN h : h[i].status = "processed" => h[i].id <= h[n].id
                  /\ \/ c2 = h[n].raw
                     \/ \E i \in DOMAIN h :
                            h[i].raw = c2 /\ h[i].status \in {"failed", "received"}
                     \/ e \in unrecorded'
      <4> HIDE DEF c2
      <4> QED
        BY <3>1 DEF InUse
    <3> QED
      BY <1>2, <2>2, <3>2 DEF InUse
  <2>4. CASE e # d
    BY <1>2, <1>5, <2>1, <2>2, <2>4 DEF InUse
  <2> QED
    BY <2>3, <2>4
<1> QED
  BY <1>8, <1>10, <1>11, <1>12, <1>13 DEF AcquisitionInv

LEMMA Ends == ASSUME AcquisitionInv, NEW ok \in BOOLEAN, IngestEnds(ok) PROVE AcquisitionInv'
<1> DEFINE m == doing["backend"]  d == m.dataset  w == m.was  t == doing["tool"]  k == m.pc
           new == Update(m.change.id, Finalized(ok))
<1>1. /\ HistoryType /\ Doing("backend") /\ Doing("tool") /\ BackendAt /\ ToolAt
  BY DEF AcquisitionInv, Processes
<1>2. /\ m.pc \in {"made", "ending"} /\ (ok => m.pc = "ending") /\ d \in Datasets
      /\ UNCHANGED <<histories, ingests, overtaken, unrecorded>>
      /\ m = [pc |-> k, dataset |-> d, change |-> m.change, was |-> w]
      /\ doing' = IF m.change = Missing THEN [doing EXCEPT !["backend"] = AtRest]
                  ELSE [doing EXCEPT !["backend"].pc = "change", !["backend"].change = new]
      /\ lake' = IF m.pc = "made" THEN [lake EXCEPT ![d].ready = FALSE] ELSE lake
  BY <1>1 DEF IngestEnds, Doing
<1>3. /\ lake' \in [Datasets -> Lakes]
      /\ \A e \in Datasets : lake'[e].canonical = lake[e].canonical /\ lake'[e].raw = lake[e].raw
  <2>1. CASE m.pc = "made"
    <3> DEFINE f == FALSE
    <3>1. f \in BOOLEAN /\ lake' = [lake EXCEPT ![d].ready = f]
      BY <1>2, <2>1
    <3> HIDE DEF f
    <3> QED
      BY <1>1, <1>2, <3>1, ReadyIs
  <2>2. CASE m.pc # "made"
    BY <1>1, <1>2, <2>2 DEF HistoryType
  <2> QED
    BY <2>1, <2>2
<1>4. /\ doing'["backend"] = IF m.change = Missing THEN AtRest
                               ELSE [m EXCEPT !.pc = "change", !.change = new]
      /\ doing'["tool"] = t /\ DOMAIN doing' = Processes
  BY <1>1, <1>2 DEF HistoryType, Processes
<1>5. m.change # Missing =>
          doing'["backend"] = [pc |-> "change", dataset |-> d, change |-> new, was |-> w]
  <2> DEFINE c == m.change
  <2>1. m = [pc |-> k, dataset |-> d, change |-> c, was |-> w]
    BY <1>2
  <2> HIDE DEF m, d, c, w, k, new
  <2> QED
    BY <1>4, <2>1
<1>6. /\ ingests > 0 /\ ingests \in Nat
      /\ m.change # Missing => m.change.id = ingests /\ Running(histories[d], lake[d].raw)
      /\ ok => lake[d].canonical = lake[d].raw
  BY <1>1, <1>2 DEF BackendAt, HistoryType
<1>7. m.change # Missing =>
      /\ new \in Finishings /\ new.id = ingests /\ new.kind = "update"
      /\ new.fields.status = "processed" => ok
  BY <1>6 DEF Update, Finalized, Finishings, Endings
<1>8. HistoryType'
  BY <1>1, <1>2, <1>3, <1>4 DEF HistoryType
<1> HIDE DEF new
<1>9. BackendAt'
  <2>1. CASE m.change = Missing
    <3>1. doing'["backend"] = AtRest
      BY <1>4, <2>1
    <3> QED
      BY <3>1 DEF BackendAt, AtRest
  <2>2. CASE m.change # Missing
    <3>1. /\ doing'["backend"].pc = "change" /\ doing'["backend"].dataset = d
          /\ doing'["backend"].change = new
      BY <1>5, <2>2
    <3>2. /\ new \in Finishings /\ new.id = ingests /\ new.kind = "update"
          /\ new.fields.status = "processed" => ok
          /\ Running(histories[d], lake[d].raw)
      BY <1>6, <1>7, <2>2
    <3> HIDE DEF m, d, w, t, k
    <3> QED
      BY <1>2, <1>3, <1>6, <3>1, <3>2, ZenonT(40) DEF BackendAt, Running
  <2> QED
    BY <2>1, <2>2
<1>10. ToolAt'
  <2>1. t.pc # "idle" =>
            t.dataset \in Datasets /\ lake'[t.dataset].canonical = lake[t.dataset].canonical
    BY <1>1, <1>3 DEF Doing
  <2>2. doing'["tool"] = t /\ UNCHANGED <<histories, overtaken, unrecorded>>
    BY <1>2, <1>4
  <2>3. CASE t.pc = "idle"
    BY <2>2, <2>3 DEF ToolAt
  <2>4. CASE t.pc # "idle"
    BY <1>1, <2>1, <2>2, <2>4 DEF ToolAt
  <2> QED
    BY <2>3, <2>4
<1>11. /\ doing'["backend"] = [pc |-> doing'["backend"].pc, dataset |-> doing'["backend"].dataset,
                                change |-> doing'["backend"].change,
                                was |-> doing'["backend"].was]
       /\ doing'["backend"].pc \in {"idle", "change"}
       /\ doing'["backend"].pc # "idle" => doing'["backend"].dataset = d
  <2>1. CASE m.change = Missing
    BY <1>4, <2>1 DEF AtRest
  <2>2. CASE m.change # Missing
    BY <1>5, <2>2
  <2> QED
    BY <2>1, <2>2
<1> QED
  BY <1>2, <1>3, <1>4, <1>8, <1>9, <1>10, <1>11, NothingWritten, <1>1 DEF Processes, HistoryType

(* A record that cannot be written is not there, and nothing else is lost. *)
LEMMA RecordsFail ==
    ASSUME AcquisitionInv, RecordFails \/ UpdateFails PROVE AcquisitionInv'
<1> DEFINE m == doing["backend"]  d == m.dataset
           gone == [pc |-> "made", dataset |-> d, was |-> <<>>, change |-> Missing]
<1>1. /\ HistoryType /\ Doing("backend") /\ Doing("tool") /\ BackendAt /\ ToolAt
  BY DEF AcquisitionInv, Processes
<1>2. /\ UNCHANGED <<histories, lake, ingests, overtaken, unrecorded>>
      /\ m.pc \in {"change", "read"} /\ d \in Datasets /\ ingests > 0
      /\ \/ doing' = [doing EXCEPT !["backend"] = gone]
         \/ doing' = [doing EXCEPT !["backend"] = AtRest]
  BY <1>1 DEF RecordFails, UpdateFails, Doing, BackendAt
<1>3. /\ doing'["backend"] = gone \/ doing'["backend"] = AtRest
      /\ doing'["tool"] = doing["tool"] /\ DOMAIN doing' = Processes
  BY <1>1, <1>2 DEF HistoryType, Processes
<1>4. HistoryType'
  BY <1>1, <1>2, <1>3 DEF HistoryType
<1>5. BackendAt'
  BY <1>2, <1>3 DEF BackendAt, AtRest
<1>6. ToolAt'
  BY <1>1, <1>2, <1>3 DEF ToolAt
<1> QED
  BY <1>1, <1>2, <1>3, <1>4, <1>5, <1>6, NothingWritten DEF Processes, HistoryType, AtRest

(* The one record of an old dataset, and a verdict, are made without the lock. *)
LEMMA ToolLooks ==
    ASSUME AcquisitionInv, NEW d \in Datasets,
           (\E method \in {"told", "legacy_unknown"} : Migrate(d, method)) \/ Reverify(d)
    PROVE  AcquisitionInv'
<1>1. /\ HistoryType /\ Doing("backend") /\ BackendAt
      /\ histories[d] \in Seq(Records) /\ lake[d] \in Lakes
  BY DEF AcquisitionInv, Processes, HistoryType
<1>2. /\ UNCHANGED <<histories, lake, ingests, unrecorded>> /\ overtaken \subseteq overtaken'
      /\ overtaken' \subseteq Datasets
  BY <1>1 DEF Migrate, Reverify, HistoryType
<1>3. ASSUME NEW c, doing' = [doing EXCEPT !["tool"] =
                                 [pc |-> "change", dataset |-> d, was |-> <<>>, change |-> c]],
             \/ /\ c \in Additions /\ c.fields.id = -1 /\ histories[d] = <<>>
                /\ c.fields.status \in {"processed", "received"}
                /\ c.fields.active <=> c.fields.status = "processed"
                /\ d \notin overtaken' => lake[d].canonical = c.fields.raw
             \/ c \in Reassessments
      PROVE  AcquisitionInv'
  <2>1. /\ doing'["tool"] = [pc |-> "change", dataset |-> d, was |-> <<>>, change |-> c]
        /\ doing'["backend"] = doing["backend"] /\ DOMAIN doing' = Processes
    BY <1>1, <1>3 DEF HistoryType, Processes
  <2>2. HistoryType'
    BY <1>1, <1>2, <2>1 DEF HistoryType
  <2>3. BackendAt'
    BY <1>1, <1>2, <2>1 DEF BackendAt, Running
  <2>4. ToolAt'
    BY <1>2, <1>3, <2>1 DEF ToolAt
  <2> QED
    BY <1>1, <1>2, <2>1, <2>2, <2>3, <2>4, NothingWritten DEF Processes, HistoryType
<1>4. ASSUME NEW method \in {"told", "legacy_unknown"}, Migrate(d, method) PROVE AcquisitionInv'
  <2> DEFINE raw == lake[d].raw  ready == lake[d].ready  u == AllActive  n == -1
             status == IF ready THEN "processed" ELSE "received"
             record == Record(n, d, raw, method, status, ready, u)
             c == Add(record)
  <2>1. /\ raw \in RawFiles /\ ready \in BOOLEAN /\ n \in Int
        /\ status \in {"received", "processed", "failed"}
    BY <1>1, <1>4 DEF Migrate, Lakes
  <2>2. /\ histories[d] = <<>>
        /\ doing' = [doing EXCEPT !["tool"] =
                         [pc |-> "change", dataset |-> d, was |-> <<>>, change |-> c]]
        /\ d \notin overtaken' => lake[d].canonical = raw
    BY <1>4 DEF Migrate
  <2>3. status \in {"processed", "received"} /\ (ready <=> status = "processed")
    OBVIOUS
  <2> HIDE DEF raw, ready, u, n, status, record, c
  <2>4. /\ record \in Records /\ record.id = n /\ record.raw = raw /\ record.status = status
        /\ record.active = ready
    BY <2>1, RecordIs DEF record
  <2>5. c \in Additions /\ c.fields = record
    BY <2>1, <2>4 DEF c, Add, Additions, Records
  <2> QED
    BY <1>3, <2>2, <2>3, <2>4, <2>5 DEF n
<1>5. ASSUME Reverify(d) PROVE AcquisitionInv'
  <2>1. PICK r \in ToSet(histories[d]) :
            LET validity == Assess(Definitions[d], r, peers) IN
            doing' = [doing EXCEPT !["tool"] =
                         [pc |-> "change", dataset |-> d, was |-> <<>>,
                          change |-> Update(r.id, [validity |-> validity])]]
    BY <1>5 DEF Reverify
  <2> DEFINE validity == Assess(Definitions[d], r, peers)
             c == Update(r.id, [validity |-> validity])
  <2>2. validity \in Verdicts /\ r.id \in Int
    BY <1>1, VerdictOf, RecordsOf DEF ToSet
  <2> HIDE DEF validity
  <2>3. c \in Reassessments
    BY <2>2 DEF Update, Reassessments, Assessments
  <2> HIDE DEF c
  <2>4. doing' = [doing EXCEPT !["tool"] =
                     [pc |-> "change", dataset |-> d, was |-> <<>>, change |-> c]]
    BY <2>1 DEF c, validity
  <2> QED
    BY <1>3, <2>3, <2>4
<1> QED
  BY <1>4, <1>5

LEMMA IsKilled == ASSUME AcquisitionInv, NEW p \in Processes, KillProcess(p) PROVE AcquisitionInv'
<1>1. /\ HistoryType /\ (\A q \in Processes : Doing(q)) /\ BackendAt /\ ToolAt
      /\ UNCHANGED <<histories, ingests, overtaken, unrecorded>>
      /\ doing' = [doing EXCEPT ![p] = AtRest]
  BY DEF AcquisitionInv, KillProcess
<1>2. /\ lake' \in [Datasets -> Lakes]
      /\ \A e \in Datasets : lake'[e].canonical = lake[e].canonical /\ lake'[e].raw = lake[e].raw
  <2>1. CASE p = "backend" /\ doing[p].pc = "made"
    <3> DEFINE f == FALSE  d == doing[p].dataset
    <3>1. f \in BOOLEAN /\ d \in Datasets /\ lake' = [lake EXCEPT ![d].ready = f]
      BY <1>1, <2>1 DEF KillProcess, Doing
    <3> HIDE DEF f, d
    <3> QED
      BY <1>1, <3>1, ReadyIs
  <2>2. CASE ~(p = "backend" /\ doing[p].pc = "made")
    BY <1>1, <2>2 DEF KillProcess, HistoryType
  <2> QED
    BY <2>1, <2>2
<1>3. /\ doing'[p] = AtRest /\ DOMAIN doing' = Processes
      /\ \A q \in Processes : q # p => doing'[q] = doing[q]
  BY <1>1 DEF HistoryType
<1>4. HistoryType'
  BY <1>1, <1>2, <1>3 DEF HistoryType
<1>5. BackendAt'
  <2>1. CASE p = "backend"
    BY <1>3, <2>1 DEF BackendAt, AtRest
  <2>2. CASE p # "backend"
    BY <1>1, <1>2, <1>3, <2>2 DEF BackendAt, Running, Doing, Processes
  <2> QED
    BY <2>1, <2>2
<1>6. ToolAt'
  <2>1. CASE p = "tool"
    BY <1>3, <2>1 DEF ToolAt, AtRest
  <2>2. CASE p # "tool"
    BY <1>1, <1>2, <1>3, <2>2 DEF ToolAt, Doing, Processes
  <2> QED
    BY <2>1, <2>2
<1> QED
  BY <1>1, <1>2, <1>3, <1>4, <1>5, <1>6, NothingWritten DEF AtRest, HistoryType

LEMMA OtherSteps ==
    ASSUME AcquisitionInv, ReverifyStarts \/ UNCHANGED acquisitionVars PROVE AcquisitionInv'
<1>1. UNCHANGED <<histories, lake, doing, ingests, overtaken, unrecorded>>
  BY DEF ReverifyStarts, acquisitionVars
<1>2. HistoryType'
  BY <1>1 DEF AcquisitionInv, HistoryType
<1>3. \A p \in Processes : Doing(p)'
  BY <1>1 DEF AcquisitionInv, Doing
<1>4. BackendAt' /\ ToolAt'
  BY <1>1 DEF AcquisitionInv, BackendAt, ToolAt, Running
<1>5. \A d \in Datasets :
          /\ Orderly(histories[d])'
          /\ d \notin overtaken' => InUse(histories[d], lake[d].canonical, d)'
  BY <1>1 DEF AcquisitionInv, Orderly, InUse
<1> QED
  BY <1>2, <1>3, <1>4, <1>5 DEF AcquisitionInv

LEMMA AcquisitionStep ==
    ASSUME AcquisitionInv, [AcquisitionNext]_acquisitionVars PROVE AcquisitionInv'
<1>1. ASSUME NEW p \in Processes, StoreWrite(p) PROVE AcquisitionInv'
  BY <1>1, BackendWrites, ToolWrites DEF Processes
<1> QED
  BY <1>1, Reads, IsKilled, RawComes, Replaces, Ends, RecordsFail, ToolLooks, OtherSteps
  DEF AcquisitionNext

LEMMA InvShowsActive == ASSUME AcquisitionInv PROVE ActiveMadeCanonical
<1> SUFFICES ASSUME NEW d \in Datasets
             PROVE  /\ Cardinality(ActiveOf(histories[d])) <= 1
                    /\ Processed(d) # {} /\ d \notin overtaken =>
                           LET r == NewestProcessed(d) IN
                           /\ r.active
                           /\ lake[d].canonical # r.raw =>
                                  \/ d \in unrecorded
                                  \/ \E q \in ToSet(histories[d]) :
                                         /\ q.raw = lake[d].canonical
                                         /\ q.status \in {"failed", "received"}
  BY DEF ActiveMadeCanonical
<1> DEFINE h == histories[d]
<1>1. /\ h \in Seq(Records) /\ Orderly(h)
      /\ d \notin overtaken => InUse(h, lake[d].canonical, d)
      /\ \A i \in DOMAIN h : h[i].id \in Int
  BY RecordsOf DEF AcquisitionInv, HistoryType
<1>2. Cardinality(ActiveOf(h)) <= 1
  <2>1. CASE ActiveOf(h) = {}
    BY <2>1, FS_EmptySet
  <2>2. CASE ActiveOf(h) # {}
    <3>1. PICK i \in DOMAIN h : h[i].active
      BY <2>2 DEF ActiveOf, ToSet
    <3>2. ActiveOf(h) = {h[i]}
      BY <1>1, <3>1 DEF ActiveOf, ToSet, Orderly
    <3> QED
      BY <3>2, FS_Singleton
  <2> QED
    BY <2>1, <2>2
<1>3. ASSUME Processed(d) # {}, d \notin overtaken
      PROVE  LET r == NewestProcessed(d) IN
             /\ r.active
             /\ lake[d].canonical # r.raw =>
                    \/ d \in unrecorded
                    \/ \E q \in ToSet(h) : /\ q.raw = lake[d].canonical
                                         /\ q.status \in {"failed", "received"}
  <2>1. \E i \in DOMAIN h : h[i].status = "processed"
    BY <1>3 DEF Processed, ToSet
  <2>2. PICK n \in DOMAIN h :
            /\ h[n].status = "processed" /\ h[n].active
            /\ \A i \in DOMAIN h : h[i].status = "processed" => h[i].id <= h[n].id
            /\ \/ lake[d].canonical = h[n].raw
               \/ \E i \in DOMAIN h : /\ h[i].raw = lake[d].canonical
                                      /\ h[i].status \in {"failed", "received"}
               \/ d \in unrecorded
    BY <1>1, <1>3, <2>1 DEF InUse
  <2>3. h[n] \in Processed(d) /\ \A q \in Processed(d) : q.id <= h[n].id
    BY <2>2 DEF Processed, ToSet
  <2>4. /\ NewestProcessed(d) \in Processed(d)
        /\ \A q \in Processed(d) : q.id <= NewestProcessed(d).id
    BY <2>3 DEF NewestProcessed
  <2>5. PICK i \in DOMAIN h : NewestProcessed(d) = h[i] /\ h[i].status = "processed"
    BY <2>4 DEF Processed, ToSet
  <2>6. h[i].id <= h[n].id /\ h[n].id <= h[i].id
    BY <2>2, <2>3, <2>4, <2>5
  <2>7. NewestProcessed(d) = h[n]
    BY <1>1, <2>5, <2>6 DEF Orderly
  <2> QED
    BY <2>2, <2>7 DEF ToSet
<1> QED
  BY <1>2, <1>3

\* However many datasets, files, ingests and kills there are, a dataset has one acquisition in use,
\* the newest that was made into a canonical, and its canonical is of that file, or of an ingest
\* that did not end well or whose record could not be written.
THEOREM HistoriesNameTheCanonical == AcquisitionSpec => []ActiveMadeCanonical
<1>1. AcquisitionInit => AcquisitionInv
  BY FirstHistories
<1>2. AcquisitionInv /\ [AcquisitionNext]_acquisitionVars => AcquisitionInv'
  BY AcquisitionStep
<1>3. AcquisitionInv => ActiveMadeCanonical
  BY InvShowsActive
<1> QED
  BY <1>1, <1>2, <1>3, PTL DEF AcquisitionSpec

LEMMA HistoriesKept ==
    ASSUME AcquisitionInv, [AcquisitionNext]_acquisitionVars
    PROVE  \A d \in Datasets : Keeps(histories[d], histories'[d])
<1>1. ASSUME NEW p \in Processes, StoreWrite(p)
      PROVE  \A d \in Datasets : Keeps(histories[d], histories'[d])
  BY <1>1, BackendWrites, ToolWrites DEF Processes
<1>2. CASE \A p \in Processes : ~StoreWrite(p)
  <2>1. histories' = histories
    BY <1>2 DEF AcquisitionNext, acquisitionVars, StoreRead, KillProcess, Ingest, Fetch, FetchBatch,
                IngestStarts, RecordFails, CanonicalReplaced, IngestEnds, UpdateFails, Migrate,
                ReverifyStarts, Reverify
  <2> QED
    BY <2>1 DEF Keeps
<1> QED
  BY <1>1, <1>2

\* The two processes never undo each other: what a history says was acquired, and how it ended, it
\* says from then on.
THEOREM HistoriesOnlyGrow == AcquisitionSpec => HistoryOnlyGrows
<1>1. AcquisitionInit => AcquisitionInv
  BY FirstHistories
<1>2. AcquisitionInv /\ [AcquisitionNext]_acquisitionVars => AcquisitionInv'
  BY AcquisitionStep
<1>3. AcquisitionInv /\ [AcquisitionNext]_acquisitionVars =>
          [\A d \in Datasets : \A i \in DOMAIN histories[d] :
               /\ i \in DOMAIN histories'[d]
               /\ histories'[d][i].id = histories[d][i].id
               /\ histories'[d][i].files = histories[d][i].files
               /\ histories[d][i].status # "received" =>
                      histories'[d][i].status = histories[d][i].status]_acquisitionVars
  BY HistoriesKept DEF Keeps
<1> QED
  BY <1>1, <1>2, <1>3, PTL DEF AcquisitionSpec, HistoryOnlyGrows
=============================================================================
