---------------------------- MODULE DocumentQueues ----------------------------
(***************************************************************************)
(* The documents connector (src/connectors/documents): scan.js posts new   *)
(* and changed files and keeps a manifest of what the server confirmed;    *)
(* ocr-worker.js gives image-only PDFs a text; vendor-worker.js extracts   *)
(* fields from every document that has one. The three scripts are separate *)
(* processes that run to the end and are started again by cron. All they   *)
(* share is the disk: the files, the manifest and two queue files.         *)
(*                                                                         *)
(* A step is one read or one read-modify-write of a shared file or one     *)
(* call of the server. updateJsonFile is taken as atomic: shared.js:131-135 *)
(* admits a window of microseconds inside it. A process may die between    *)
(* any two steps, and with it goes everything but the disk and the server. *)
(***************************************************************************)
EXTENDS Naturals, FiniteSets

CONSTANTS
  Files,        \* documents under the scan root
  Edited,       \* those the owner still edits or removes
  MaxVersion,   \* bound: a file is edited at most to this version
  ImageOnly,    \* <<file, version>> pairs that are a PDF without a text layer
  Blank,        \* the ImageOnly pairs on which OCR finds no text
  Unreadable,   \* <<file, version>> pairs too large or that no extractor can read
  OcrThrows,    \* <<file, version>> pairs on which OCR throws at times or always
  Refused,      \* <<worker, file>> pairs the server answers with a 4xx
  BatchMax,     \* bound: items the scan collects before it flushes
  Staggered,    \* TRUE: the README's cron lines, one worker ended before the other
  MaxCrashes,   \* bound: how many times a process is killed
  None

Workers == {"ocr", "extract"}   \* and the queue each of them drains
Missing == 0                    \* the version of a file that is not on disk
Versions == Missing..MaxVersion

ASSUME BoundAssumption ==
  /\ MaxVersion \in Nat \ {0}
  /\ BatchMax \in Nat \ {0}
  /\ MaxCrashes \in Nat
  /\ Staggered \in BOOLEAN
ASSUME FileAssumption ==
  /\ IsFiniteSet(Files) /\ Edited \subseteq Files
  /\ ImageOnly \subseteq Files \X Versions
  /\ Blank \subseteq ImageOnly
  /\ Unreadable \subseteq Files \X Versions
  /\ OcrThrows \subseteq Files \X Versions
  /\ Refused \subseteq Workers \X Files

VARIABLES
  disk,      \* disk[f]: the version of f on disk; its statKey (mtime and size)
  manifest,  \* manifest[f]: the statKey the manifest file holds for f, 0 if none
  queue,     \* queue[w][f]: the entry for f in the queue file of worker w
  server,    \* server[f]: what the server keeps of f that a second upsert replaces
  taken,     \* history: taken[f] is the version whose text the server last took from
             \* the scan, 0 if none
  scan,      \* the memory of scan.js
  work,      \* work[w]: the memory of worker w
  crashes    \* how many times a process was killed

vars == <<disk, manifest, queue, server, taken, scan, work, crashes>>

\* stat: the statKey the file had when its work began; text: the version the text
\* (of a queue entry, or of a payload not yet posted) was taken from, Missing for
\* an OCR queue entry, which carries no text.
Entries == [stat : Versions \ {Missing}, text : Versions]
\* text: the version text_repr was taken from; stage: what has been done with it.
\* content_hash and raw_path stay as the first upsert had them (db.js:505-512).
Artifacts == [text : Versions, stage : {"header", "text", "extracted"}]
Lists == [Files -> Entries \cup {None}]

ASSUME NoneAssumption == None \notin Files \cup Entries \cup Artifacts

Nothing == [f \in Files |-> None]
Held(list) == {f \in Files : list[f] # None}
Without(list, S) == [f \in Files |-> IF f \in S THEN None ELSE list[f]]

ScanOff == [pc |-> "off", todo |-> {}, file |-> None, stat |-> Missing,
            pending |-> Nothing, confirmed |-> Nothing]
WorkOff == [pc |-> "off", todo |-> Nothing, live |-> Nothing,
            file |-> None, seen |-> Missing]

Init ==
  /\ disk = [f \in Files |-> 1]
  /\ manifest = [f \in Files |-> Missing]
  /\ queue = [w \in Workers |-> Nothing]
  /\ server = [f \in Files |-> None]
  /\ taken = [f \in Files |-> Missing]
  /\ scan = ScanOff
  /\ work = [w \in Workers |-> WorkOff]
  /\ crashes = 0

-----------------------------------------------------------------------------
\* The owner edits or removes a file, whatever the processes are doing.
Change(f) ==
  /\ f \in Edited /\ disk[f] # Missing
  /\ \E v \in {Missing} \cup (disk[f] + 1)..MaxVersion :
       disk' = [disk EXCEPT ![f] = v]
  /\ UNCHANGED <<manifest, queue, server, taken, scan, work, crashes>>

-----------------------------------------------------------------------------
\* Definitions named Bad... are faults the code could have had in the definition
\* that follows them; the properties below must tell them from the real one.

\* Where the scan goes with the files it still has to walk and those it has read:
\* it flushes when BATCH_MAX is reached and once more at the end.
BadScanNext(todo, pending) ==   \* flushes nothing, too
  IF Cardinality(Held(pending)) >= BatchMax \/ todo = {} THEN "flush" ELSE "walk"
ScanNext(todo, pending) ==
  IF Held(pending) # {} /\ (Cardinality(Held(pending)) >= BatchMax \/ todo = {})
  THEN "flush" ELSE IF todo = {} THEN "off" ELSE "walk"

ScanStart ==
  /\ scan.pc = "off"
  /\ scan' = [scan EXCEPT !.pc = "walk", !.todo = Files]
  /\ UNCHANGED <<disk, manifest, queue, server, taken, work, crashes>>

BadUnchanged(f) == manifest[f] # Missing   \* a file once scanned is never looked at
Unchanged(f) == manifest[f] = disk[f]

\* The walk passes f by: it is gone or unchanged, or cannot be read.
Passed(f) ==
  scan' = [scan EXCEPT !.todo = @ \ {f}, !.file = None, !.stat = Missing,
                       !.pc = ScanNext(scan.todo \ {f}, scan.pending)]

ScanStat(f) ==
  /\ scan.pc = "walk" /\ f \in scan.todo
  /\ IF disk[f] = Missing \/ Unchanged(f) THEN Passed(f)
     ELSE scan' = [scan EXCEPT !.pc = "read", !.file = f, !.stat = disk[f]]
  /\ UNCHANGED <<disk, manifest, queue, server, taken, work, crashes>>

\* The file is read some time after its stat: the text may be of a later version.
ScanRead ==
  LET f == scan.file
      pending == [scan.pending EXCEPT ![f] = [stat |-> scan.stat, text |-> disk[f]]]
  IN /\ scan.pc = "read"
     /\ IF disk[f] = Missing \/ <<f, disk[f]>> \in Unreadable THEN Passed(f)
        ELSE scan' = [scan EXCEPT !.todo = @ \ {f}, !.file = None, !.stat = Missing,
                                  !.pending = pending,
                                  !.pc = ScanNext(scan.todo \ {f}, pending)]
     /\ UNCHANGED <<disk, manifest, queue, server, taken, work, crashes>>

\* What the server keeps once it has taken the scan's payloads for the files ok.
Scanned(ok) ==
  [f \in Files |->
     IF f \notin ok THEN server[f]
     ELSE LET v == scan.pending[f].text
          IN [text |-> v, stage |-> IF <<f, v>> \in ImageOnly THEN "header" ELSE "text"]]
Taken(ok) == [f \in Files |-> IF f \in ok THEN scan.pending[f].text ELSE taken[f]]

\* One group of the pending files is posted and answered item by item; how the
\* files fall into groups depends on their order on disk and on their sizes.
Groups == SUBSET Held(scan.pending) \ {{}}

BadConfirmed(G, ok) == Without(scan.pending, Files \ G)   \* item errors ignored
Confirmed(G, ok) == Without(scan.pending, Files \ ok)

ScanPosted(G, ok) ==
  /\ scan.pc = "flush"
  /\ server' = Scanned(ok) /\ taken' = Taken(ok)
  /\ scan' = [scan EXCEPT !.pc = "manifest", !.pending = Without(@, G),
                          !.confirmed = Confirmed(G, ok)]
  /\ UNCHANGED <<disk, manifest, queue, work, crashes>>

\* No answer to the batch, after the server took some of it or none: the run ends.
ScanUnanswered(ok) ==
  /\ scan.pc = "flush"
  /\ server' = Scanned(ok) /\ taken' = Taken(ok)
  /\ scan' = ScanOff
  /\ UNCHANGED <<disk, manifest, queue, work, crashes>>

\* The bookkeeping of a batch: three files, written one after the other.
ScanManifest ==
  /\ scan.pc = "manifest"
  /\ manifest' = [f \in Files |-> IF scan.confirmed[f] # None
                                  THEN scan.confirmed[f].stat ELSE manifest[f]]
  /\ scan' = [scan EXCEPT !.pc = "ocr"]
  /\ UNCHANGED <<disk, queue, server, taken, work, crashes>>

NeedsOcr(f) == <<f, scan.confirmed[f].text>> \in ImageOnly

ScanOcrQueue ==
  /\ scan.pc = "ocr"
  /\ queue' = [queue EXCEPT !["ocr"] =
       [f \in Files |-> IF scan.confirmed[f] = None THEN @[f]
                        ELSE IF NeedsOcr(f)
                        THEN [stat |-> scan.confirmed[f].stat, text |-> Missing]
                        ELSE None]]
  /\ scan' = [scan EXCEPT !.pc = "extract"]
  /\ UNCHANGED <<disk, manifest, server, taken, work, crashes>>

ScanExtractQueue ==
  /\ scan.pc = "extract"
  /\ queue' = [queue EXCEPT !["extract"] =
       [f \in Files |-> IF scan.confirmed[f] # None /\ ~NeedsOcr(f)
                        THEN scan.confirmed[f] ELSE @[f]]]
  /\ scan' = [scan EXCEPT !.confirmed = Nothing,
                !.pc = IF Held(scan.pending) # {} THEN "flush"
                       ELSE ScanNext(scan.todo, scan.pending)]
  /\ UNCHANGED <<disk, manifest, server, taken, work, crashes>>

ScanStep ==
  \/ \E f \in Files : ScanStat(f)
  \/ ScanRead
  \/ \E G \in Groups : \E ok \in SUBSET G : ScanPosted(G, ok)
  \/ \E ok \in SUBSET Held(scan.pending) : ScanUnanswered(ok)
  \/ ScanManifest \/ ScanOcrQueue \/ ScanExtractQueue

-----------------------------------------------------------------------------
\* dropEntry deletes whatever entry the queue file holds for f by now.
Drop(w, f) == queue' = [queue EXCEPT ![w][f] = None]

\* A worker done with f goes on to the next live entry, or ends its run.
Done(w, f) ==
  LET live == Without(work[w].live, {f})
  IN work' = [work EXCEPT ![w] = IF live = Nothing THEN WorkOff ELSE
                [@ EXCEPT !.pc = "run", !.live = live, !.file = None, !.seen = Missing]]

\* A run reads its queue once; with nothing in it the run does nothing.
WorkStart(w) ==
  /\ work[w].pc = "off" /\ queue[w] # Nothing
  /\ Staggered => \A v \in Workers : work[v].pc = "off"
  /\ work' = [work EXCEPT ![w].pc = "check", ![w].todo = queue[w]]
  /\ UNCHANGED <<disk, manifest, queue, server, taken, scan, crashes>>

\* Entries of files that moved or changed since are dropped before the work begins.
WorkCheck(w, f) ==
  LET entry == work[w].todo[f]
      todo == Without(work[w].todo, {f})
      live == IF entry.stat = disk[f] THEN [work[w].live EXCEPT ![f] = entry]
              ELSE work[w].live
  IN /\ work[w].pc = "check" /\ entry # None
     /\ IF entry.stat = disk[f] THEN UNCHANGED queue ELSE Drop(w, f)
     /\ work' = [work EXCEPT ![w] =
          IF todo # Nothing THEN [@ EXCEPT !.todo = todo, !.live = live]
          ELSE IF live # Nothing
          THEN [@ EXCEPT !.pc = "run", !.todo = todo, !.live = live]
          ELSE WorkOff]
     /\ UNCHANGED <<disk, manifest, server, taken, scan, crashes>>

\* ocr-worker.js reads the file now; vendor-worker.js has the text in its entry.
Source(w, f) == IF w = "ocr" THEN disk[f] ELSE work[w].live[f].text

WorkOpen(w, f) ==
  /\ work[w].pc = "run" /\ work[w].live[f] # None
  /\ Source(w, f) # Missing
  /\ work' = [work EXCEPT ![w].pc = "post", ![w].file = f, ![w].seen = Source(w, f)]
  /\ UNCHANGED <<disk, manifest, queue, server, taken, scan, crashes>>

\* The file is gone, or rasterizing or recognising what was read of it throws, for a
\* bad PDF every time: it must not be tried for ever.
CannotOcr(f) ==
  /\ work["ocr"].live[f] # None
  /\ \/ work["ocr"].pc = "run" /\ disk[f] = Missing
     \/ /\ work["ocr"].pc = "post" /\ work["ocr"].file = f
        /\ <<f, work["ocr"].seen>> \in OcrThrows
  /\ Drop("ocr", f) /\ Done("ocr", f)
  /\ UNCHANGED <<disk, manifest, server, taken, scan, crashes>>

\* The upsert of a worker: the text it has seen, and what has been done with it.
Worked(w) ==
  LET f == work[w].file
      v == work[w].seen
  IN [server EXCEPT ![f].text = v,
                    ![f].stage = IF w = "extract" THEN "extracted"
                                 ELSE IF <<f, v>> \in Blank THEN "header" ELSE "text"]

AfterPost(w) ==
  IF w = "ocr" /\ <<work[w].file, work[w].seen>> \notin Blank THEN "hand" ELSE "drop"

BadWorkAccepted(w) ==   \* the entry is dropped before the document is handed on
  /\ work[w].pc = "post" /\ <<w, work[w].file>> \notin Refused
  /\ server' = Worked(w)
  /\ Drop(w, work[w].file)
  /\ work' = [work EXCEPT ![w].pc = AfterPost(w)]
  /\ UNCHANGED <<disk, manifest, taken, scan, crashes>>
WorkAccepted(w) ==
  /\ work[w].pc = "post" /\ <<w, work[w].file>> \notin Refused
  /\ server' = Worked(w)
  /\ work' = [work EXCEPT ![w].pc = AfterPost(w)]
  /\ UNCHANGED <<disk, manifest, queue, taken, scan, crashes>>

BadWorkRefused(w) ==   \* a refusal ends the run like a server that is down
  /\ work[w].pc = "post" /\ <<w, work[w].file>> \in Refused
  /\ work' = [work EXCEPT ![w] = WorkOff]
  /\ UNCHANGED <<disk, manifest, queue, server, taken, scan, crashes>>
WorkRefused(w) ==
  /\ work[w].pc = "post" /\ <<w, work[w].file>> \in Refused
  /\ Drop(w, work[w].file) /\ Done(w, work[w].file)
  /\ UNCHANGED <<disk, manifest, server, taken, scan, crashes>>

\* Tesseract does not start, the extractor fails, or the server gives no answer
\* (it may have taken the upsert): the run ends and leaves its queue as it is.
WorkStops(w) ==
  /\ \/ work[w].pc = "run" /\ UNCHANGED server
     \/ work[w].pc = "post" /\ UNCHANGED server
     \/ work[w].pc = "post" /\ <<w, work[w].file>> \notin Refused /\ server' = Worked(w)
  /\ work' = [work EXCEPT ![w] = WorkOff]
  /\ UNCHANGED <<disk, manifest, queue, taken, scan, crashes>>

\* ocr-worker.js hands the document on before it drops its own entry.
HandOver ==
  LET f == work["ocr"].file
  IN /\ work["ocr"].pc = "hand"
     /\ queue' = [queue EXCEPT !["extract"][f] =
          [stat |-> work["ocr"].live[f].stat, text |-> work["ocr"].seen]]
     /\ work' = [work EXCEPT !["ocr"].pc = "drop"]
     /\ UNCHANGED <<disk, manifest, server, taken, scan, crashes>>

WorkDrop(w) ==
  /\ work[w].pc = "drop"
  /\ Drop(w, work[w].file) /\ Done(w, work[w].file)
  /\ UNCHANGED <<disk, manifest, server, taken, scan, crashes>>

WorkOpens(w) == \E f \in Files : WorkOpen(w, f)
WorkAnswered(w) == WorkAccepted(w) \/ WorkRefused(w)
WorkStep(w) ==
  \/ \E f \in Files : WorkCheck(w, f) \/ (w = "ocr" /\ CannotOcr(f))
  \/ WorkOpens(w) \/ WorkAnswered(w) \/ WorkStops(w) \/ WorkDrop(w)
  \/ w = "ocr" /\ HandOver

-----------------------------------------------------------------------------
\* A kill at any point: `timeout 4h`, a reboot, Ctrl-C.
ScanKilled == scan.pc # "off" /\ scan' = ScanOff /\ UNCHANGED work
WorkKilled(w) ==
  work[w].pc # "off" /\ work' = [work EXCEPT ![w] = WorkOff] /\ UNCHANGED scan
Crash ==
  /\ crashes < MaxCrashes /\ crashes' = crashes + 1
  /\ ScanKilled \/ \E w \in Workers : WorkKilled(w)
  /\ UNCHANGED <<disk, manifest, queue, server, taken>>

Next ==
  \/ \E f \in Files : Change(f)
  \/ ScanStart \/ ScanStep
  \/ \E w \in Workers : WorkStart(w) \/ WorkStep(w)
  \/ Crash

\* cron starts every script again and again and a script that runs takes its next
\* step; the server answers in the end what is sent to it over and over.
Fairness ==
  /\ WF_vars(ScanStart) /\ WF_vars(ScanStep)
  /\ \A f \in Files :
       SF_vars(\E G \in Groups : \E ok \in SUBSET G : f \in ok /\ ScanPosted(G, ok))
  /\ \A w \in Workers :
       /\ SF_vars(WorkStart(w)) /\ WF_vars(WorkStep(w))
       /\ SF_vars(WorkOpens(w)) /\ SF_vars(WorkAnswered(w))

Spec == Init /\ [][Next]_vars /\ Fairness
-----------------------------------------------------------------------------
\* Type invariant, with what the processes rely on: a flush has something to post
\* (scan.js:82) and a worker that posts, hands over or drops has a live entry.
TypeOK ==
  /\ disk \in [Files -> Versions]
  /\ manifest \in [Files -> Versions]
  /\ queue \in [Workers -> Lists]
  /\ server \in [Files -> Artifacts \cup {None}]
  /\ taken \in [Files -> Versions]
  /\ scan \in [pc : {"off", "walk", "read", "flush", "manifest", "ocr", "extract"},
               todo : SUBSET Files, file : Files \cup {None}, stat : Versions,
               pending : Lists, confirmed : Lists]
  /\ work \in [Workers -> [pc : {"off", "check", "run", "post", "hand", "drop"},
                           todo : Lists, live : Lists,
                           file : Files \cup {None}, seen : Versions]]
  /\ crashes \in 0..MaxCrashes
  /\ scan.pc = "flush" => Held(scan.pending) # {}
  /\ \A w \in Workers : work[w].pc \in {"post", "hand", "drop"} =>
       work[w].file # None /\ work[w].live[work[w].file] # None /\ work[w].seen # Missing

\* A file the manifest calls unchanged is one whose text the server has taken, in that
\* version or a later one, whatever failed or was killed or edited between the stat, the
\* read, the answer and the write of the manifest: a file that failed is tried again by
\* the next scan (scan.js:95-99, 108). Workers may since have put another text over it.
ManifestConfirmed ==
  \A f \in Files : manifest[f] # Missing => server[f] # None /\ taken[f] >= manifest[f]

\* An image-only PDF that has got its text is in a queue until its fields have been
\* extracted, unless the server refuses them: a kill at any point leaves no document
\* OCR'd but never extracted (ocr-worker.js:188-190). Edits start the file afresh. Not so
\* where OCR throws at times: what such a kill leaves queued is tried again and may throw.
NeverStranded ==
  \A f \in Files :
    /\ disk[f] = 1 /\ <<f, 1>> \in ImageOnly \ OcrThrows /\ <<"extract", f>> \notin Refused
    /\ server[f] # None /\ server[f].stage = "text"
    => \E w \in Workers : queue[w][f] # None

\* When the edits and the kills are over, the manifest comes to agree with the disk
\* for every file that can be read: no failed batch, no failed item and no race of
\* the stat with an edit keeps a file from being scanned in its last version.
CaughtUp ==
  <>[](\A f \in Files :
         \/ disk[f] = Missing \/ <<f, disk[f]>> \in Unreadable
         \/ manifest[f] = disk[f])

\* The queues run empty for good: no bad PDF, refused payload or stale entry wedges
\* the entries behind it (ocr-worker.js:151-153, 174-182, vendor-worker.js:134-141).
Drained == <>[](\A w \in Workers : queue[w] = Nothing)

\* A worker drops the entry it has worked on, and no other: its update of the queue is
\* safe against a scan.js that finishes concurrently (ocr-worker.js:5-7, README.md:27).
\* With every script at rest and nothing queued, a file in the version the manifest
\* holds has been through its stages: the server has the text of that version, with
\* its fields extracted unless OCR or the server left nothing to extract from.
AtRest ==
  /\ scan.pc = "off"
  /\ \A w \in Workers : work[w].pc = "off" /\ queue[w] = Nothing
WentThrough(f) ==
  /\ server[f].text = disk[f]
  /\ server[f].stage = IF <<f, disk[f]>> \in Blank THEN "header" ELSE "extracted"
Settled ==
  AtRest => \A f \in Files :
              /\ disk[f] # Missing /\ manifest[f] = disk[f]
              /\ <<f, disk[f]>> \notin OcrThrows
              /\ {<<w, f>> : w \in Workers} \cap Refused = {}
              => WentThrough(f)

\* Two things a step may do that leave a document unsettled, as the counterexamples to
\* Settled show: a worker takes an entry out of a queue that is newer than the one in its
\* hands, or the scan is killed when its manifest is written and its queues are not.
InHands(w, f) == {work[w].todo[f], work[w].live[f]} \ {None}
DropsNewer ==
  /\ UNCHANGED scan
  /\ \E w, v \in Workers, f \in Files :
       /\ queue[v][f] # None /\ queue'[v][f] # queue[v][f]
       /\ \E entry \in InHands(w, f) : entry.stat < queue[v][f].stat
TearsBooks == crashes' # crashes /\ scan' # scan /\ scan.pc \in {"ocr", "extract"}

\* The connector when neither happens; every other kill, edit and failure may.
\* Settled is proved of it.
CarefulSpec == Init /\ [][Next /\ ~DropsNewer /\ ~TearsBooks]_vars
=============================================================================
