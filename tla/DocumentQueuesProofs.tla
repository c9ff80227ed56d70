------------------------ MODULE DocumentQueuesProofs ------------------------
(***************************************************************************)
(* For any number of documents, versions and kills, whatever the server    *)
(* answers and whether or not the workers overlap: the state of the        *)
(* connector keeps its types, and of a file the manifest calls unchanged   *)
(* the server has taken the text of that version or of a later one. With   *)
(* the workers kept apart no document that OCR can read is left OCR'd but  *)
(* never extracted, and nothing but two kinds of step keeps it from being  *)
(* settled once it is at rest.                                             *)
(***************************************************************************)
EXTENDS DocumentQueues, TLAPS

\* A file in any bookkeeping after the server's answer is known to the server: a
\* worker always updates an artifact that exists.
Served ==
  \A f \in Files :
    /\ scan.confirmed[f] # None => server[f] # None
    /\ \A w \in Workers :
         queue[w][f] # None \/ work[w].todo[f] # None \/ work[w].live[f] # None
         => server[f] # None

\* The scan reads a file it has found on disk.
Reading == scan.pc = "read" => scan.file \in scan.todo /\ scan.stat # Missing

DocInv == TypeOK /\ Served /\ Reading

\* Versions only grow from the stat to the text read, and from what the server has
\* taken to what is on disk.
Order ==
  /\ scan.pc = "read" => disk[scan.file] = Missing \/ scan.stat <= disk[scan.file]
  /\ \A f \in Files :
       /\ disk[f] = Missing \/ taken[f] <= disk[f]
       /\ scan.pending[f] # None =>
            /\ scan.pending[f].stat <= scan.pending[f].text
            /\ disk[f] = Missing \/ scan.pending[f].text <= disk[f]
            /\ taken[f] <= scan.pending[f].text
       /\ scan.confirmed[f] # None =>
            server[f] # None /\ taken[f] >= scan.confirmed[f].stat

OrderInv == DocInv /\ Order /\ ManifestConfirmed

Scans == [pc : {"off", "walk", "read", "flush", "manifest", "ocr", "extract"},
          todo : SUBSET Files, file : Files \cup {None}, stat : Versions,
          pending : Lists, confirmed : Lists]
Works == [pc : {"off", "check", "run", "post", "hand", "drop"},
          todo : Lists, live : Lists, file : Files \cup {None}, seen : Versions]

-----------------------------------------------------------------------------
LEMMA ListFacts ==
  /\ Nothing \in Lists
  /\ \A f \in Files : Nothing[f] = None
  /\ ScanOff \in Scans
  /\ WorkOff \in Works
BY BoundAssumption DEF Nothing, Lists, ScanOff, WorkOff, Scans, Works, Versions, Missing

LEMMA WithoutFacts ==
  ASSUME NEW list \in Lists, NEW S
  PROVE  /\ Without(list, S) \in Lists
         /\ \A f \in Files : Without(list, S)[f] # None => Without(list, S)[f] = list[f]
BY DEF Without, Lists

LEMMA ScanNextFacts ==
  ASSUME NEW todo, NEW pending
  PROVE  /\ ScanNext(todo, pending) \in {"flush", "off", "walk"}
         /\ ScanNext(todo, pending) = "flush" => Held(pending) # {}
BY DEF ScanNext

\* What the server keeps after a post: the artifacts posted, the others as they were.
LEMMA ScannedFacts ==
  ASSUME DocInv, NEW ok \in SUBSET Held(scan.pending)
  PROVE  /\ Scanned(ok) \in [Files -> Artifacts \cup {None}]
         /\ \A f \in Files \ ok : Scanned(ok)[f] = server[f]
         /\ \A f \in ok : Scanned(ok)[f] # None
         /\ Taken(ok) \in [Files -> Versions]
         /\ \A f \in Files : Taken(ok)[f] = IF f \in ok THEN scan.pending[f].text ELSE taken[f]
<1>1. \A f \in ok : f \in Files /\ scan.pending[f] \in Entries
  BY DEF DocInv, TypeOK, Held, Lists
<1>2. \A f \in ok : Scanned(ok)[f] \in Artifacts
  BY <1>1 DEF Scanned, Artifacts, Entries
<1>4. Taken(ok) \in [Files -> Versions]
  BY <1>1 DEF Taken, Entries, DocInv, TypeOK
<1>3. \A f \in Files \ ok : Scanned(ok)[f] = server[f]
  BY DEF Scanned
<1>. QED
  <2>1. Scanned(ok) \in [Files -> Artifacts \cup {None}]
    <3>1. \A f \in Files : Scanned(ok)[f] \in Artifacts \cup {None}
      BY <1>2, <1>3 DEF DocInv, TypeOK
    <3>. QED
      BY <3>1 DEF Scanned
  <2>. QED
    BY <1>2, <1>3, <1>4, <2>1, NoneAssumption DEF Taken

\* A worker's upsert is of an artifact the server has.
LEMMA WorkedFacts ==
  ASSUME DocInv, NEW w \in Workers, work[w].pc = "post"
  PROVE  /\ Worked(w) \in [Files -> Artifacts \cup {None}]
         /\ \A f \in Files : Worked(w)[f] # None <=> server[f] # None
<1> DEFINE f == work[w].file
           v == work[w].seen
           s == IF w = "extract" THEN "extracted"
                ELSE IF <<f, v>> \in Blank THEN "header" ELSE "text"
           r == [[server[f] EXCEPT !.text = v] EXCEPT !.stage = s]
<1>1. f \in Files /\ v \in Versions /\ server[f] \in Artifacts /\ server[f] # None
  BY DEF DocInv, TypeOK, Served
<1>2. r \in Artifacts
  BY <1>1 DEF Artifacts
<1>3. Worked(w) = [server EXCEPT ![f] = r]
  BY <1>1 DEF Worked, DocInv, TypeOK, Artifacts
<1>. QED
  BY <1>1, <1>2, <1>3, NoneAssumption DEF DocInv, TypeOK

-----------------------------------------------------------------------------
LEMMA DocInvInit == Init => DocInv
<1> SUFFICES ASSUME Init PROVE DocInv
  OBVIOUS
<1>1. TypeOK
  BY ListFacts, BoundAssumption
     DEF Init, TypeOK, Scans, Works, Versions, Missing, ScanOff, WorkOff, Workers, Lists
<1>2. Served /\ Reading
  BY ListFacts DEF Init, Served, Reading, ScanOff, WorkOff, Workers
<1>. QED
  BY <1>1, <1>2 DEF DocInv

LEMMA ScanKeepsDocInv ==
  ASSUME DocInv, ScanStart \/ ScanStep
  PROVE  DocInv'
<1> USE DEF DocInv
<1>1. CASE ScanStart
  BY <1>1 DEF ScanStart, TypeOK, Served, Reading
<1>2. ASSUME NEW f \in Files, Passed(f), f \in scan.todo,
             UNCHANGED <<disk, manifest, queue, server, taken, work, crashes>>
      PROVE  DocInv'
  <2> DEFINE next == ScanNext(scan.todo \ {f}, scan.pending)
  <2>1. next \in {"flush", "off", "walk"} /\ (next = "flush" => Held(scan.pending) # {})
    BY ScanNextFacts
  <2>2. scan' = [scan EXCEPT !.todo = @ \ {f}, !.file = None, !.stat = Missing, !.pc = next]
    BY <1>2 DEF Passed
  <2>3. Missing \in Versions
    BY BoundAssumption DEF Versions, Missing
  <2> HIDE DEF next
  <2>4. /\ scan' \in Scans
        /\ scan'.pc = next /\ scan'.pending = scan.pending /\ scan'.confirmed = scan.confirmed
    BY <2>1, <2>2, <2>3 DEF TypeOK, Scans
  <2>. QED
    BY <1>2, <2>1, <2>4 DEF TypeOK, Scans, Held, Served, Reading
<1>3. ASSUME NEW f \in Files, ScanStat(f)
      PROVE  DocInv'
  <2>1. CASE disk[f] = Missing \/ Unchanged(f)
    BY <1>2, <1>3, <2>1 DEF ScanStat
  <2>2. CASE ~(disk[f] = Missing \/ Unchanged(f))
    BY <1>3, <2>2 DEF ScanStat, TypeOK, Served, Reading
  <2>. QED
    BY <2>1, <2>2
<1>4. CASE ScanRead
  <2> DEFINE f == scan.file
             pending == [scan.pending EXCEPT ![f] = [stat |-> scan.stat, text |-> disk[f]]]
  <2>1. f \in Files /\ f \in scan.todo /\ scan.stat # Missing
    BY <1>4 DEF ScanRead, Reading, TypeOK
  <2>2. CASE disk[f] = Missing \/ <<f, disk[f]>> \in Unreadable
    BY <1>2, <1>4, <2>1, <2>2 DEF ScanRead
  <2>3. CASE ~(disk[f] = Missing \/ <<f, disk[f]>> \in Unreadable)
    <3>1. pending \in Lists
      BY <2>1 DEF TypeOK, Lists, Entries
    <3>2. scan' = [scan EXCEPT !.todo = @ \ {f}, !.file = None, !.stat = Missing,
                               !.pending = pending, !.pc = ScanNext(scan.todo \ {f}, pending)]
      BY <1>4, <2>3 DEF ScanRead
    <3>3. UNCHANGED <<disk, manifest, queue, server, taken, work, crashes>>
      BY <1>4 DEF ScanRead
    <3> DEFINE next == ScanNext(scan.todo \ {f}, pending)
    <3>4. next \in {"flush", "off", "walk"} /\ (next = "flush" => Held(pending) # {})
      BY ScanNextFacts
    <3>5. Missing \in Versions
      BY BoundAssumption DEF Versions, Missing
    <3> HIDE DEF pending, next
    <3>6. /\ scan' \in Scans
          /\ scan'.pc = next /\ scan'.pending = pending /\ scan'.confirmed = scan.confirmed
      BY <3>1, <3>2, <3>4, <3>5 DEF TypeOK, Scans, next
    <3>. QED
      BY <3>3, <3>4, <3>6 DEF TypeOK, Scans, Held, Served, Reading
  <2>. QED
    BY <2>2, <2>3
<1>5. ASSUME NEW G \in Groups, NEW ok \in SUBSET G, ScanPosted(G, ok)
      PROVE  DocInv'
  <2>1. ok \in SUBSET Held(scan.pending)
    BY <1>5 DEF Groups
  <2>2. Without(scan.pending, G) \in Lists /\ Confirmed(G, ok) \in Lists
    BY WithoutFacts DEF TypeOK, Confirmed
  <2>3. \A f \in Files : Confirmed(G, ok)[f] # None => f \in ok
    BY DEF Confirmed, Without
  <2>4. TypeOK'
    BY <1>5, <2>1, <2>2, ScannedFacts DEF ScanPosted, TypeOK
  <2>5. \A f \in Files : server[f] # None => server'[f] # None
    BY <1>5, <2>1, ScannedFacts DEF ScanPosted
  <2>6. \A f \in ok : server'[f] # None
    BY <1>5, <2>1, ScannedFacts DEF ScanPosted
  <2>7. scan'.confirmed = Confirmed(G, ok) /\ scan'.pc = "manifest"
        /\ UNCHANGED <<queue, work>>
    BY <1>5 DEF ScanPosted, TypeOK
  <2>8. Served'
    BY <2>3, <2>5, <2>6, <2>7 DEF Served
  <2>. QED
    BY <2>4, <2>7, <2>8 DEF Reading
<1>6. ASSUME NEW ok \in SUBSET Held(scan.pending), ScanUnanswered(ok)
      PROVE  DocInv'
  <2>1. TypeOK'
    BY <1>6, ScannedFacts, ListFacts DEF ScanUnanswered, TypeOK, Scans, ScanOff
  <2>2. \A f \in Files : server[f] # None => server'[f] # None
    BY <1>6, ScannedFacts DEF ScanUnanswered
  <2>3. Served'
    BY <1>6, <2>2, ListFacts DEF ScanUnanswered, Served, ScanOff
  <2>. QED
    BY <1>6, <2>1, <2>3 DEF ScanUnanswered, Reading, ScanOff
<1>7. CASE ScanManifest
  BY <1>7 DEF ScanManifest, TypeOK, Served, Reading, Lists, Entries
<1>8. CASE ScanOcrQueue
  <2> DEFINE q == [f \in Files |-> IF scan.confirmed[f] = None THEN queue["ocr"][f]
                     ELSE IF NeedsOcr(f)
                     THEN [stat |-> scan.confirmed[f].stat, text |-> Missing] ELSE None]
  <2>1. q \in Lists
    BY BoundAssumption DEF TypeOK, Lists, Entries, Workers, Versions, Missing
  <2>2. queue' = [queue EXCEPT !["ocr"] = q]
    BY <1>8 DEF ScanOcrQueue
  <2>3. \A f \in Files : q[f] # None => queue["ocr"][f] # None \/ scan.confirmed[f] # None
    OBVIOUS
  <2> HIDE DEF q
  <2>. QED
    BY <1>8, <2>1, <2>2, <2>3 DEF ScanOcrQueue, TypeOK, Served, Reading, Workers
<1>9. CASE ScanExtractQueue
  <2> DEFINE q == [f \in Files |-> IF scan.confirmed[f] # None /\ ~NeedsOcr(f)
                                   THEN scan.confirmed[f] ELSE queue["extract"][f]]
  <2>1. q \in Lists
    BY DEF TypeOK, Lists, Workers
  <2>2. queue' = [queue EXCEPT !["extract"] = q]
    BY <1>9 DEF ScanExtractQueue
  <2>3. \A f \in Files : q[f] # None => queue["extract"][f] # None \/ scan.confirmed[f] # None
    OBVIOUS
  <2> DEFINE next == IF Held(scan.pending) # {} THEN "flush"
                     ELSE ScanNext(scan.todo, scan.pending)
  <2>4. next \in {"flush", "off", "walk"} /\ (next = "flush" => Held(scan.pending) # {})
    BY ScanNextFacts
  <2>5. scan' = [scan EXCEPT !.confirmed = Nothing, !.pc = next]
    BY <1>9 DEF ScanExtractQueue
  <2>6. UNCHANGED <<disk, manifest, server, taken, work, crashes>>
    BY <1>9 DEF ScanExtractQueue
  <2> HIDE DEF q, next
  <2>7. /\ scan' \in Scans
        /\ scan'.pc = next /\ scan'.pending = scan.pending /\ scan'.confirmed = Nothing
    BY <2>4, <2>5, ListFacts DEF TypeOK, Scans
  <2>8. TypeOK'
    BY <2>1, <2>2, <2>4, <2>6, <2>7 DEF TypeOK, Scans, Held, Workers
  <2>9. Served'
    BY <2>2, <2>3, <2>6, <2>7, ListFacts DEF Served, TypeOK, Workers
  <2>. QED
    BY <2>4, <2>7, <2>8, <2>9 DEF Reading
<1>. QED
  BY <1>1, <1>3, <1>4, <1>5, <1>6, <1>7, <1>8, <1>9 DEF ScanStep

\* Dropping an entry and forgetting a live one keep the invariant.
LEMMA DropFacts ==
  ASSUME DocInv, NEW w \in Workers, NEW f \in Files, Drop(w, f)
  PROVE  /\ queue' \in [Workers -> Lists]
         /\ \A v \in Workers, g \in Files : queue'[v][g] # None => queue[v][g] # None
<1>1. queue[w] \in Lists
  BY DEF DocInv, TypeOK
<1>2. [queue[w] EXCEPT ![f] = None] \in Lists
  BY <1>1 DEF Lists
<1>3. queue' = [queue EXCEPT ![w] = [queue[w] EXCEPT ![f] = None]]
  BY DEF Drop
<1>. QED
  BY <1>1, <1>2, <1>3 DEF DocInv, TypeOK, Lists

\* What a step may make of the memory of one worker, u.
WorkerFine(u) ==
  /\ u \in Works
  /\ u.pc \in {"post", "hand", "drop"} =>
       u.file # None /\ u.live[u.file] # None /\ u.seen # Missing
  /\ \A f \in Files : u.todo[f] # None \/ u.live[f] # None => server[f] # None

LEMMA DoneFacts ==
  ASSUME DocInv, NEW w \in Workers, NEW f, Done(w, f)
  PROVE  \E u : work' = [work EXCEPT ![w] = u] /\ WorkerFine(u)
<1> DEFINE live == Without(work[w].live, {f})
           u == [work[w] EXCEPT !.pc = "run", !.live = live, !.file = None,
                                !.seen = Missing]
<1>1. work[w] \in Works
  BY DEF DocInv, TypeOK, Works
<1>2. live \in Lists /\ \A g \in Files : live[g] # None => work[w].live[g] # None
  BY <1>1, WithoutFacts DEF Works
<1>3. work' = [work EXCEPT ![w] = IF live = Nothing THEN WorkOff ELSE u]
  BY DEF Done
<1>4. Missing \in Versions
  BY BoundAssumption DEF Versions, Missing
<1>5. WorkerFine(WorkOff)
  BY ListFacts DEF WorkerFine, WorkOff
<1> HIDE DEF live
<1>6. WorkerFine(u)
  <2>1. /\ u \in Works
        /\ u.pc = "run" /\ u.todo = work[w].todo /\ u.live = live
    BY <1>1, <1>2, <1>4 DEF Works
  <2>. QED
    BY <1>2, <2>1 DEF WorkerFine, DocInv, Served
<1>. QED
  BY <1>3, <1>5, <1>6

\* A step of worker w that leaves its memory fine, removes nothing from the server
\* and queues only what the server has keeps the invariant.
LEMMA WorkerStep ==
  ASSUME DocInv, NEW w \in Workers, NEW u,
         work' = [work EXCEPT ![w] = u], WorkerFine(u),
         queue' \in [Workers -> Lists],
         \A v \in Workers, g \in Files : queue'[v][g] # None => server[g] # None,
         server' \in [Files -> Artifacts \cup {None}],
         \A g \in Files : server[g] # None => server'[g] # None,
         UNCHANGED <<disk, manifest, taken, scan>>, crashes' \in 0..MaxCrashes
  PROVE  DocInv'
<1>1. TypeOK'
  BY DEF DocInv, TypeOK, WorkerFine, Works, Held
<1>2. Served'
  BY DEF DocInv, TypeOK, Served, WorkerFine
<1>3. Reading'
  BY DEF DocInv, Reading
<1>. QED
  BY <1>1, <1>2, <1>3 DEF DocInv

LEMMA WorkKeepsDocInv ==
  ASSUME DocInv, NEW w \in Workers, WorkStart(w) \/ WorkStep(w)
  PROVE  DocInv'
<1>1. /\ work[w] \in Works /\ queue[w] \in Lists /\ WorkerFine(work[w])
      /\ work \in [Workers -> Works]
  BY DEF DocInv, TypeOK, Works, WorkerFine, Served
<1>2. crashes \in 0..MaxCrashes /\ queue \in [Workers -> Lists]
      /\ server \in [Files -> Artifacts \cup {None}]
      /\ \A v \in Workers, g \in Files : queue[v][g] # None => server[g] # None
  BY DEF DocInv, TypeOK, Served
<1>3. Missing \in Versions /\ WorkerFine(WorkOff)
  BY BoundAssumption, ListFacts DEF Versions, Missing, WorkerFine, WorkOff
<1>4. CASE WorkStart(w)
  <2> DEFINE u == [work[w] EXCEPT !.pc = "check", !.todo = queue[w]]
  <2>1. work' = [work EXCEPT ![w] = u]
    BY <1>1, <1>4 DEF WorkStart, Works
  <2>2. u \in Works /\ u.pc = "check" /\ u.todo = queue[w] /\ u.live = work[w].live
    BY <1>1 DEF Works
  <2>3. WorkerFine(u)
    BY <1>1, <1>2, <2>2 DEF WorkerFine
  <2> HIDE DEF u
  <2>. QED
    BY <1>2, <1>4, <2>1, <2>3, WorkerStep DEF WorkStart
<1>5. ASSUME NEW f \in Files, WorkCheck(w, f)
      PROVE  DocInv'
  <2> DEFINE entry == work[w].todo[f]
             todo == Without(work[w].todo, {f})
             live == IF entry.stat = disk[f] THEN [work[w].live EXCEPT ![f] = entry]
                     ELSE work[w].live
             u == IF todo # Nothing THEN [work[w] EXCEPT !.todo = todo, !.live = live]
                  ELSE IF live # Nothing
                  THEN [work[w] EXCEPT !.pc = "run", !.todo = todo, !.live = live]
                  ELSE WorkOff
  <2>1. work' = [work EXCEPT ![w] = u] /\ work[w].pc = "check" /\ entry # None
    BY <1>5 DEF WorkCheck
  <2>2. todo \in Lists /\ \A g \in Files : todo[g] # None => work[w].todo[g] # None
    BY <1>1, WithoutFacts DEF Works
  <2>3. live \in Lists
        /\ \A g \in Files : live[g] # None => work[w].live[g] # None \/ work[w].todo[g] # None
    BY <1>1, <2>1 DEF Works, Lists
  <2> HIDE DEF todo, live, entry
  <2>4. WorkerFine(u)
    <3>1. ASSUME NEW x, x = [work[w] EXCEPT !.todo = todo, !.live = live]
                     \/ x = [work[w] EXCEPT !.pc = "run", !.todo = todo, !.live = live]
          PROVE  WorkerFine(x)
      <4>1. /\ x \in Works /\ x.pc \in {"check", "run"}
            /\ x.todo = todo /\ x.live = live
        BY <1>1, <2>1, <2>2, <2>3, <3>1 DEF Works
      <4>. QED
        BY <1>1, <2>2, <2>3, <4>1 DEF WorkerFine
    <3>. QED
      BY <1>3, <3>1
  <2> HIDE DEF u
  <2>5. queue' \in [Workers -> Lists]
        /\ \A v \in Workers, g \in Files : queue'[v][g] # None => queue[v][g] # None
    BY <1>2, <1>5, DropFacts DEF WorkCheck
  <2>6. UNCHANGED <<disk, manifest, server, taken, scan, crashes>>
    BY <1>5 DEF WorkCheck
  <2>. QED
    BY <1>2, <2>1, <2>4, <2>5, <2>6, WorkerStep
<1>6. ASSUME NEW f \in Files, CannotOcr(f), w = "ocr"
      PROVE  DocInv'
  <2>1. PICK u : work' = [work EXCEPT ![w] = u] /\ WorkerFine(u)
    BY <1>6, DoneFacts DEF CannotOcr
  <2>2. queue' \in [Workers -> Lists]
        /\ \A v \in Workers, g \in Files : queue'[v][g] # None => queue[v][g] # None
    BY <1>6, DropFacts DEF CannotOcr
  <2>. QED
    BY <1>2, <1>6, <2>1, <2>2, WorkerStep DEF CannotOcr
<1>7. ASSUME NEW f \in Files, WorkOpen(w, f)
      PROVE  DocInv'
  <2> DEFINE u == [work[w] EXCEPT !.pc = "post", !.file = f, !.seen = Source(w, f)]
  <2>1. work' = [work EXCEPT ![w] = u]
    BY <1>1, <1>7 DEF WorkOpen, Works
  <2>2. Source(w, f) \in Versions /\ Source(w, f) # Missing /\ work[w].live[f] # None
    BY <1>1, <1>7 DEF WorkOpen, Source, Works, Lists, Entries, DocInv, TypeOK
  <2>3. /\ u \in Works /\ u.file = f /\ u.seen = Source(w, f)
        /\ u.live = work[w].live /\ u.todo = work[w].todo
    BY <1>1, <2>2 DEF Works
  <2>4. WorkerFine(u)
    BY <1>1, <2>2, <2>3, NoneAssumption DEF WorkerFine
  <2> HIDE DEF u
  <2>. QED
    BY <1>2, <1>7, <2>1, <2>4, WorkerStep DEF WorkOpen
<1>8. CASE WorkAccepted(w)
  <2> DEFINE u == [work[w] EXCEPT !.pc = AfterPost(w)]
  <2>1. work' = [work EXCEPT ![w] = u] /\ work[w].pc = "post"
    BY <1>1, <1>8 DEF WorkAccepted, Works
  <2>2. AfterPost(w) \in {"hand", "drop"}
    BY DEF AfterPost
  <2>3. /\ u \in Works /\ u.file = work[w].file /\ u.seen = work[w].seen
        /\ u.live = work[w].live /\ u.todo = work[w].todo
    BY <1>1, <2>2 DEF Works
  <2>4. WorkerFine(u)
    BY <1>1, <2>1, <2>3 DEF WorkerFine
  <2> HIDE DEF u
  <2>. QED
    BY <1>2, <1>8, <2>1, <2>4, WorkedFacts, WorkerStep DEF WorkAccepted
<1>9. CASE WorkRefused(w)
  <2>1. work[w].file \in Files
    BY <1>1, <1>9 DEF WorkRefused, WorkerFine, Works
  <2>2. PICK u : work' = [work EXCEPT ![w] = u] /\ WorkerFine(u)
    BY <1>9, DoneFacts DEF WorkRefused
  <2>3. queue' \in [Workers -> Lists]
        /\ \A v \in Workers, g \in Files : queue'[v][g] # None => queue[v][g] # None
    BY <1>9, <2>1, DropFacts DEF WorkRefused
  <2>. QED
    BY <1>2, <1>9, <2>2, <2>3, WorkerStep DEF WorkRefused
<1>10. CASE WorkStops(w)
  <2>1. server' \in [Files -> Artifacts \cup {None}]
        /\ \A g \in Files : server[g] # None => server'[g] # None
    BY <1>2, <1>10, WorkedFacts DEF WorkStops
  <2>. QED
    BY <1>2, <1>3, <1>10, <2>1, WorkerStep DEF WorkStops
<1>11. CASE w = "ocr" /\ HandOver
  <2> DEFINE f == work["ocr"].file
             entry == [stat |-> work["ocr"].live[f].stat, text |-> work["ocr"].seen]
             u == [work[w] EXCEPT !.pc = "drop"]
  <2>1. f \in Files /\ work[w].live[f] # None /\ work[w].pc = "hand"
    BY <1>1, <1>11 DEF HandOver, WorkerFine, Works
  <2>2. entry \in Entries
    BY <1>1, <1>11, <2>1 DEF Works, Lists, Entries
  <2>3. queue' = [queue EXCEPT !["extract"] = [queue["extract"] EXCEPT ![f] = entry]]
    BY <1>11 DEF HandOver
  <2>4. server[f] # None
    BY <1>1, <2>1 DEF WorkerFine
  <2> HIDE DEF entry, f
  <2>5. queue' \in [Workers -> Lists]
    BY <1>2, <2>1, <2>2, <2>3 DEF Lists, Workers
  <2>6. \A v \in Workers, g \in Files : queue'[v][g] # None => server[g] # None
    BY <1>2, <2>1, <2>3, <2>4 DEF Lists, Workers
  <2>7. work' = [work EXCEPT ![w] = u]
    BY <1>1, <1>11 DEF HandOver, Works
  <2>8. WorkerFine(u)
    <3>1. /\ u \in Works /\ u.file = work[w].file /\ u.seen = work[w].seen
          /\ u.live = work[w].live /\ u.todo = work[w].todo
      BY <1>1 DEF Works
    <3>. QED
      BY <1>1, <2>1, <3>1 DEF WorkerFine
  <2> HIDE DEF u
  <2>. QED
    BY <1>2, <1>11, <2>5, <2>6, <2>7, <2>8, WorkerStep DEF HandOver
<1>12. CASE WorkDrop(w)
  <2>1. work[w].file \in Files
    BY <1>1, <1>12 DEF WorkDrop, WorkerFine, Works
  <2>2. PICK u : work' = [work EXCEPT ![w] = u] /\ WorkerFine(u)
    BY <1>12, DoneFacts DEF WorkDrop
  <2>3. queue' \in [Workers -> Lists]
        /\ \A v \in Workers, g \in Files : queue'[v][g] # None => queue[v][g] # None
    BY <1>12, <2>1, DropFacts DEF WorkDrop
  <2>. QED
    BY <1>2, <1>12, <2>2, <2>3, WorkerStep DEF WorkDrop
<1>. QED
  BY <1>4, <1>5, <1>6, <1>7, <1>8, <1>9, <1>10, <1>11, <1>12
     DEF WorkStep, WorkOpens, WorkAnswered

-----------------------------------------------------------------------------
LEMMA OthersKeepDocInv ==
  ASSUME DocInv, Crash \/ UNCHANGED vars \/ \E f \in Files : Change(f)
  PROVE  DocInv'
<1>1. CASE \E f \in Files : Change(f)
  <2>1. PICK f \in Files : Change(f)
    BY <1>1
  <2>2. \A v \in {Missing} \cup (disk[f] + 1)..MaxVersion : v \in Versions
    BY <2>1, BoundAssumption DEF DocInv, TypeOK, Versions, Missing
  <2>3. disk' \in [Files -> Versions]
    BY <2>1, <2>2 DEF Change, DocInv, TypeOK
  <2>. QED
    BY <2>1, <2>3 DEF Change, DocInv, TypeOK, Served, Reading, Held
<1>2. CASE UNCHANGED vars
  BY <1>2 DEF vars, DocInv, TypeOK, Served, Reading, Held
<1>3. CASE Crash
  <2>1. crashes' \in 0..MaxCrashes /\ UNCHANGED <<disk, manifest, queue, server, taken>>
    BY <1>3, BoundAssumption DEF Crash, DocInv, TypeOK
  <2>2. CASE ScanKilled
    <3>1. scan' = ScanOff /\ UNCHANGED work
      BY <2>2 DEF ScanKilled
    <3>2. ScanOff.pc = "off" /\ ScanOff.confirmed = Nothing
      BY DEF ScanOff
    <3>. QED
      BY <2>1, <3>1, <3>2, ListFacts DEF DocInv, TypeOK, Served, Reading, Scans, Held
  <2>3. ASSUME NEW w \in Workers, WorkKilled(w)
        PROVE  DocInv'
    <3>1. WorkerFine(WorkOff)
      BY ListFacts DEF WorkerFine, WorkOff
    <3>. QED
      BY <2>1, <2>3, <3>1, WorkerStep DEF WorkKilled, DocInv, TypeOK, Served
  <2>. QED
    BY <1>3, <2>2, <2>3 DEF Crash
<1>. QED
  BY <1>1, <1>2, <1>3

LEMMA DocInvStep == DocInv /\ [Next]_vars => DocInv'
BY ScanKeepsDocInv, WorkKeepsDocInv, OthersKeepDocInv DEF Next

\* Every reachable state of the connector is well typed, and every process works on
\* something the disk and the server have.
THEOREM TypeCorrect == Spec => []TypeOK
<1>1. DocInv => TypeOK
  BY DEF DocInv
<1>. QED
  BY DocInvInit, DocInvStep, <1>1, PTL DEF Spec

-----------------------------------------------------------------------------
\* Steps that leave the manifest, the disk and what was taken from the scan alone.
LEMMA OrderKept ==
  ASSUME OrderInv, DocInv', UNCHANGED <<disk, manifest, taken>>,
         \A f \in Files : server'[f] # None <=> server[f] # None,
         scan'.pc # "read" \/ UNCHANGED scan,
         \A f \in Files : /\ scan'.pending[f] \in {None, scan.pending[f]}
                          /\ scan'.confirmed[f] \in {None, scan.confirmed[f]}
  PROVE  OrderInv'
<1>1. Order'
  BY DEF OrderInv, Order
<1>2. ManifestConfirmed'
  BY DEF OrderInv, ManifestConfirmed
<1>. QED
  BY <1>1, <1>2 DEF OrderInv

LEMMA WorkersKeepOrder ==
  ASSUME OrderInv, NEW w \in Workers, WorkStart(w) \/ WorkStep(w)
  PROVE  OrderInv'
<1>1. DocInv'
  BY WorkKeepsDocInv DEF OrderInv
<1>2. UNCHANGED <<disk, manifest, taken, scan>>
  BY DEF WorkStart, WorkStep, WorkOpens, WorkAnswered, WorkCheck, CannotOcr, WorkOpen,
         WorkAccepted, WorkRefused, WorkStops, WorkDrop, HandOver
<1>3. \A f \in Files : server'[f] # None <=> server[f] # None
  <2>1. CASE UNCHANGED server
    BY <2>1
  <2>2. CASE work[w].pc = "post" /\ server' = Worked(w)
    BY <2>2, WorkedFacts DEF OrderInv
  <2>3. UNCHANGED server \/ (work[w].pc = "post" /\ server' = Worked(w))
    BY DEF WorkStart, WorkStep, WorkOpens, WorkAnswered, WorkCheck, CannotOcr, WorkOpen,
           WorkAccepted, WorkRefused, WorkStops, WorkDrop, HandOver
  <2>. QED
    BY <2>1, <2>2, <2>3
<1>. QED
  BY <1>1, <1>2, <1>3, OrderKept

LEMMA OthersKeepOrder ==
  ASSUME OrderInv, Crash \/ UNCHANGED vars \/ \E f \in Files : Change(f)
  PROVE  OrderInv'
<1>1. DocInv'
  BY OthersKeepDocInv DEF OrderInv
<1>2. CASE \E f \in Files : Change(f)
  <2>1. PICK f \in Files : Change(f)
    BY <1>2
  <2>2. \A g \in Files : disk'[g] = Missing \/ disk'[g] >= disk[g]
    BY <2>1, BoundAssumption DEF Change, OrderInv, DocInv, TypeOK, Versions, Missing
  <2>3. \A g \in Files : /\ disk[g] \in Nat /\ disk'[g] \in Nat
                         /\ disk[g] = Missing => disk'[g] = Missing
    BY <1>1, <2>1, BoundAssumption DEF Change, OrderInv, DocInv, TypeOK, Versions, Missing
  <2>4. /\ \A g \in Files : taken[g] \in Nat
        /\ \A g \in Files : scan.pending[g] # None => scan.pending[g].text \in Nat
        /\ scan.stat \in Nat
        /\ scan.pc = "read" => scan.file \in Files
    BY BoundAssumption DEF OrderInv, DocInv, TypeOK, Reading, Lists, Entries, Artifacts,
                           Versions, Missing
  <2>5. UNCHANGED <<manifest, server, taken, scan>>
    BY <2>1 DEF Change
  <2>6. Order'
    BY <2>2, <2>3, <2>4, <2>5 DEF OrderInv, Order
  <2>. QED
    BY <1>1, <2>5, <2>6 DEF OrderInv, ManifestConfirmed
<1>3. CASE UNCHANGED vars
  BY <1>1, <1>3, OrderKept DEF vars
<1>4. CASE Crash
  <2>1. UNCHANGED <<disk, manifest, server, taken>> /\ (UNCHANGED scan \/ scan' = ScanOff)
    BY <1>4 DEF Crash, ScanKilled, WorkKilled
  <2>2. /\ ScanOff.pc # "read"
        /\ \A f \in Files : ScanOff.pending[f] = None /\ ScanOff.confirmed[f] = None
    BY ListFacts DEF ScanOff
  <2>. QED
    BY <1>1, <2>1, <2>2, OrderKept
<1>. QED
  BY <1>2, <1>3, <1>4

\* A post answers for the version that was read: no older than its stat, and no older
\* than what the server had.
LEMMA PostKeepsOrder ==
  ASSUME OrderInv, DocInv', NEW ok \in SUBSET Held(scan.pending),
         UNCHANGED <<disk, manifest>>, server' = Scanned(ok), taken' = Taken(ok),
         scan'.pc # "read",
         \A f \in Files :
           /\ scan'.pending[f] # None => f \notin ok /\ scan'.pending[f] = scan.pending[f]
           /\ scan'.confirmed[f] # None => f \in ok /\ scan'.confirmed[f] = scan.pending[f]
  PROVE  OrderInv'
<1>1. /\ \A f \in Files \ ok : server'[f] = server[f]
      /\ \A f \in ok : server'[f] # None
      /\ \A f \in Files : taken'[f] = IF f \in ok THEN scan.pending[f].text ELSE taken[f]
  BY ScannedFacts DEF OrderInv
<1>2. \A f \in ok : f \in Files /\ scan.pending[f] # None
  BY DEF Held
<1>3. /\ \A f \in Files : taken[f] \in Nat
      /\ \A f \in Files : manifest[f] \in Nat /\ disk[f] \in Nat
      /\ \A f \in Files : scan.pending[f] # None =>
           scan.pending[f].text \in Nat /\ scan.pending[f].stat \in Nat
  BY BoundAssumption DEF OrderInv, DocInv, TypeOK, Lists, Entries, Artifacts,
                         Versions, Missing
<1>4. Order'
  BY <1>1, <1>2, <1>3 DEF OrderInv, Order
<1>5. ManifestConfirmed'
  BY <1>1, <1>2, <1>3 DEF OrderInv, Order, ManifestConfirmed
<1>. QED
  BY <1>4, <1>5 DEF OrderInv

LEMMA ScanKeepsOrder ==
  ASSUME OrderInv, ScanStart \/ ScanStep
  PROVE  OrderInv'
<1>1. DocInv /\ DocInv'
  BY ScanKeepsDocInv DEF OrderInv
<1>2. scan \in Scans
  BY <1>1 DEF DocInv, TypeOK, Scans
<1>3. CASE ScanStart
  <2>1. UNCHANGED <<disk, manifest, server, taken>>
        /\ scan'.pc = "walk" /\ scan'.pending = scan.pending
        /\ scan'.confirmed = scan.confirmed
    BY <1>2, <1>3 DEF ScanStart, Scans
  <2>. QED
    BY <1>1, <2>1, OrderKept
<1>4. ASSUME NEW f, Passed(f), UNCHANGED <<disk, manifest, server, taken>>
      PROVE  OrderInv'
  <2>1. /\ scan'.pc = ScanNext(scan.todo \ {f}, scan.pending)
        /\ scan'.pending = scan.pending /\ scan'.confirmed = scan.confirmed
    BY <1>2, <1>4 DEF Passed, Scans
  <2>2. scan'.pc # "read"
    BY <2>1 DEF ScanNext
  <2>. QED
    BY <1>1, <1>4, <2>1, <2>2, OrderKept
<1>5. ASSUME NEW f \in Files, ScanStat(f)
      PROVE  OrderInv'
  <2>1. CASE disk[f] = Missing \/ Unchanged(f)
    BY <1>4, <1>5, <2>1 DEF ScanStat
  <2>2. CASE ~(disk[f] = Missing \/ Unchanged(f))
    <3>1. /\ UNCHANGED <<disk, manifest, server, taken>>
          /\ scan'.file = f /\ scan'.stat = disk[f]
          /\ scan'.pending = scan.pending /\ scan'.confirmed = scan.confirmed
      BY <1>2, <1>5, <2>2 DEF ScanStat, Scans
    <3>2. disk[f] \in Nat
      BY <1>1, BoundAssumption DEF DocInv, TypeOK, Versions, Missing
    <3>. QED
      BY <1>1, <3>1, <3>2 DEF OrderInv, Order, ManifestConfirmed
  <2>. QED
    BY <2>1, <2>2
<1>6. CASE ScanRead
  <2> DEFINE f == scan.file
             entry == [stat |-> scan.stat, text |-> disk[f]]
             pending == [scan.pending EXCEPT ![f] = entry]
  <2>1. f \in Files /\ UNCHANGED <<disk, manifest, server, taken>> /\ scan.pc = "read"
    BY <1>1, <1>6 DEF ScanRead, DocInv, Reading, TypeOK
  <2>2. CASE disk[f] = Missing \/ <<f, disk[f]>> \in Unreadable
    BY <1>4, <1>6, <2>1, <2>2 DEF ScanRead
  <2>3. CASE ~(disk[f] = Missing \/ <<f, disk[f]>> \in Unreadable)
    <3>1. scan' = [scan EXCEPT !.todo = @ \ {f}, !.file = None, !.stat = Missing,
                               !.pending = pending, !.pc = ScanNext(scan.todo \ {f}, pending)]
      BY <1>6, <2>3 DEF ScanRead
    <3>2. /\ scan'.pc = ScanNext(scan.todo \ {f}, pending)
          /\ scan'.pending = pending /\ scan'.confirmed = scan.confirmed
      BY <1>2, <3>1 DEF Scans
    <3>3. scan'.pc # "read"
      BY <3>2 DEF ScanNext
    <3>4. scan.pending \in [Files -> Entries \cup {None}]
      BY <1>2 DEF Scans, Lists
    <3>5. /\ entry.stat <= entry.text /\ entry.text <= disk[f]
          /\ taken[f] <= entry.text
      BY <1>1, <2>1, <2>3, BoundAssumption
         DEF OrderInv, Order, DocInv, TypeOK, Versions, Missing
    <3>6. /\ pending[f] = entry
          /\ \A g \in Files \ {f} : pending[g] = scan.pending[g]
      BY <2>1, <3>4
    <3> HIDE DEF entry, pending, f
    <3>7. Order'
      BY <2>1, <3>2, <3>3, <3>5, <3>6 DEF OrderInv, Order
    <3>. QED
      BY <1>1, <2>1, <3>7 DEF OrderInv, ManifestConfirmed
  <2>. QED
    BY <2>2, <2>3
<1>7. ASSUME NEW G \in Groups, NEW ok \in SUBSET G, ScanPosted(G, ok)
      PROVE  OrderInv'
  <2>1. ok \in SUBSET Held(scan.pending)
    BY DEF Groups
  <2>2. /\ UNCHANGED <<disk, manifest>> /\ server' = Scanned(ok) /\ taken' = Taken(ok)
        /\ scan'.pc = "manifest" /\ scan'.pending = Without(scan.pending, G)
        /\ scan'.confirmed = Confirmed(G, ok)
    BY <1>2, <1>7 DEF ScanPosted, Scans
  <2>3. \A f \in Files :
          /\ scan'.pending[f] # None => f \notin ok /\ scan'.pending[f] = scan.pending[f]
          /\ scan'.confirmed[f] # None => f \in ok /\ scan'.confirmed[f] = scan.pending[f]
    BY <2>2 DEF Without, Confirmed
  <2>. QED
    BY <1>1, <2>1, <2>2, <2>3, PostKeepsOrder
<1>8. ASSUME NEW ok \in SUBSET Held(scan.pending), ScanUnanswered(ok)
      PROVE  OrderInv'
  <2>1. /\ UNCHANGED <<disk, manifest>> /\ server' = Scanned(ok) /\ taken' = Taken(ok)
        /\ scan' = ScanOff
    BY <1>8 DEF ScanUnanswered
  <2>2. /\ ScanOff.pc # "read"
        /\ \A f \in Files : ScanOff.pending[f] = None /\ ScanOff.confirmed[f] = None
    BY ListFacts DEF ScanOff
  <2>. QED
    BY <1>1, <2>1, <2>2, PostKeepsOrder
<1>9. CASE ScanManifest
  <2>1. /\ UNCHANGED <<disk, server, taken>> /\ scan'.pc = "ocr"
        /\ scan'.pending = scan.pending /\ scan'.confirmed = scan.confirmed
    BY <1>2, <1>9 DEF ScanManifest, Scans
  <2>2. Order'
    BY <2>1 DEF OrderInv, Order
  <2>3. ManifestConfirmed'
    BY <1>9, <2>1 DEF ScanManifest, OrderInv, Order, ManifestConfirmed
  <2>. QED
    BY <1>1, <2>2, <2>3 DEF OrderInv
<1>10. CASE ScanOcrQueue
  <2>1. /\ UNCHANGED <<disk, manifest, server, taken>> /\ scan'.pc = "extract"
        /\ scan'.pending = scan.pending /\ scan'.confirmed = scan.confirmed
    BY <1>2, <1>10 DEF ScanOcrQueue, Scans
  <2>. QED
    BY <1>1, <2>1, OrderKept
<1>11. CASE ScanExtractQueue
  <2>1. /\ UNCHANGED <<disk, manifest, server, taken>>
        /\ scan'.pc # "read"
        /\ scan'.pending = scan.pending /\ scan'.confirmed = Nothing
    BY <1>2, <1>11 DEF ScanExtractQueue, Scans, ScanNext
  <2>. QED
    BY <1>1, <2>1, ListFacts, OrderKept
<1>. QED
  BY <1>3, <1>5, <1>6, <1>7, <1>8, <1>9, <1>10, <1>11 DEF ScanStep

LEMMA OrderInit == Init => OrderInv
<1> SUFFICES ASSUME Init PROVE OrderInv
  OBVIOUS
<1>1. Order
  BY ListFacts, BoundAssumption DEF Init, Order, ScanOff, Missing
<1>2. ManifestConfirmed
  BY DEF Init, ManifestConfirmed
<1>. QED
  BY <1>1, <1>2, DocInvInit DEF OrderInv

LEMMA OrderStep == OrderInv /\ [Next]_vars => OrderInv'
BY ScanKeepsOrder, WorkersKeepOrder, OthersKeepOrder DEF Next

\* A file the manifest calls unchanged is one whose text the server has taken in that version
\* or a later one, for any number of files, edits, lost answers, failed items and kills.
THEOREM ManifestSound == Spec => []ManifestConfirmed
<1>1. OrderInv => ManifestConfirmed
  BY DEF OrderInv
<1>. QED
  BY OrderInit, OrderStep, <1>1, PTL DEF Spec

-----------------------------------------------------------------------------
\* The rest is about a PDF without a text layer that is still in its first version, on
\* which OCR does not throw.
Image(f) == disk[f] = 1 /\ <<f, 1>> \in ImageOnly \ OcrThrows

\* Whatever is held of it was taken from that version.
FirstOnly(f) ==
  /\ scan.pc = "read" /\ scan.file = f => scan.stat = 1
  /\ scan.pending[f] # None => scan.pending[f].stat = 1 /\ scan.pending[f].text = 1
  /\ scan.confirmed[f] # None => scan.confirmed[f].stat = 1 /\ scan.confirmed[f].text = 1
  /\ \A w \in Workers :
       /\ queue[w][f] # None => queue[w][f].stat = 1
       /\ work[w].todo[f] # None => work[w].todo[f].stat = 1
       /\ work[w].live[f] # None => work[w].live[f].stat = 1
  /\ work["ocr"].pc \in {"post", "hand", "drop"} /\ work["ocr"].file = f => work["ocr"].seen = 1

\* What a worker has taken from its queue is in its queue until the worker drops it.
StillQueued(f) ==
  \A w \in Workers :
    work[w].todo[f] # None \/ work[w].live[f] # None => queue[w][f] # None

\* Only OCR gives it a text, which means that OCR finds one and is not refused.
WasOcred(f) ==
  server[f] # None /\ server[f].stage = "text" =>
    <<f, 1>> \notin Blank /\ <<"ocr", f>> \notin Refused

\* Where a worker stands with it: OCR has handed it on before it drops it, and
\* extraction has its fields stored before it drops it.
InOrder(f) ==
  /\ work["ocr"].pc = "drop" /\ work["ocr"].file = f =>
       <<f, 1>> \in Blank \/ queue["extract"][f] # None
  /\ work["extract"].pc = "drop" /\ work["extract"].file = f => server[f].stage # "text"

\* The two workers are never under way at once, and one that opens entries has
\* checked them all.
OneWorker ==
  /\ work["ocr"].pc = "off" \/ work["extract"].pc = "off"
  /\ \A w \in Workers : work[w].pc \notin {"off", "check"} => work[w].todo = Nothing

Queued(f) ==
  <<"extract", f>> \notin Refused /\ server[f] # None /\ server[f].stage = "text"
    => \E w \in Workers : queue[w][f] # None

Kept(f) == FirstOnly(f) /\ StillQueued(f) /\ WasOcred(f) /\ InOrder(f) /\ Queued(f)
ImagesKept == \A f \in Files : Image(f) => Kept(f)
StrandInv == DocInv /\ OneWorker /\ ImagesKept

-----------------------------------------------------------------------------
\* The memory a worker is left with when it is done with g.
LEMMA DoneShape ==
  ASSUME DocInv, NEW w \in Workers, NEW g, Done(w, g), work[w].todo = Nothing
  PROVE  /\ work' = [work EXCEPT ![w] = work'[w]]
         /\ work'[w].pc \in {"off", "run"} /\ work'[w].todo = Nothing
         /\ work'[w].pc = "off" => work'[w].live = Nothing
         /\ \A f \in Files :
              work'[w].live[f] # None => f # g /\ work'[w].live[f] = work[w].live[f]
<1>1. PICK live : live = Without(work[w].live, {g})
  OBVIOUS
<1>2. PICK u : u = [work[w] EXCEPT !.pc = "run", !.live = live, !.file = None, !.seen = Missing]
  OBVIOUS
<1>3. work' = [work EXCEPT ![w] = IF live = Nothing THEN WorkOff ELSE u]
  BY <1>1, <1>2 DEF Done
<1>4. work'[w] = (IF live = Nothing THEN WorkOff ELSE u)
  BY <1>3 DEF DocInv, TypeOK
<1>5. \A f \in Files : live[f] # None => f # g /\ live[f] = work[w].live[f]
  BY <1>1 DEF Without
<1>6. u.pc = "run" /\ u.todo = Nothing /\ u.live = live
  BY <1>2 DEF DocInv, TypeOK
<1>7. WorkOff.pc = "off" /\ WorkOff.todo = Nothing /\ WorkOff.live = Nothing
  BY DEF WorkOff
<1>8. \A f \in Files : Nothing[f] = None
  BY DEF Nothing
<1>. QED
  BY <1>3, <1>4, <1>5, <1>6, <1>7, <1>8

\* The memory a check of g leaves behind.
LEMMA CheckShape ==
  ASSUME DocInv, NEW w \in Workers, NEW g \in Files, WorkCheck(w, g)
  PROVE  /\ work' = [work EXCEPT ![w] = work'[w]]
         /\ work'[w].pc \in {"off", "check", "run"}
         /\ work'[w].pc = "run" => work'[w].todo = Nothing
         /\ work'[w].pc = "off" => work'[w].todo = Nothing /\ work'[w].live = Nothing
         /\ \A f \in Files :
              /\ work'[w].todo[f] # None => f # g /\ work'[w].todo[f] = work[w].todo[f]
              /\ work'[w].live[f] # None =>
                   \/ work'[w].live[f] = work[w].live[f]
                   \/ /\ f = g /\ work'[w].live[f] = work[w].todo[f]
                      /\ work[w].todo[f] # None /\ work[w].todo[f].stat = disk[f]
<1>1. PICK todo : todo = Without(work[w].todo, {g})
  OBVIOUS
<1>2. PICK live : live = IF work[w].todo[g].stat = disk[g]
                         THEN [work[w].live EXCEPT ![g] = work[w].todo[g]]
                         ELSE work[w].live
  OBVIOUS
<1>3. PICK a, b : /\ a = [work[w] EXCEPT !.todo = todo, !.live = live]
                  /\ b = [work[w] EXCEPT !.pc = "run", !.todo = todo, !.live = live]
  OBVIOUS
<1>4. /\ work[w].pc = "check" /\ work[w].todo[g] # None
      /\ work' = [work EXCEPT ![w] = IF todo # Nothing THEN a
                                     ELSE IF live # Nothing THEN b ELSE WorkOff]
  BY <1>1, <1>2, <1>3 DEF WorkCheck
<1>5. work'[w] = IF todo # Nothing THEN a ELSE IF live # Nothing THEN b ELSE WorkOff
  BY <1>4 DEF DocInv, TypeOK
<1>6. \A f \in Files : todo[f] # None => f # g /\ todo[f] = work[w].todo[f]
  BY <1>1 DEF Without
<1>7. work[w].live \in [Files -> Entries \cup {None}]
  BY DEF DocInv, TypeOK, Lists
<1>8. \A f \in Files :
        live[f] # None => \/ live[f] = work[w].live[f]
                          \/ /\ f = g /\ live[f] = work[w].todo[f]
                             /\ work[w].todo[f] # None /\ work[w].todo[f].stat = disk[f]
  BY <1>2, <1>4, <1>7
<1>9. /\ a.pc = "check" /\ a.todo = todo /\ a.live = live
      /\ b.pc = "run" /\ b.todo = todo /\ b.live = live
  BY <1>3, <1>4 DEF DocInv, TypeOK
<1>10. WorkOff.pc = "off" /\ WorkOff.todo = Nothing /\ WorkOff.live = Nothing
  BY DEF WorkOff
<1>11. \A f \in Files : Nothing[f] = None
  BY DEF Nothing
<1>12. CASE todo # Nothing
  BY <1>4, <1>5, <1>6, <1>8, <1>9, <1>12
<1>13. CASE todo = Nothing /\ live # Nothing
  BY <1>4, <1>5, <1>8, <1>9, <1>11, <1>13
<1>14. CASE todo = Nothing /\ live = Nothing
  BY <1>4, <1>5, <1>10, <1>11, <1>14
<1>. QED
  BY <1>12, <1>13, <1>14

\* Staggered workers stay apart, and what is opened was checked.
LEMMA OneWorkerStep ==
  ASSUME DocInv, OneWorker, Staggered, [Next]_vars
  PROVE  OneWorker'
<1>1. CASE UNCHANGED work
  BY <1>1 DEF OneWorker
<1>2. ASSUME NEW w \in Workers, NEW u, work' = [work EXCEPT ![w] = u],
             work[w].pc # "off" \/ \A v \in Workers : work[v].pc = "off",
             u.pc \notin {"off", "check"} => u.todo = Nothing
      PROVE  OneWorker'
  <2>1. work'[w] = u /\ \A v \in Workers \ {w} : work'[v] = work[v]
    BY <1>2 DEF DocInv, TypeOK
  <2>2. \A v \in Workers \ {w} : work'[v].pc = "off"
    BY <1>2, <2>1 DEF OneWorker, Workers
  <2>. QED
    BY <1>2, <2>1, <2>2 DEF OneWorker, Workers
<1>3. ASSUME NEW w \in Workers, WorkStart(w) PROVE OneWorker'
  <2> DEFINE u == [work[w] EXCEPT !.pc = "check", !.todo = queue[w]]
  <2>1. work' = [work EXCEPT ![w] = u] /\ \A v \in Workers : work[v].pc = "off"
    BY <1>3 DEF WorkStart, DocInv, TypeOK
  <2>2. u.pc = "check"
    BY DEF DocInv, TypeOK
  <2> HIDE DEF u
  <2>. QED
    BY <1>2, <2>1, <2>2
<1>4. ASSUME NEW w \in Workers, NEW g \in Files, WorkCheck(w, g) PROVE OneWorker'
  <2>1. /\ work' = [work EXCEPT ![w] = work'[w]]
        /\ work'[w].pc \notin {"off", "check"} => work'[w].todo = Nothing
    BY <1>4, CheckShape
  <2>2. work[w].pc # "off"
    BY <1>4 DEF WorkCheck
  <2>. QED
    BY <1>2, <2>1, <2>2
<1>5. ASSUME NEW w \in Workers, NEW g, Done(w, g), work[w].pc \notin {"off", "check"}
      PROVE  OneWorker'
  <2>1. work[w].todo = Nothing
    BY <1>5 DEF OneWorker
  <2>. QED
    BY <1>2, <1>5, <2>1, DoneShape
<1>6. ASSUME NEW w \in Workers, NEW p, NEW h, NEW v,
             work' = [work EXCEPT ![w].pc = p, ![w].file = h, ![w].seen = v]
             \/ work' = [work EXCEPT ![w].pc = p],
             work[w].pc \notin {"off", "check"}
      PROVE  OneWorker'
  <2>1. work[w] \in Works /\ work[w].todo = Nothing
    BY <1>6 DEF DocInv, TypeOK, OneWorker, Works
  <2>2. PICK u : work' = [work EXCEPT ![w] = u]
                 /\ (u = [work[w] EXCEPT !.pc = p, !.file = h, !.seen = v]
                     \/ u = [work[w] EXCEPT !.pc = p])
    BY <1>6, <2>1 DEF Works
  <2>3. u.todo = Nothing
    BY <2>1, <2>2 DEF Works
  <2>. QED
    BY <1>2, <1>6, <2>2, <2>3
<1>7. ASSUME NEW w \in Workers, work' = [work EXCEPT ![w] = WorkOff] PROVE OneWorker'
  <2>1. WorkOff.pc = "off"
    BY DEF WorkOff
  <2>2. \A v \in Workers : work'[v] = work[v] \/ work'[v] = WorkOff
    BY <1>7 DEF DocInv, TypeOK
  <2>. QED
    BY <2>1, <2>2 DEF OneWorker, Workers
<1>8. ASSUME NEW w \in Workers, WorkStep(w) PROVE OneWorker'
  <2>1. ASSUME NEW f \in Files, WorkOpen(w, f) PROVE OneWorker'
    <3>1. PICK v : v = Source(w, f)
      OBVIOUS
    <3>2. /\ work[w].pc = "run"
          /\ work' = [work EXCEPT ![w].pc = "post", ![w].file = f, ![w].seen = v]
      BY <2>1, <3>1 DEF WorkOpen
    <3>. QED
      BY <1>6, <3>2
  <2>2. CASE WorkAccepted(w)
    BY <1>6, <2>2 DEF WorkAccepted
  <2>3. CASE WorkRefused(w) \/ WorkDrop(w)
    BY <1>5, <2>3 DEF WorkRefused, WorkDrop
  <2>4. CASE w = "ocr" /\ HandOver
    BY <1>6, <2>4 DEF HandOver
  <2>5. ASSUME NEW g \in Files, w = "ocr", CannotOcr(g) PROVE OneWorker'
    BY <1>5, <2>5 DEF CannotOcr
  <2>6. CASE WorkStops(w)
    BY <1>7, <2>6 DEF WorkStops
  <2>. QED
    BY <1>4, <1>8, <2>1, <2>2, <2>3, <2>4, <2>5, <2>6 DEF WorkStep, WorkOpens, WorkAnswered
<1>9. CASE Crash
  <2>1. CASE ScanKilled
    BY <1>1, <2>1 DEF ScanKilled
  <2>2. CASE \E w \in Workers : WorkKilled(w)
    BY <1>7, <2>2 DEF WorkKilled
  <2>. QED
    BY <1>9, <2>1, <2>2 DEF Crash
<1>10. ASSUME ScanStart \/ ScanStep \/ \E f \in Files : Change(f) PROVE UNCHANGED work
  BY <1>10 DEF ScanStart, ScanStep, ScanStat, ScanRead, ScanPosted, ScanUnanswered,
               ScanManifest, ScanOcrQueue, ScanExtractQueue, Change
<1>. QED
  BY <1>1, <1>3, <1>8, <1>9, <1>10 DEF Next, vars

-----------------------------------------------------------------------------
\* The other worker is at rest and stays there.
Alone(w) == \A v \in Workers \ {w} : work[v].pc = "off" /\ work'[v] = work[v]

\* What a step of worker w has to show of f.
LEMMA WorkerKeeps ==
  ASSUME DocInv, NEW f \in Files, NEW w \in Workers, Kept(f), UNCHANGED scan, Alone(w),
         \A v \in Workers \ {w} : queue[v][f] # None => queue'[v][f] # None,
         \A v \in Workers : queue'[v][f] # None => queue'[v][f].stat = 1,
         work'[w].todo[f] # None => work'[w].todo[f].stat = 1 /\ queue'[w][f] # None,
         work'[w].live[f] # None => work'[w].live[f].stat = 1 /\ queue'[w][f] # None,
         work'[w].pc \in {"post", "hand", "drop"} /\ work'[w].file = f =>
           IF w = "ocr"
           THEN /\ work'[w].seen = 1
                /\ work'[w].pc = "drop" => <<f, 1>> \in Blank \/ queue'["extract"][f] # None
           ELSE work'[w].pc = "drop" => server'[f].stage # "text",
         WasOcred(f)', Queued(f)'
  PROVE  Kept(f)'
<1>1. \A v \in Workers : v = w \/ (work'[v] = work[v] /\ work'[v].pc = "off")
  BY DEF Alone
<1>2. "ocr" \in Workers /\ "extract" \in Workers
  BY DEF Workers
<1>3. FirstOnly(f)'
  BY <1>1, <1>2 DEF Kept, FirstOnly
<1>4. StillQueued(f)'
  BY <1>1 DEF Kept, StillQueued
<1>5. InOrder(f)'
  BY <1>1, <1>2 DEF InOrder
<1>. QED
  BY <1>3, <1>4, <1>5 DEF Kept

\* A worker that neither posts nor touches the entries of f keeps what holds of f.
LEMMA QuietKeeps ==
  ASSUME DocInv, NEW f \in Files, NEW w \in Workers, Kept(f), UNCHANGED <<scan, server>>,
         Alone(w), \A v \in Workers : queue'[v][f] = queue[v][f],
         work'[w].pc \in {"off", "check", "run"},
         work'[w].todo[f] # None => work'[w].todo[f] \in {work[w].todo[f], queue[w][f]},
         work'[w].live[f] # None => work'[w].live[f] \in {work[w].live[f], work[w].todo[f]}
  PROVE  Kept(f)'
<1>1. \A v \in Workers : queue'[v][f] # None => queue'[v][f].stat = 1
  BY DEF Kept, FirstOnly
<1>2. work'[w].todo[f] # None => work'[w].todo[f].stat = 1 /\ queue'[w][f] # None
  BY DEF Kept, FirstOnly, StillQueued
<1>3. work'[w].live[f] # None => work'[w].live[f].stat = 1 /\ queue'[w][f] # None
  BY DEF Kept, FirstOnly, StillQueued
<1>4. WasOcred(f)' /\ Queued(f)'
  BY DEF Kept, WasOcred, Queued
<1>. QED
  BY <1>1, <1>2, <1>3, <1>4, WorkerKeeps

\* A worker that drops f has left nothing to do for it.
LEMMA DropKeeps ==
  ASSUME DocInv, OneWorker, NEW f \in Files, NEW w \in Workers, Kept(f),
         UNCHANGED <<scan, server>>, NEW g \in Files, Drop(w, g), Done(w, g),
         work[w].pc \notin {"off", "check"},
         g = f => \/ <<"extract", f>> \in Refused
                  \/ server[f] = None \/ server[f].stage # "text"
                  \/ w = "ocr" /\ queue["extract"][f] # None
  PROVE  Kept(f)'
<1>1. work[w].todo = Nothing
  BY DEF OneWorker
<1>2. /\ work' = [work EXCEPT ![w] = work'[w]]
      /\ work'[w].pc \in {"off", "run"} /\ work'[w].todo = Nothing
      /\ work'[w].live[f] # None => f # g /\ work'[w].live[f] = work[w].live[f]
  BY <1>1, DoneShape
<1>3. Alone(w)
  BY <1>2 DEF Alone, OneWorker, Workers, DocInv, TypeOK
<1>4. Nothing[f] = None
  BY DEF Nothing
<1>5. /\ \A v \in Workers \ {w} : queue'[v] = queue[v]
      /\ queue'[w][f] = IF f = g THEN None ELSE queue[w][f]
  BY DEF Drop, DocInv, TypeOK, Lists
<1>6. CASE g # f
  BY <1>2, <1>3, <1>4, <1>5, <1>6, QuietKeeps
<1>7. CASE g = f
  <2>1. \A v \in Workers : queue'[v][f] # None => queue'[v][f].stat = 1
    BY <1>5, <1>7 DEF Kept, FirstOnly
  <2>2. WasOcred(f)'
    BY DEF Kept, WasOcred
  <2>3. Queued(f)'
    BY <1>5, <1>7 DEF Queued, Workers
  <2>. QED
    BY <1>2, <1>3, <1>4, <1>5, <1>7, <2>1, <2>2, <2>3, WorkerKeeps
<1>. QED
  BY <1>6, <1>7

\* The text of f comes from OCR, and its fields from extraction.
LEMMA PostKeeps ==
  ASSUME DocInv, OneWorker, NEW f \in Files, Image(f), NEW w \in Workers, Kept(f),
         UNCHANGED <<scan, queue>>, server' = Worked(w), work[w].pc = "post",
         <<w, work[w].file>> \notin Refused,
         \/ work' = [work EXCEPT ![w].pc = AfterPost(w)]
         \/ work' = [work EXCEPT ![w] = WorkOff]
  PROVE  Kept(f)'
<1>1. PICK g, v : g = work[w].file /\ v = work[w].seen
  OBVIOUS
<1>2. g \in Files /\ work[w].live[g] # None /\ work[w].todo = Nothing
  BY <1>1 DEF DocInv, TypeOK, OneWorker
<1>3. Nothing[f] = None /\ WorkOff.todo = Nothing /\ WorkOff.live = Nothing /\ WorkOff.pc = "off"
  BY DEF Nothing, WorkOff
<1>4. Alone(w)
  BY DEF Alone, OneWorker, Workers, DocInv, TypeOK
<1>5. \/ /\ work'[w].pc = AfterPost(w) /\ work'[w].todo = Nothing
         /\ work'[w].live = work[w].live /\ work'[w].file = g /\ work'[w].seen = v
      \/ work'[w] = WorkOff
  BY <1>1, <1>2 DEF DocInv, TypeOK
<1>6. server'[f] = server[f] \/ g = f
  BY <1>1, <1>2 DEF Worked, DocInv, TypeOK
<1>7. g = f /\ w = "ocr" => v = 1
  BY <1>1 DEF Kept, FirstOnly
<1>8. server[g] # None
  BY <1>1, <1>2 DEF DocInv, Served
<1>9. g = f => /\ server'[f] # None
               /\ server'[f].stage = IF w = "extract" THEN "extracted"
                                     ELSE IF <<f, v>> \in Blank THEN "header" ELSE "text"
  <2>1. PICK s : s = IF w = "extract" THEN "extracted"
                     ELSE IF <<g, v>> \in Blank THEN "header" ELSE "text"
    OBVIOUS
  <2>2. server' = [server EXCEPT ![g].text = v, ![g].stage = s]
    BY <1>1, <2>1 DEF Worked
  <2>3. server[g] \in Artifacts
    BY <1>2, <1>8 DEF DocInv, TypeOK
  <2>4. v \in Versions /\ s \in {"header", "text", "extracted"}
    BY <1>1, <2>1 DEF DocInv, TypeOK
  <2>5. server'[g] = [server[g] EXCEPT !.text = v, !.stage = s]
    BY <1>2, <2>2 DEF DocInv, TypeOK
  <2>6. server'[g] \in Artifacts /\ server'[g].stage = s
    BY <2>3, <2>4, <2>5 DEF Artifacts
  <2>. QED
    BY <2>1, <2>6, NoneAssumption
<1>10. WasOcred(f)'
  BY <1>1, <1>6, <1>7, <1>9 DEF Kept, WasOcred, Workers
<1>11. g = f => queue[w][f] # None
  BY <1>2 DEF Kept, StillQueued
<1>12. Queued(f)'
  BY <1>6, <1>11 DEF Kept, Queued
<1>13. \A u \in Workers : queue[u][f] # None => queue[u][f].stat = 1
  BY DEF Kept, FirstOnly
<1>14. /\ work'[w].todo[f] = None
       /\ work'[w].live[f] # None => work'[w].live[f].stat = 1 /\ queue'[w][f] # None
  BY <1>3, <1>5 DEF Kept, FirstOnly, StillQueued
<1>15. ASSUME work'[w].pc \in {"post", "hand", "drop"}, work'[w].file = f
       PROVE  /\ g = f /\ work'[w].seen = v
              /\ work'[w].pc = IF w = "ocr" /\ <<f, v>> \notin Blank THEN "hand" ELSE "drop"
  <2>1. work'[w].pc # "off"
    BY <1>15
  <2>. QED
    BY <1>1, <1>3, <1>5, <1>15, <2>1 DEF AfterPost
<1>16. ASSUME work'[w].pc \in {"post", "hand", "drop"}, work'[w].file = f
       PROVE  IF w = "ocr"
              THEN /\ work'[w].seen = 1
                   /\ work'[w].pc = "drop" =>
                        <<f, 1>> \in Blank \/ queue'["extract"][f] # None
              ELSE work'[w].pc = "drop" => server'[f].stage # "text"
  <2>1. CASE w = "ocr"
    BY <1>7, <1>15, <1>16, <2>1
  <2>2. CASE w = "extract"
    BY <1>9, <1>15, <1>16, <2>2
  <2>. QED
    BY <2>1, <2>2 DEF Workers
<1>. QED
  BY <1>4, <1>10, <1>12, <1>13, <1>14, <1>16, WorkerKeeps

\* Each step of a worker keeps what holds of f.
LEMMA WorkKeeps ==
  ASSUME DocInv, OneWorker, NEW f \in Files, Image(f), NEW w \in Workers, Kept(f),
         WorkStep(w)
  PROVE  Kept(f)'
<1>1. ASSUME NEW g \in Files, WorkCheck(w, g) PROVE Kept(f)'
  <2>0. work[w].pc = "check"
    BY <1>1 DEF WorkCheck
  <2>1. /\ work' = [work EXCEPT ![w] = work'[w]] /\ work[w].pc = "check"
        /\ work'[w].pc \in {"off", "check", "run"}
        /\ work'[w].todo[f] # None => work'[w].todo[f] = work[w].todo[f]
        /\ work'[w].live[f] # None =>
             work'[w].live[f] = work[w].live[f] \/ work'[w].live[f] = work[w].todo[f]
    BY <1>1, <2>0, CheckShape
  <2>2. Alone(w)
    BY <2>1 DEF Alone, OneWorker, Workers, DocInv, TypeOK
  <2>3. g = f => work[w].todo[g].stat = disk[g]
    BY <1>1 DEF WorkCheck, Kept, FirstOnly, Image
  <2>4. \A v \in Workers : queue'[v][f] = queue[v][f]
    <3>1. UNCHANGED queue \/ (g # f /\ Drop(w, g))
      BY <1>1, <2>3 DEF WorkCheck
    <3>. QED
      BY <3>1 DEF Drop, DocInv, TypeOK, Lists
  <2>. QED
    BY <1>1, <2>1, <2>2, <2>4, QuietKeeps DEF WorkCheck
<1>2. ASSUME NEW g \in Files, w = "ocr", CannotOcr(g) PROVE Kept(f)'
  <2>1. g # f
    <3>1. disk[f] # Missing
      BY DEF Image, Missing
    <3>2. ~(work["ocr"].pc = "post" /\ work["ocr"].file = f
            /\ <<f, work["ocr"].seen>> \in OcrThrows)
      BY DEF Image, Kept, FirstOnly
    <3>. QED
      BY <1>2, <3>1, <3>2 DEF CannotOcr
  <2>2. work[w].pc \notin {"off", "check"}
    BY <1>2 DEF CannotOcr
  <2>. QED
    BY <1>2, <2>1, <2>2, DropKeeps DEF CannotOcr
<1>3. ASSUME NEW g \in Files, WorkOpen(w, g) PROVE Kept(f)'
  <2>1. PICK v : v = Source(w, g)
    OBVIOUS
  <2>2. /\ work[w].pc = "run"
        /\ work' = [work EXCEPT ![w].pc = "post", ![w].file = g, ![w].seen = v]
        /\ UNCHANGED <<queue, server, scan>>
    BY <1>3, <2>1 DEF WorkOpen
  <2>3. /\ work'[w].pc = "post" /\ work'[w].file = g /\ work'[w].seen = v
        /\ work'[w].todo = work[w].todo /\ work'[w].live = work[w].live
    BY <2>2 DEF DocInv, TypeOK
  <2>4. Alone(w)
    BY <2>2 DEF Alone, OneWorker, Workers, DocInv, TypeOK
  <2>5. w = "ocr" /\ g = f => v = 1
    BY <2>1 DEF Source, Image
  <2>6. WasOcred(f)' /\ Queued(f)'
    BY <2>2 DEF Kept, WasOcred, Queued
  <2>7. /\ \A u \in Workers : queue'[u][f] # None => queue'[u][f].stat = 1
        /\ work'[w].todo[f] # None => work'[w].todo[f].stat = 1 /\ queue'[w][f] # None
        /\ work'[w].live[f] # None => work'[w].live[f].stat = 1 /\ queue'[w][f] # None
    BY <2>2, <2>3 DEF Kept, FirstOnly, StillQueued
  <2>. QED
    BY <2>2, <2>3, <2>4, <2>5, <2>6, <2>7, WorkerKeeps
<1>4. CASE WorkAccepted(w)
  BY <1>4, PostKeeps DEF WorkAccepted
<1>5. CASE WorkRefused(w)
  <2>1. work[w].pc = "post" /\ <<w, work[w].file>> \in Refused /\ work[w].file \in Files
    BY <1>5 DEF WorkRefused, DocInv, TypeOK
  <2>2. work[w].file = f => \/ <<"extract", f>> \in Refused
                            \/ server[f] = None \/ server[f].stage # "text"
    BY <2>1 DEF Kept, WasOcred, Workers
  <2>. QED
    BY <1>5, <2>1, <2>2, DropKeeps DEF WorkRefused
<1>6. CASE WorkStops(w)
  <2>1. work[w].pc \in {"run", "post"} /\ work' = [work EXCEPT ![w] = WorkOff]
    BY <1>6 DEF WorkStops
  <2>2. CASE UNCHANGED server
    <3>1. work'[w] = WorkOff /\ Alone(w)
      BY <2>1 DEF Alone, OneWorker, Workers, DocInv, TypeOK
    <3>2. WorkOff.pc = "off" /\ WorkOff.todo[f] = None /\ WorkOff.live[f] = None
      BY DEF WorkOff, Nothing
    <3>. QED
      BY <1>6, <2>2, <3>1, <3>2, QuietKeeps DEF WorkStops
  <2>3. CASE work[w].pc = "post" /\ <<w, work[w].file>> \notin Refused /\ server' = Worked(w)
    BY <1>6, <2>1, <2>3, PostKeeps DEF WorkStops
  <2>. QED
    BY <1>6, <2>2, <2>3 DEF WorkStops
<1>7. CASE WorkDrop(w)
  <2>1. work[w].pc = "drop" /\ work[w].file \in Files
    BY <1>7 DEF WorkDrop, DocInv, TypeOK
  <2>2. work[w].file = f => \/ server[f] = None \/ server[f].stage # "text"
                            \/ w = "ocr" /\ queue["extract"][f] # None
    BY <2>1 DEF Kept, InOrder, WasOcred, Workers
  <2>. QED
    BY <1>7, <2>1, <2>2, DropKeeps DEF WorkDrop
<1>8. CASE w = "ocr" /\ HandOver
  <2>1. PICK g : g = work[w].file
    OBVIOUS
  <2>2. /\ work[w].pc = "hand" /\ g \in Files /\ work[w].live[g] # None
        /\ work' = [work EXCEPT ![w].pc = "drop"] /\ UNCHANGED <<scan, server>>
    BY <1>8, <2>1 DEF HandOver, DocInv, TypeOK
  <2>3. /\ work'[w].pc = "drop" /\ work'[w].file = g /\ work'[w].seen = work[w].seen
        /\ work'[w].todo = work[w].todo /\ work'[w].live = work[w].live
    BY <2>1, <2>2 DEF DocInv, TypeOK
  <2>4. Alone(w)
    BY <2>2 DEF Alone, OneWorker, Workers, DocInv, TypeOK
  <2>5. PICK e : e = [stat |-> work["ocr"].live[g].stat, text |-> work["ocr"].seen]
    OBVIOUS
  <2>6. queue' = [queue EXCEPT !["extract"][g] = e]
    BY <1>8, <2>1, <2>5 DEF HandOver
  <2>7. e # None
    BY <2>2, <2>5, <1>8, <2>1, NoneAssumption DEF DocInv, TypeOK, Lists, Entries, Versions, Missing
  <2>8. /\ queue'["ocr"] = queue["ocr"]
        /\ queue'["extract"][f] = IF g = f THEN e ELSE queue["extract"][f]
    BY <2>2, <2>6 DEF DocInv, TypeOK, Lists, Workers
  <2>9. g = f => e.stat = 1 /\ work[w].seen = 1
    BY <1>8, <2>1, <2>2, <2>5 DEF Kept, FirstOnly, Workers
  <2>10. \A v \in Workers : /\ queue[v][f] # None => queue'[v][f] # None
                            /\ queue'[v][f] # None => queue'[v][f].stat = 1
    BY <2>7, <2>8, <2>9 DEF Kept, FirstOnly, Workers
  <2>11. WasOcred(f)' /\ Queued(f)'
    BY <2>2, <2>10 DEF Kept, WasOcred, Queued
  <2>12. /\ work'[w].todo[f] # None => work'[w].todo[f].stat = 1 /\ queue'[w][f] # None
         /\ work'[w].live[f] # None => work'[w].live[f].stat = 1 /\ queue'[w][f] # None
    BY <2>3, <2>10 DEF Kept, FirstOnly, StillQueued
  <2>13. g = f => queue'["extract"][f] # None
    BY <2>7, <2>8
  <2>. QED
    BY <1>8, <2>2, <2>3, <2>4, <2>9, <2>10, <2>11, <2>12, <2>13, WorkerKeeps
<1>. QED
  BY <1>1, <1>2, <1>3, <1>4, <1>5, <1>6, <1>7, <1>8 DEF WorkStep, WorkOpens, WorkAnswered

-----------------------------------------------------------------------------
\* What a step of the scan has to show of f: it queues but never removes it, and
\* what it posts has no text.
LEMMA ScannerKeeps ==
  ASSUME DocInv, NEW f \in Files, Kept(f), UNCHANGED work,
         \A w \in Workers : \/ queue'[w][f] = queue[w][f]
                            \/ queue'[w][f] # None /\ queue'[w][f].stat = 1,
         server'[f] = server[f] \/ (server'[f] # None /\ server'[f].stage = "header"),
         scan'.pc = "read" /\ scan'.file = f => scan'.stat = 1,
         scan'.pending[f] # None => scan'.pending[f].stat = 1 /\ scan'.pending[f].text = 1,
         scan'.confirmed[f] # None => scan'.confirmed[f].stat = 1 /\ scan'.confirmed[f].text = 1
  PROVE  Kept(f)'
<1>1. FirstOnly(f)'
  BY DEF Kept, FirstOnly
<1>2. \A w \in Workers : queue[w][f] # None => queue'[w][f] # None
  OBVIOUS
<1>3. StillQueued(f)'
  BY <1>2 DEF Kept, StillQueued
<1>4. WasOcred(f)'
  BY DEF Kept, WasOcred
<1>5. InOrder(f)'
  BY <1>2 DEF Kept, InOrder, Workers
<1>6. Queued(f)'
  BY <1>2 DEF Kept, Queued
<1>. QED
  BY <1>1, <1>3, <1>4, <1>5, <1>6 DEF Kept

LEMMA ScanKeeps ==
  ASSUME DocInv, NEW f \in Files, Image(f), Kept(f), ScanStart \/ ScanStep
  PROVE  Kept(f)'
<1> DEFINE Own(l) == l[f] # None => l[f].stat = 1 /\ l[f].text = 1
<1>1. Own(scan.pending) /\ Own(scan.confirmed) /\ Own(Nothing)
  BY DEF Kept, FirstOnly, Nothing
<1>2. scan.pc = "read" /\ scan.file = f => scan.stat = 1
  BY DEF Kept, FirstOnly
<1>3. \A l, S : Own(l) => Own(Without(l, S))
  BY DEF Without
<1>4. ASSUME UNCHANGED <<work, queue, server>>, Own(scan'.pending), Own(scan'.confirmed),
             scan'.pc = "read" /\ scan'.file = f => scan'.stat = 1
      PROVE  Kept(f)'
  BY <1>4, ScannerKeeps
<1>5. CASE ScanStart
  BY <1>1, <1>4, <1>5 DEF ScanStart, DocInv, TypeOK
<1>6. ASSUME NEW g, Passed(g), UNCHANGED <<work, queue, server>> PROVE Kept(f)'
  <2>1. PICK next : next = ScanNext(scan.todo \ {g}, scan.pending)
    OBVIOUS
  <2>2. next # "read"
    BY <2>1, ScanNextFacts
  <2>3. scan' = [scan EXCEPT !.todo = @ \ {g}, !.file = None, !.stat = Missing, !.pc = next]
    BY <1>6, <2>1 DEF Passed
  <2>4. scan'.pc = next /\ scan'.pending = scan.pending /\ scan'.confirmed = scan.confirmed
    BY <2>3 DEF DocInv, TypeOK
  <2>. QED
    BY <1>1, <1>4, <1>6, <2>2, <2>4
<1>7. ASSUME NEW g \in Files, ScanStat(g) PROVE Kept(f)'
  <2>1. CASE disk[g] = Missing \/ Unchanged(g)
    BY <1>6, <1>7, <2>1 DEF ScanStat
  <2>2. CASE ~(disk[g] = Missing \/ Unchanged(g))
    <3>1. /\ scan'.pending = scan.pending /\ scan'.confirmed = scan.confirmed
          /\ scan'.file = g /\ scan'.stat = disk[g] /\ UNCHANGED <<work, queue, server>>
      BY <1>7, <2>2 DEF ScanStat, DocInv, TypeOK
    <3>. QED
      BY <1>1, <1>4, <3>1 DEF Image
  <2>. QED
    BY <2>1, <2>2
<1>8. CASE ScanRead
  <2>1. PICK g : g = scan.file
    OBVIOUS
  <2>2. CASE disk[g] = Missing \/ <<g, disk[g]>> \in Unreadable
    BY <1>6, <1>8, <2>1, <2>2 DEF ScanRead
  <2>3. CASE ~(disk[g] = Missing \/ <<g, disk[g]>> \in Unreadable)
    <3>1. PICK e, pending : /\ e = [stat |-> scan.stat, text |-> disk[g]]
                            /\ pending = [scan.pending EXCEPT ![g] = e]
      OBVIOUS
    <3>2. PICK next : next = ScanNext(scan.todo \ {g}, pending)
      OBVIOUS
    <3>3. next # "read"
      BY <3>2, ScanNextFacts
    <3>4. scan' = [scan EXCEPT !.todo = @ \ {g}, !.file = None, !.stat = Missing,
                               !.pending = pending, !.pc = next]
      BY <1>8, <2>1, <2>3, <3>1, <3>2 DEF ScanRead
    <3>5. scan'.pc = next /\ scan'.pending = pending /\ scan'.confirmed = scan.confirmed
      BY <3>4 DEF DocInv, TypeOK
    <3>6. Own(pending)
      BY <1>1, <1>2, <1>8, <2>1, <3>1 DEF ScanRead, Image, DocInv, TypeOK, Lists
    <3>. QED
      BY <1>1, <1>4, <1>8, <3>3, <3>5, <3>6 DEF ScanRead
  <2>. QED
    BY <2>2, <2>3
<1>9. ASSUME NEW ok \in SUBSET Held(scan.pending)
      PROVE  Scanned(ok)[f] = server[f]
             \/ (Scanned(ok)[f] # None /\ Scanned(ok)[f].stage = "header")
  <2>1. CASE f \notin ok
    BY <2>1, ScannedFacts
  <2>2. CASE f \in ok
    <3>1. scan.pending[f].text = 1
      BY <1>1, <2>2 DEF Held
    <3>. QED
      BY <2>2, <3>1, ScannedFacts DEF Scanned, Image
  <2>. QED
    BY <2>1, <2>2
<1>10. ASSUME NEW G \in Groups, NEW ok \in SUBSET G, ScanPosted(G, ok) PROVE Kept(f)'
  <2>1. ok \in SUBSET Held(scan.pending)
    BY DEF Groups
  <2>2. /\ scan'.pc = "manifest" /\ scan'.pending = Without(scan.pending, G)
        /\ scan'.confirmed = Without(scan.pending, Files \ ok)
    BY <1>10 DEF ScanPosted, Confirmed, DocInv, TypeOK
  <2>3. Own(scan'.pending) /\ Own(scan'.confirmed)
    BY <1>1, <1>3, <2>2
  <2>. QED
    BY <1>9, <1>10, <2>1, <2>2, <2>3, ScannerKeeps DEF ScanPosted
<1>11. ASSUME NEW ok \in SUBSET Held(scan.pending), ScanUnanswered(ok) PROVE Kept(f)'
  <2>1. scan'.pc = "off" /\ scan'.pending = Nothing /\ scan'.confirmed = Nothing
    BY <1>11 DEF ScanUnanswered, ScanOff
  <2>. QED
    BY <1>1, <1>9, <1>11, <2>1, ScannerKeeps DEF ScanUnanswered
<1>12. CASE ScanManifest
  BY <1>1, <1>4, <1>12 DEF ScanManifest, DocInv, TypeOK
<1>13. CASE ScanOcrQueue
  <2>1. /\ scan'.pc = "extract" /\ scan'.pending = scan.pending
        /\ scan'.confirmed = scan.confirmed
    BY <1>13 DEF ScanOcrQueue, DocInv, TypeOK
  <2>2. scan.confirmed[f] # None => NeedsOcr(f)
    BY <1>1 DEF NeedsOcr, Image
  <2>3. queue'["extract"] = queue["extract"]
    BY <1>13 DEF ScanOcrQueue, DocInv, TypeOK, Workers
  <2>4. queue'["ocr"][f] = IF scan.confirmed[f] = None THEN queue["ocr"][f]
                           ELSE [stat |-> scan.confirmed[f].stat, text |-> Missing]
    BY <1>13, <2>2 DEF ScanOcrQueue, DocInv, TypeOK, Workers
  <2>5. [stat |-> scan.confirmed[f].stat, text |-> Missing] # None
        \/ scan.confirmed[f] = None
    BY NoneAssumption, BoundAssumption
       DEF DocInv, TypeOK, Lists, Entries, Versions, Missing
  <2>6. \A w \in Workers : \/ queue'[w][f] = queue[w][f]
                           \/ queue'[w][f] # None /\ queue'[w][f].stat = 1
    BY <1>1, <2>3, <2>4, <2>5 DEF Workers
  <2>. QED
    BY <1>1, <1>13, <2>1, <2>6, ScannerKeeps DEF ScanOcrQueue
<1>14. CASE ScanExtractQueue
  <2>1. PICK next : next \in {"flush", "off", "walk"}
                    /\ scan' = [scan EXCEPT !.confirmed = Nothing, !.pc = next]
    BY <1>14, ScanNextFacts DEF ScanExtractQueue
  <2>2. scan'.pc = next /\ scan'.pending = scan.pending /\ scan'.confirmed = Nothing
    BY <2>1 DEF DocInv, TypeOK
  <2>3. scan.confirmed[f] # None => NeedsOcr(f)
    BY <1>1 DEF NeedsOcr, Image
  <2>4. \A w \in Workers : queue'[w][f] = queue[w][f]
    BY <1>14, <2>3 DEF ScanExtractQueue, DocInv, TypeOK, Workers
  <2>. QED
    BY <1>1, <1>14, <2>1, <2>2, <2>4, ScannerKeeps DEF ScanExtractQueue
<1>. QED
  BY <1>5, <1>7, <1>8, <1>10, <1>11, <1>12, <1>13, <1>14 DEF ScanStep

\* Starting a worker, killing a process and editing other files keep what holds of f.
LEMMA OthersKeep ==
  ASSUME DocInv, OneWorker, Staggered, NEW f \in Files, Kept(f),
         \/ \E w \in Workers : WorkStart(w)
         \/ Crash \/ UNCHANGED vars \/ \E g \in Files : Change(g)
  PROVE  Kept(f)'
<1>1. Nothing[f] = None
  BY DEF Nothing
<1>2. ASSUME NEW w \in Workers, WorkStart(w) PROVE Kept(f)'
  <2>1. /\ work'[w].pc = "check" /\ work'[w].todo = queue[w] /\ work'[w].live = work[w].live
        /\ Alone(w)
    BY <1>2 DEF WorkStart, Alone, DocInv, TypeOK
  <2>. QED
    BY <1>2, <2>1, QuietKeeps DEF WorkStart
<1>3. CASE Crash
  <2>1. CASE ScanKilled
    <3>1. scan'.pc = "off" /\ scan'.pending = Nothing /\ scan'.confirmed = Nothing
      BY <2>1 DEF ScanKilled, ScanOff
    <3>. QED
      BY <1>1, <1>3, <2>1, <3>1, ScannerKeeps DEF Crash, ScanKilled
  <2>2. ASSUME NEW w \in Workers, WorkKilled(w) PROVE Kept(f)'
    <3>1. work'[w] = WorkOff /\ Alone(w)
      BY <2>2 DEF WorkKilled, Alone, OneWorker, Workers, DocInv, TypeOK
    <3>2. WorkOff.pc = "off" /\ WorkOff.todo = Nothing /\ WorkOff.live = Nothing
      BY DEF WorkOff
    <3>. QED
      BY <1>1, <1>3, <2>2, <3>1, <3>2, QuietKeeps DEF Crash, WorkKilled
  <2>. QED
    BY <1>3, <2>1, <2>2 DEF Crash
<1>4. CASE UNCHANGED vars \/ \E g \in Files : Change(g)
  <2>1. UNCHANGED <<queue, server, scan, work>>
    BY <1>4 DEF vars, Change
  <2>. QED
    BY <2>1 DEF Kept, FirstOnly, StillQueued, WasOcred, InOrder, Queued
<1>. QED
  BY <1>2, <1>3, <1>4

\* A file never comes back to its first version.
LEMMA ImageStays ==
  ASSUME DocInv, [Next]_vars, NEW f \in Files, Image(f)'
  PROVE  Image(f)
<1>1. ASSUME NEW g \in Files, Change(g) PROVE disk'[f] = disk[f] \/ disk'[f] # 1
  <2>1. PICK v \in {Missing} \cup (disk[g] + 1)..MaxVersion :
          disk' = [disk EXCEPT ![g] = v]
    BY <1>1 DEF Change
  <2>2. disk[g] \in Nat /\ disk[g] # 0
    BY <1>1, BoundAssumption DEF Change, DocInv, TypeOK, Versions, Missing
  <2>3. v # 1
    BY <2>1, <2>2, BoundAssumption DEF Missing
  <2>. QED
    BY <2>1, <2>3 DEF DocInv, TypeOK
<1>2. ASSUME ~ \E g \in Files : Change(g) PROVE UNCHANGED disk
  BY <1>2 DEF Next, vars, ScanStart, ScanStep, ScanStat, ScanRead, ScanPosted,
     ScanUnanswered, ScanManifest, ScanOcrQueue, ScanExtractQueue, WorkStart, WorkStep,
     WorkCheck, CannotOcr, WorkOpens, WorkOpen, WorkAnswered, WorkAccepted, WorkRefused,
     WorkStops, WorkDrop, HandOver, Crash
<1>. QED
  BY <1>1, <1>2 DEF Image

LEMMA StrandInit == Init => StrandInv
<1> SUFFICES ASSUME Init PROVE StrandInv
  OBVIOUS
<1>1. /\ WorkOff.pc = "off" /\ WorkOff.todo = Nothing /\ WorkOff.live = Nothing
      /\ ScanOff.pc = "off" /\ ScanOff.pending = Nothing /\ ScanOff.confirmed = Nothing
  BY DEF WorkOff, ScanOff
<1>2. OneWorker
  BY <1>1 DEF Init, OneWorker, Workers
<1>3. ASSUME NEW f \in Files PROVE Kept(f)
  <2>1. Nothing[f] = None
    BY DEF Nothing
  <2>. QED
    BY <1>1, <2>1 DEF Init, Kept, FirstOnly, StillQueued, WasOcred, InOrder, Queued, Workers
<1>. QED
  BY <1>2, <1>3, DocInvInit DEF StrandInv, ImagesKept

LEMMA StrandStep == Staggered /\ StrandInv /\ [Next]_vars => StrandInv'
<1> SUFFICES ASSUME Staggered, DocInv, OneWorker, ImagesKept, [Next]_vars PROVE StrandInv'
  BY DEF StrandInv
<1>1. ASSUME NEW f \in Files, Image(f)' PROVE Kept(f)'
  <2>1. Image(f) /\ Kept(f)
    BY <1>1, ImageStays DEF ImagesKept
  <2>. QED
    BY <2>1, ScanKeeps, WorkKeeps, OthersKeep DEF Next
<1>. QED
  BY <1>1, DocInvStep, OneWorkerStep DEF StrandInv, ImagesKept

\* With the workers staggered as the README's cron lines have them, no kill leaves an
\* image-only PDF on which OCR never throws OCR'd but never extracted, whatever the scan
\* does meanwhile.
THEOREM StaggeredNeverStrands == Spec => [](Staggered => NeverStranded)
<1>1. StrandInv => NeverStranded
  BY DEF StrandInv, ImagesKept, Image, Kept, Queued, NeverStranded
<1> DEFINE Inv == Staggered => StrandInv
<1>2. Init => Inv
  BY StrandInit
<1>3. Inv /\ [Next]_vars => Inv'
  BY StrandStep
<1>4. Inv => (Staggered => NeverStranded)
  BY <1>1
<1> HIDE DEF Inv
<1>. QED
  BY <1>2, <1>3, <1>4, PTL DEF Spec
-----------------------------------------------------------------------------
\* The rest is about a connector in which no worker drops a newer entry and no kill tears
\* the books. What is traced is a file that is still on disk.
Present(f) == disk[f] # Missing

\* The scan has read it later than it took its stat, and not too late for the manifest.
Sent(f, x) == x.stat <= x.text /\ x.text <= disk[f] /\ <<f, x.text>> \notin Unreadable
Scanning(f) ==
  /\ manifest[f] <= disk[f] /\ (manifest[f] = disk[f] => <<f, disk[f]>> \notin Unreadable)
  /\ scan.pc = "read" /\ scan.file = f => manifest[f] < scan.stat /\ scan.stat <= disk[f]
  /\ scan.pending[f] # None =>
       /\ Sent(f, scan.pending[f]) /\ manifest[f] < scan.pending[f].stat
       /\ scan.confirmed[f] = None
  /\ scan.confirmed[f] # None =>
       /\ Sent(f, scan.confirmed[f])
       /\ \/ scan.pc = "manifest" /\ manifest[f] < scan.confirmed[f].stat
          \/ scan.pc \in {"ocr", "extract"} /\ manifest[f] = scan.confirmed[f].stat

\* An entry x of worker w, queued or in its hands: it is in the manifest, older than what
\* the scan is about to queue, and extraction gets a text that is there.
EntryOK(f, w, x) ==
  /\ x.stat <= manifest[f]
  /\ scan.confirmed[f] # None =>
       \/ x.stat < scan.confirmed[f].stat
       \/ scan.pc = "extract" /\ NeedsOcr(f)
  /\ w = "extract" => x.stat <= x.text /\ x.text <= disk[f] /\ <<f, x.text>> \notin Blank

\* The queue of w holds f in the version on disk.
InQueue(f, w) == queue[w][f] # None /\ queue[w][f].stat = disk[f]
InHandOK(f, w, x) == EntryOK(f, w, x) /\ (x.stat = disk[f] => InQueue(f, w))

Listed(f) ==
  \A w \in Workers :
    /\ queue[w][f] # None => EntryOK(f, w, queue[w][f])
    /\ work[w].todo[f] # None => InHandOK(f, w, work[w].todo[f])
    /\ work[w].live[f] # None => InHandOK(f, w, work[w].live[f])
    /\ work[w].todo[f] = None \/ work[w].live[f] = None
    /\ work[w].pc = "off" => work[w].todo[f] = None /\ work[w].live[f] = None

\* The manifest holds the version on disk, OCR does not throw on it and the server will
\* take what there is of it.
Due(f) ==
  /\ manifest[f] = disk[f] /\ <<f, disk[f]>> \notin OcrThrows
  /\ \A w \in Workers : <<w, f>> \notin Refused

\* It is still to be worked on: the scan is about to queue it, or it is queued.
Booked(f) ==
  /\ scan.confirmed[f] # None /\ scan.confirmed[f].stat = disk[f]
  /\ \/ scan.pc = "ocr"
     \/ scan.pc = "extract" /\ ~NeedsOcr(f)
Waiting(f) == Booked(f) \/ \E w \in Workers : InQueue(f, w)

\* Where worker w stands with f. What it has seen is no older than its entry, and before
\* it drops the entry of the version on disk that version is through, or handed on.
AtWork(f, w) ==
  work[w].pc \in {"post", "hand", "drop"} /\ work[w].file = f =>
    /\ work[w].live[f].stat <= work[w].seen /\ work[w].seen <= disk[f]
    /\ w = "extract" => work[w].seen = work[w].live[f].text
    /\ work[w].pc = "hand" => w = "ocr" /\ <<f, work[w].seen>> \notin Blank
    /\ work[w].pc = "drop" /\ Due(f) /\ work[w].live[f].stat = disk[f] =>
         WentThrough(f) \/ (w = "ocr" /\ InQueue(f, "extract"))

\* Nothing is forgotten; and while a worker holds an older version, whose upsert undoes what the
\* server has, the newer one is still to be worked on.
OnItsWay(f) == Due(f) => Waiting(f) \/ WentThrough(f)
OutrunWaits(f) ==
  \A w \in Workers :
    work[w].live[f] # None /\ work[w].live[f].stat < disk[f] /\ Due(f) => Waiting(f)

Traced(f) ==
  /\ Scanning(f) /\ Listed(f) /\ (\A w \in Workers : AtWork(f, w))
  /\ OnItsWay(f) /\ OutrunWaits(f)
AllTraced == \A f \in Files : Present(f) => Traced(f)
CareInv == DocInv /\ OneWorker /\ AllTraced

-----------------------------------------------------------------------------
LEMMA StatsNat ==
  ASSUME DocInv, NEW f \in Files
  PROVE  /\ disk[f] \in Nat /\ manifest[f] \in Nat /\ scan.stat \in Nat
         /\ \A w \in Workers :
              /\ work[w].seen \in Nat
              /\ \A x \in {queue[w][f], work[w].todo[f], work[w].live[f]} \ {None} :
                   x.stat \in Nat /\ x.text \in Nat
         /\ \A x \in {scan.pending[f], scan.confirmed[f]} \ {None} :
              x.stat \in Nat /\ x.text \in Nat
<1>1. Versions \subseteq Nat
  BY BoundAssumption DEF Versions, Missing
<1>2. \A x \in Entries : x.stat \in Nat /\ x.text \in Nat
  BY <1>1 DEF Entries
<1>3. \A l \in Lists : l[f] # None => l[f] \in Entries
  BY DEF Lists
<1>. QED
  BY <1>1, <1>2, <1>3 DEF DocInv, TypeOK

\* What a step of worker w has to show of f.
LEMMA WorkerTraces ==
  ASSUME DocInv, NEW f \in Files, NEW w \in Workers, Traced(f),
         UNCHANGED <<disk, manifest, scan>>, Alone(w),
         \A v \in Workers \ {w} : InQueue(f, v) => InQueue(f, v)',
         \A v \in Workers : queue'[v][f] # None => EntryOK(f, v, queue'[v][f]),
         \A x \in {work'[w].todo[f], work'[w].live[f]} \ {None} :
           EntryOK(f, w, x) /\ (x.stat = disk[f] => InQueue(f, w)'),
         work'[w].todo[f] = None \/ work'[w].live[f] = None,
         work'[w].pc = "off" => work'[w].todo[f] = None /\ work'[w].live[f] = None,
         AtWork(f, w)', OnItsWay(f)', OutrunWaits(f)'
  PROVE  Traced(f)'
<1>1. \A v \in Workers : v = w \/ (work'[v] = work[v] /\ work'[v].pc = "off")
  BY DEF Alone
<1>2. Scanning(f)'
  BY DEF Traced, Scanning, Sent
<1>3. \A v \in Workers \ {w} : work'[v].todo[f] = None /\ work'[v].live[f] = None
  BY <1>1 DEF Traced, Listed
<1>4. Listed(f)'
  BY <1>1, <1>3 DEF Listed, InHandOK, EntryOK, NeedsOcr
<1>5. \A v \in Workers : AtWork(f, v)'
  BY <1>1 DEF AtWork
<1>. QED
  BY <1>2, <1>4, <1>5 DEF Traced

\* A worker that neither posts nor touches the entries of f keeps the trace of f.
LEMMA QuietTraces ==
  ASSUME DocInv, NEW f \in Files, NEW w \in Workers, Traced(f),
         UNCHANGED <<disk, manifest, scan>>, server'[f] = server[f], Alone(w),
         \A v \in Workers : queue'[v][f] = queue[v][f],
         work'[w].pc \in {"off", "check", "run"},
         work'[w].pc = "off" => work'[w].todo[f] = None /\ work'[w].live[f] = None,
         work'[w].todo[f] = None \/ work'[w].live[f] = None,
         work'[w].todo[f] # None => work'[w].todo[f] \in {work[w].todo[f], queue[w][f]},
         work'[w].live[f] # None =>
           \/ work'[w].live[f] = work[w].live[f]
           \/ work'[w].live[f] = work[w].todo[f] /\ work[w].todo[f].stat = disk[f]
  PROVE  Traced(f)'
<1>1. \A v \in Workers : InQueue(f, v)' <=> InQueue(f, v)
  BY DEF InQueue
<1>2. (Waiting(f)' <=> Waiting(f)) /\ (Due(f)' <=> Due(f))
  BY <1>1 DEF Waiting, Booked, NeedsOcr, Due
<1>3. \A v \in Workers : queue'[v][f] # None => EntryOK(f, v, queue'[v][f])
  BY DEF Traced, Listed
<1>4. \A x \in {work'[w].todo[f], work'[w].live[f]} \ {None} :
        EntryOK(f, w, x) /\ (x.stat = disk[f] => InQueue(f, w)')
  BY <1>1 DEF Traced, Listed, InHandOK, InQueue
<1>5. AtWork(f, w)'
  BY DEF AtWork
<1>6. OnItsWay(f)'
  BY <1>2 DEF Traced, OnItsWay, WentThrough
<1>7. ASSUME NEW v \in Workers PROVE
        work'[v].live[f] # None /\ work'[v].live[f].stat < disk[f] /\ Due(f) => Waiting(f)
  <2>1. CASE v # w
    BY <2>1 DEF Alone, Traced, OutrunWaits
  <2>2. CASE v = w
    BY <2>2, StatsNat DEF Traced, OutrunWaits
  <2>. QED
    BY <2>1, <2>2
<1>8. OutrunWaits(f)'
  BY <1>2, <1>7 DEF OutrunWaits
<1>. QED
  BY <1>1, <1>3, <1>4, <1>5, <1>6, <1>8, WorkerTraces

\* A worker that drops f has seen it through, handed it on, or left a newer entry.
LEMMA DropTraces ==
  ASSUME DocInv, OneWorker, NEW f \in Files, NEW w \in Workers, Traced(f),
         UNCHANGED <<disk, manifest, scan>>, server'[f] = server[f],
         NEW g \in Files, Drop(w, g), Done(w, g), ~DropsNewer,
         work[w].pc \notin {"off", "check"}, work[w].live[g] # None,
         g = f /\ Due(f) /\ work[w].live[f].stat = disk[f] =>
           WentThrough(f) \/ (w = "ocr" /\ InQueue(f, "extract"))
  PROVE  Traced(f)'
<1>1. work[w].todo = Nothing /\ Nothing[f] = None
  BY DEF OneWorker, Nothing
<1>2. /\ work' = [work EXCEPT ![w] = work'[w]]
      /\ work'[w].pc \in {"off", "run"} /\ work'[w].todo = Nothing
      /\ work'[w].live[f] # None => f # g /\ work'[w].live[f] = work[w].live[f]
      /\ work'[w].pc = "off" => work'[w].live[f] = None
  BY <1>1, DoneShape
<1>3. Alone(w)
  BY <1>2 DEF Alone, OneWorker, Workers, DocInv, TypeOK
<1>4. /\ \A v \in Workers \ {w} : queue'[v] = queue[v]
      /\ queue'[w][f] = IF f = g THEN None ELSE queue[w][f]
  BY DEF Drop, DocInv, TypeOK, Lists
<1>5. CASE g # f
  BY <1>1, <1>2, <1>3, <1>4, <1>5, QuietTraces
<1>6. CASE g = f
  <2>1. work'[w].todo[f] = None /\ work'[w].live[f] = None
    BY <1>1, <1>2, <1>6
  <2>2. \A v \in Workers \ {w} : InQueue(f, v)' <=> InQueue(f, v)
    BY <1>4 DEF InQueue
  <2>3. \A v \in Workers : queue'[v][f] # None => EntryOK(f, v, queue'[v][f])
    BY <1>4, <1>6 DEF Traced, Listed
  <2>4. AtWork(f, w)'
    BY <1>2 DEF AtWork
  <2>5. OutrunWaits(f)'
    BY <1>3, <2>1 DEF OutrunWaits, Alone, Traced, Listed
  <2>6. ASSUME InQueue(f, w) PROVE queue[w][f].stat <= work[w].live[f].stat
    <3>1. work[w].live[f] \in InHands(w, f)
      BY <1>6 DEF InHands
    <3>2. ~(work[w].live[f].stat < queue[w][f].stat)
      BY <1>4, <1>6, <2>6, <3>1 DEF DropsNewer, InQueue
    <3>. QED
      BY <1>6, <2>6, <3>2, StatsNat DEF InQueue
  <2>7. ASSUME Due(f) PROVE work[w].live[f].stat <= disk[f]
    BY <1>6, <2>7 DEF Due, Traced, Listed, InHandOK, EntryOK
  <2>8. ASSUME Due(f), ~WentThrough(f)
        PROVE  Booked(f) \/ \E v \in Workers \ {w} : InQueue(f, v)
    <3>1. CASE work[w].live[f].stat = disk[f]
      BY <1>6, <2>8, <3>1 DEF Workers
    <3>2. CASE work[w].live[f].stat # disk[f]
      <4>1. ~InQueue(f, w)
        BY <1>6, <2>6, <2>7, <2>8, <3>2, StatsNat DEF InQueue
      <4>. QED
        BY <2>8, <4>1 DEF Traced, OnItsWay, Waiting
    <3>. QED
      BY <3>1, <3>2
  <2>9. OnItsWay(f)'
    BY <2>2, <2>8 DEF OnItsWay, Due, Waiting, Booked, NeedsOcr, WentThrough
  <2>. QED
    BY <1>2, <1>3, <2>1, <2>2, <2>3, <2>4, <2>5, <2>9, WorkerTraces
<1>. QED
  BY <1>5, <1>6

\* What the upsert of w makes of the artifact of f.
LEMMA WorkedShape ==
  ASSUME DocInv, NEW w \in Workers, work[w].pc = "post", NEW f \in Files,
         server' = Worked(w)
  PROVE  IF work[w].file = f
         THEN /\ server'[f].text = work[w].seen
              /\ server'[f].stage = IF w = "extract" THEN "extracted"
                                    ELSE IF <<f, work[w].seen>> \in Blank THEN "header" ELSE "text"
         ELSE server'[f] = server[f]
<1>1. PICK g, v : g = work[w].file /\ v = work[w].seen
  OBVIOUS
<1>2. PICK s : s = IF w = "extract" THEN "extracted"
                   ELSE IF <<g, v>> \in Blank THEN "header" ELSE "text"
  OBVIOUS
<1>3. server' = [server EXCEPT ![g].text = v, ![g].stage = s]
  BY <1>1, <1>2 DEF Worked
<1>4. g \in Files /\ server[g] \in Artifacts
  BY <1>1 DEF DocInv, TypeOK, Served
<1>5. server'[g] = [server[g] EXCEPT !.text = v, !.stage = s]
  BY <1>3, <1>4 DEF DocInv, TypeOK
<1>6. server'[g].text = v /\ server'[g].stage = s
  BY <1>4, <1>5 DEF Artifacts
<1>7. f # g => server'[f] = server[f]
  BY <1>3, <1>4 DEF DocInv, TypeOK
<1>. QED
  BY <1>1, <1>2, <1>6, <1>7

\* The upsert of w takes f through what its version on disk still needs, or another
\* entry waits for that version.
LEMMA PostTraces ==
  ASSUME DocInv, OneWorker, NEW f \in Files, NEW w \in Workers, Traced(f),
         UNCHANGED <<disk, manifest, scan, queue>>, server' = Worked(w),
         work[w].pc = "post",
         \/ work' = [work EXCEPT ![w].pc = AfterPost(w)]
         \/ work' = [work EXCEPT ![w] = WorkOff]
  PROVE  Traced(f)'
<1>1. PICK g, v : g = work[w].file /\ v = work[w].seen
  OBVIOUS
<1>2. g \in Files /\ work[w].live[g] # None /\ work[w].todo = Nothing
  BY <1>1 DEF DocInv, TypeOK, OneWorker
<1>3. Nothing[f] = None /\ WorkOff.todo = Nothing /\ WorkOff.live = Nothing /\ WorkOff.pc = "off"
  BY DEF Nothing, WorkOff
<1>4. Alone(w)
  BY DEF Alone, OneWorker, Workers, DocInv, TypeOK
<1>5. \/ /\ work'[w].pc = AfterPost(w) /\ work'[w].todo = Nothing
         /\ work'[w].live = work[w].live /\ work'[w].file = g /\ work'[w].seen = v
      \/ work'[w] = WorkOff
  BY <1>1, <1>2 DEF DocInv, TypeOK
<1>6. AfterPost(w) = IF w = "ocr" /\ <<g, v>> \notin Blank THEN "hand" ELSE "drop"
  BY <1>1 DEF AfterPost
<1>7. IF g = f
      THEN /\ server'[f].text = v
           /\ server'[f].stage = IF w = "extract" THEN "extracted"
                                 ELSE IF <<f, v>> \in Blank THEN "header" ELSE "text"
      ELSE server'[f] = server[f]
  BY <1>1, WorkedShape
<1>8. /\ Waiting(f)' <=> Waiting(f)
      /\ Due(f)' <=> Due(f)
      /\ \A u \in Workers : InQueue(f, u)' <=> InQueue(f, u)
  BY DEF Waiting, Booked, NeedsOcr, InQueue, Due
<1>9. \A u \in Workers : queue'[u][f] # None => EntryOK(f, u, queue'[u][f])
  BY DEF Traced, Listed
<1>10. work'[w].todo[f] = None /\ (work'[w].live[f] # None => work'[w].live[f] = work[w].live[f])
  BY <1>3, <1>5
<1>11. \A x \in {work'[w].todo[f], work'[w].live[f]} \ {None} :
         EntryOK(f, w, x) /\ (x.stat = disk[f] => InQueue(f, w)')
  BY <1>8, <1>10 DEF Traced, Listed, InHandOK
<1>12. g = f => /\ work[w].live[f].stat <= v /\ v <= disk[f]
                /\ w = "extract" => v = work[w].live[f].text
  BY <1>1 DEF Traced, AtWork
<1>13. OnItsWay(f)'
  <2>1. CASE g # f
    BY <1>7, <1>8, <2>1 DEF Traced, OnItsWay, WentThrough
  <2>2. CASE g = f
    <3>1. Due(f) => work[w].live[f].stat <= disk[f]
      BY <1>2, <2>2 DEF Due, Traced, Listed, InHandOK, EntryOK
    <3>2. Due(f) => Waiting(f)
      <4>1. CASE work[w].live[f].stat = disk[f]
        BY <1>2, <2>2, <4>1 DEF Traced, Listed, InHandOK, Waiting
      <4>2. CASE work[w].live[f].stat # disk[f]
        BY <1>2, <2>2, <3>1, <4>2, StatsNat DEF Traced, OutrunWaits
      <4>. QED
        BY <4>1, <4>2
    <3>. QED
      BY <1>8, <3>2 DEF OnItsWay
  <2>. QED
    BY <2>1, <2>2
<1>14. OutrunWaits(f)'
  <2>1. \A u \in Workers : work'[u].live[f] # None => work'[u].live[f] = work[u].live[f]
    BY <1>4, <1>10 DEF Alone
  <2>. QED
    BY <1>8, <2>1 DEF Traced, OutrunWaits
<1>15. ASSUME work'[w].pc \in {"post", "hand", "drop"}, work'[w].file = f
       PROVE  /\ g = f /\ work'[w].seen = v /\ work'[w].live = work[w].live
              /\ work'[w].pc = IF w = "ocr" /\ <<f, v>> \notin Blank THEN "hand" ELSE "drop"
  <2>1. work'[w].pc # "off"
    BY <1>15
  <2>. QED
    BY <1>3, <1>5, <1>6, <1>15, <2>1
<1>16. ASSUME work'[w].pc = "drop", g = f, work[w].live[f].stat = disk[f],
              work'[w].pc = IF w = "ocr" /\ <<f, v>> \notin Blank THEN "hand" ELSE "drop"
       PROVE  WentThrough(f)'
  <2>1. v = disk[f]
    BY <1>12, <1>16, <1>1, StatsNat
  <2>2. w = "extract" => <<f, v>> \notin Blank
    BY <1>2, <1>12, <1>16 DEF Traced, Listed, InHandOK, EntryOK
  <2>3. w = "ocr" => <<f, v>> \in Blank
    BY <1>16
  <2>. QED
    BY <1>7, <1>16, <2>1, <2>2, <2>3 DEF WentThrough, Workers
<1>17. AtWork(f, w)'
  BY <1>12, <1>15, <1>16 DEF AtWork, Workers
<1>18. /\ work'[w].todo[f] = None \/ work'[w].live[f] = None
       /\ work'[w].pc = "off" => work'[w].todo[f] = None /\ work'[w].live[f] = None
  BY <1>3, <1>5, <1>6, <1>10
<1>. QED
  BY <1>4, <1>8, <1>9, <1>11, <1>13, <1>14, <1>17, <1>18, WorkerTraces

\* Each step of a worker that drops no newer entry keeps the trace of f.
LEMMA WorkTraces ==
  ASSUME DocInv, OneWorker, NEW f \in Files, Present(f), NEW w \in Workers, Traced(f),
         WorkStep(w), ~DropsNewer
  PROVE  Traced(f)'
<1>1. ASSUME NEW g \in Files, WorkCheck(w, g) PROVE Traced(f)'
  <2>1. /\ work[w].pc = "check" /\ work[w].todo[g] # None
        /\ UNCHANGED <<disk, manifest, scan, server>>
        /\ IF work[w].todo[g].stat = disk[g] THEN UNCHANGED queue ELSE Drop(w, g)
    BY <1>1 DEF WorkCheck
  <2>2. /\ work' = [work EXCEPT ![w] = work'[w]]
        /\ work'[w].pc \in {"off", "check", "run"}
        /\ work'[w].pc = "off" => work'[w].todo = Nothing /\ work'[w].live = Nothing
        /\ work'[w].todo[f] # None => f # g /\ work'[w].todo[f] = work[w].todo[f]
        /\ work'[w].live[f] # None =>
             \/ work'[w].live[f] = work[w].live[f]
             \/ /\ f = g /\ work'[w].live[f] = work[w].todo[f]
                /\ work[w].todo[f] # None /\ work[w].todo[f].stat = disk[f]
    BY <1>1, CheckShape
  <2>3. Alone(w)
    BY <2>1, <2>2 DEF Alone, OneWorker, Workers, DocInv, TypeOK
  <2>4. Nothing[f] = None
    BY DEF Nothing
  <2>5. work'[w].todo[f] = None \/ work'[w].live[f] = None
    BY <2>2 DEF Traced, Listed
  <2>6. CASE f # g \/ work[w].todo[g].stat = disk[g]
    <3>1. \A v \in Workers : queue'[v][f] = queue[v][f]
      <4>1. CASE UNCHANGED queue
        BY <4>1
      <4>2. CASE Drop(w, g) /\ f # g
        BY <4>2 DEF Drop, DocInv, TypeOK, Lists
      <4>. QED
        BY <2>1, <2>6, <4>1, <4>2
    <3>. QED
      BY <2>1, <2>2, <2>3, <2>4, <2>5, <3>1, QuietTraces
  <2>7. CASE f = g /\ work[w].todo[g].stat # disk[g]
    <3>1. work'[w].todo[f] = None /\ work'[w].live[f] = None
      BY <2>1, <2>2, <2>7 DEF Traced, Listed
    <3>2. /\ \A v \in Workers \ {w} : queue'[v][f] = queue[v][f]
          /\ queue'[w][f] = None
      BY <2>1, <2>7 DEF Drop, DocInv, TypeOK, Lists
    <3>3. \A v \in Workers \ {w} : InQueue(f, v)' <=> InQueue(f, v)
      BY <2>1, <3>2 DEF InQueue
    <3>4. AtWork(f, w)'
      BY <2>2 DEF AtWork
    <3>5. OutrunWaits(f)'
      BY <2>3, <3>1 DEF OutrunWaits, Alone, Traced, Listed
    <3>6. ASSUME Due(f), InQueue(f, w) PROVE FALSE
      <4>1. work[w].todo[f].stat <= disk[f]
        BY <2>1, <2>7, <3>6 DEF Due, Traced, Listed, InHandOK, EntryOK
      <4>2. work[w].todo[f].stat < queue[w][f].stat
        BY <2>1, <2>7, <3>6, <4>1, StatsNat DEF InQueue
      <4>3. work[w].todo[f] \in InHands(w, f)
        BY <2>1, <2>7 DEF InHands
      <4>. QED
        BY <2>1, <3>2, <3>6, <4>2, <4>3 DEF DropsNewer, InQueue
    <3>7. OnItsWay(f)'
      BY <2>1, <3>3, <3>6 DEF Traced, OnItsWay, Due, Waiting, Booked, NeedsOcr, WentThrough
    <3>8. \A v \in Workers : queue'[v][f] # None => EntryOK(f, v, queue'[v][f])
      BY <3>2 DEF Traced, Listed
    <3>. QED
      BY <2>1, <2>3, <3>1, <3>3, <3>4, <3>5, <3>7, <3>8, WorkerTraces
  <2>. QED
    BY <2>6, <2>7
<1>2. ASSUME NEW g \in Files, w = "ocr", CannotOcr(g) PROVE Traced(f)'
  <2>1. ~(g = f /\ Due(f) /\ work[w].live[f].stat = disk[f])
    <3> SUFFICES ASSUME g = f, Due(f), work[w].live[f].stat = disk[f] PROVE FALSE
      OBVIOUS
    <3>1. /\ work[w].pc = "post" /\ work[w].file = f
          /\ <<f, work[w].seen>> \in OcrThrows
      BY <1>2 DEF CannotOcr, Present
    <3>2. disk[f] <= work[w].seen /\ work[w].seen <= disk[f]
      BY <3>1 DEF Traced, AtWork
    <3>3. work[w].seen = disk[f]
      BY <3>2, StatsNat
    <3>. QED
      BY <3>1, <3>3 DEF Due
  <2>2. work[w].pc \notin {"off", "check"} /\ work[w].live[g] # None
    BY <1>2 DEF CannotOcr
  <2>. QED
    BY <1>2, <2>1, <2>2, DropTraces DEF CannotOcr
<1>3. ASSUME NEW g \in Files, WorkOpen(w, g) PROVE Traced(f)'
  <2>1. PICK v : v = Source(w, g)
    OBVIOUS
  <2>2. /\ work[w].pc = "run" /\ work[w].live[g] # None
        /\ work' = [work EXCEPT ![w].pc = "post", ![w].file = g, ![w].seen = v]
        /\ UNCHANGED <<disk, manifest, queue, server, scan>>
    BY <1>3, <2>1 DEF WorkOpen
  <2>3. /\ work'[w].pc = "post" /\ work'[w].file = g /\ work'[w].seen = v
        /\ work'[w].todo = work[w].todo /\ work'[w].live = work[w].live
    BY <2>2 DEF DocInv, TypeOK
  <2>4. Alone(w)
    BY <2>2 DEF Alone, OneWorker, Workers, DocInv, TypeOK
  <2>5. /\ \A u \in Workers : InQueue(f, u)' <=> InQueue(f, u)
        /\ Waiting(f)' <=> Waiting(f)
        /\ Due(f)' <=> Due(f)
    BY <2>2 DEF InQueue, Waiting, Booked, NeedsOcr, Due
  <2>6. \A u \in Workers : work'[u].live = work[u].live
    BY <2>3, <2>4 DEF Alone
  <2>7. OnItsWay(f)' /\ OutrunWaits(f)'
    BY <2>2, <2>5, <2>6 DEF Traced, OnItsWay, OutrunWaits, WentThrough
  <2>8. AtWork(f, w)'
    <3>1. g = f => /\ work[w].live[f].stat <= v /\ v <= disk[f]
                   /\ w = "extract" => v = work[w].live[f].text
      <4>1. CASE w = "ocr"
        <5>1. manifest[f] <= disk[f]
          BY DEF Traced, Scanning
        <5>2. g = f => work[w].live[f].stat <= manifest[f]
          BY <2>2 DEF Traced, Listed, InHandOK, EntryOK
        <5>3. g = f => v = disk[f]
          BY <2>1, <4>1 DEF Source
        <5>4. g = f => work[w].live[f].stat \in Nat
          BY <2>2, StatsNat
        <5>. QED
          BY <4>1, <5>1, <5>2, <5>3, <5>4, StatsNat
      <4>2. CASE w = "extract"
        BY <2>1, <2>2, <4>2, StatsNat DEF Source, Traced, Listed, InHandOK, EntryOK
      <4>. QED
        BY <4>1, <4>2 DEF Workers
    <3>. QED
      BY <2>2, <2>3, <3>1 DEF AtWork
  <2>9. \A u \in Workers : queue'[u][f] # None => EntryOK(f, u, queue'[u][f])
    BY <2>2 DEF Traced, Listed
  <2>10. \A x \in {work'[w].todo[f], work'[w].live[f]} \ {None} :
           EntryOK(f, w, x) /\ (x.stat = disk[f] => InQueue(f, w)')
    BY <2>3, <2>5 DEF Traced, Listed, InHandOK
  <2>11. work'[w].todo[f] = None \/ work'[w].live[f] = None
    BY <2>3 DEF Traced, Listed
  <2>. QED
    BY <2>2, <2>3, <2>4, <2>5, <2>7, <2>8, <2>9, <2>10, <2>11, WorkerTraces
<1>4. CASE WorkAccepted(w)
  BY <1>4, PostTraces DEF WorkAccepted
<1>5. CASE WorkRefused(w)
  <2>1. /\ work[w].pc = "post" /\ <<w, work[w].file>> \in Refused
        /\ work[w].file \in Files /\ work[w].live[work[w].file] # None
    BY <1>5 DEF WorkRefused, DocInv, TypeOK
  <2>2. work[w].file = f => ~Due(f)
    BY <2>1 DEF Due
  <2>. QED
    BY <1>5, <2>1, <2>2, DropTraces DEF WorkRefused
<1>6. CASE WorkStops(w)
  <2>1. work[w].pc \in {"run", "post"} /\ work' = [work EXCEPT ![w] = WorkOff]
    BY <1>6 DEF WorkStops
  <2>2. CASE UNCHANGED server
    <3>1. work'[w] = WorkOff /\ Alone(w)
      BY <2>1 DEF Alone, OneWorker, Workers, DocInv, TypeOK
    <3>2. WorkOff.pc = "off" /\ WorkOff.todo[f] = None /\ WorkOff.live[f] = None
      BY DEF WorkOff, Nothing
    <3>. QED
      BY <1>6, <2>2, <3>1, <3>2, QuietTraces DEF WorkStops
  <2>3. CASE work[w].pc = "post" /\ server' = Worked(w)
    BY <1>6, <2>1, <2>3, PostTraces DEF WorkStops
  <2>. QED
    BY <1>6, <2>2, <2>3 DEF WorkStops
<1>7. CASE WorkDrop(w)
  <2>1. /\ work[w].pc = "drop" /\ work[w].file \in Files
        /\ work[w].live[work[w].file] # None
    BY <1>7 DEF WorkDrop, DocInv, TypeOK
  <2>2. work[w].file = f /\ Due(f) /\ work[w].live[f].stat = disk[f] =>
          WentThrough(f) \/ (w = "ocr" /\ InQueue(f, "extract"))
    BY <2>1 DEF Traced, AtWork
  <2>. QED
    BY <1>7, <2>1, <2>2, DropTraces DEF WorkDrop
<1>8. CASE w = "ocr" /\ HandOver
  <2>1. PICK g : g = work[w].file
    OBVIOUS
  <2>2. /\ work[w].pc = "hand" /\ g \in Files /\ work[w].live[g] # None
        /\ work' = [work EXCEPT ![w].pc = "drop"]
        /\ UNCHANGED <<disk, manifest, scan, server>>
    BY <1>8, <2>1 DEF HandOver, DocInv, TypeOK
  <2>3. /\ work'[w].pc = "drop" /\ work'[w].file = g /\ work'[w].seen = work[w].seen
        /\ work'[w].todo = work[w].todo /\ work'[w].live = work[w].live
    BY <2>1, <2>2 DEF DocInv, TypeOK
  <2>4. Alone(w)
    BY <2>2 DEF Alone, OneWorker, Workers, DocInv, TypeOK
  <2>5. PICK e : e = [stat |-> work["ocr"].live[g].stat, text |-> work["ocr"].seen]
    OBVIOUS
  <2>6. queue' = [queue EXCEPT !["extract"][g] = e]
    BY <1>8, <2>1, <2>5 DEF HandOver
  <2>7. e # None
    BY <2>2, <2>5, <1>8, <2>1, NoneAssumption DEF DocInv, TypeOK, Lists, Entries, Versions, Missing
  <2>8. /\ queue'["ocr"] = queue["ocr"]
        /\ queue'["extract"][f] = IF g = f THEN e ELSE queue["extract"][f]
    BY <2>2, <2>6 DEF DocInv, TypeOK, Lists, Workers
  <2>9. g = f => /\ e.stat = work[w].live[f].stat /\ e.text = work[w].seen
                 /\ e.stat <= e.text /\ e.text <= disk[f] /\ <<f, e.text>> \notin Blank
    BY <1>8, <2>1, <2>2, <2>5 DEF Traced, AtWork
  <2>10. g = f => EntryOK(f, "extract", e)
    BY <1>8, <2>2, <2>9 DEF Traced, Listed, InHandOK, EntryOK
  <2>11. ASSUME g = f, InQueue(f, "extract"), e # queue["extract"][f]
         PROVE  e.stat = disk[f]
    <3>1. work[w].live[f] \in InHands(w, f)
      BY <2>2, <2>11 DEF InHands
    <3>2. "extract" \in Workers
      BY DEF Workers
    <3>3. ~(work[w].live[f].stat < queue["extract"][f].stat)
      BY <2>2, <2>8, <2>11, <3>1, <3>2 DEF DropsNewer, InQueue
    <3>4. e.stat \in Nat /\ e.text \in Nat /\ disk[f] \in Nat
      BY <2>2, <2>9, <2>11, StatsNat
    <3>5. ~(e.stat < disk[f])
      BY <2>9, <2>11, <3>3 DEF InQueue
    <3>. QED
      BY <2>9, <2>11, <3>4, <3>5
  <2>12. \A u \in Workers : InQueue(f, u) => InQueue(f, u)'
    BY <2>2, <2>7, <2>8, <2>11 DEF InQueue, Workers
  <2>13. /\ Waiting(f) => Waiting(f)'
         /\ Due(f)' <=> Due(f)
    BY <2>2, <2>12 DEF Waiting, Booked, NeedsOcr, Due
  <2>14. \A u \in Workers : work'[u].live = work[u].live
    BY <2>3, <2>4 DEF Alone
  <2>15. OnItsWay(f)' /\ OutrunWaits(f)'
    BY <2>2, <2>13, <2>14 DEF Traced, OnItsWay, OutrunWaits, WentThrough
  <2>16. AtWork(f, w)'
    <3>1. g = f /\ work[w].live[f].stat = disk[f] => InQueue(f, "extract")'
      BY <2>2, <2>7, <2>8, <2>9 DEF InQueue
    <3>2. g = f => work[w].live[f].stat <= work[w].seen /\ work[w].seen <= disk[f]
      BY <2>9
    <3>. QED
      BY <1>8, <2>2, <2>3, <3>1, <3>2 DEF AtWork
  <2>17. \A u \in Workers : queue'[u][f] # None => EntryOK(f, u, queue'[u][f])
    BY <2>8, <2>10 DEF Traced, Listed, Workers
  <2>18. \A x \in {work'[w].todo[f], work'[w].live[f]} \ {None} :
           EntryOK(f, w, x) /\ (x.stat = disk[f] => InQueue(f, w)')
    BY <2>3, <2>12 DEF Traced, Listed, InHandOK
  <2>19. work'[w].todo[f] = None \/ work'[w].live[f] = None
    BY <2>3 DEF Traced, Listed
  <2>. QED
    BY <2>2, <2>3, <2>4, <2>12, <2>15, <2>16, <2>17, <2>18, <2>19, WorkerTraces
<1>. QED
  BY <1>1, <1>2, <1>3, <1>4, <1>5, <1>6, <1>7, <1>8 DEF WorkStep, WorkOpens, WorkAnswered

-----------------------------------------------------------------------------
\* What a step of the scan that leaves the bookkeeping of f alone has to show of f.
LEMMA ScannerTraces ==
  ASSUME DocInv, NEW f \in Files, Traced(f), UNCHANGED <<disk, work>>,
         manifest'[f] = manifest[f], \A w \in Workers : queue'[w][f] = queue[w][f],
         server'[f] = server[f] \/ ~Due(f), ~Booked(f), Scanning(f)',
         scan'.confirmed[f] \in {None, scan.pending[f]},
         scan'.confirmed[f] # None => manifest[f] < scan'.confirmed[f].stat
  PROVE  Traced(f)'
<1>1. \A w \in Workers : InQueue(f, w)' <=> InQueue(f, w)
  BY DEF InQueue
<1>2. (Waiting(f) => Waiting(f)') /\ (Due(f)' <=> Due(f))
  BY <1>1 DEF Waiting, Due
<1>3. ASSUME NEW w \in Workers,
             NEW x \in {queue[w][f], work[w].todo[f], work[w].live[f]} \ {None}
      PROVE  EntryOK(f, w, x)'
  <2>1. EntryOK(f, w, x)
    BY <1>3 DEF Traced, Listed, InHandOK
  <2>2. x.stat \in Nat /\ manifest[f] \in Nat
    BY <1>3, StatsNat
  <2>3. scan'.confirmed[f] # None => scan'.confirmed[f].stat \in Nat
    BY StatsNat
  <2>4. scan'.confirmed[f] # None => x.stat < scan'.confirmed[f].stat
    BY <2>1, <2>2, <2>3 DEF EntryOK
  <2>. QED
    BY <2>1, <2>4 DEF EntryOK
<1>4. Listed(f)'
  <2>1. \A w \in Workers : queue'[w][f] # None => EntryOK(f, w, queue[w][f])'
    BY <1>3
  <2>2. \A w \in Workers :
          /\ work[w].todo[f] # None => InHandOK(f, w, work[w].todo[f])'
          /\ work[w].live[f] # None => InHandOK(f, w, work[w].live[f])'
    BY <1>1, <1>3 DEF Traced, Listed, InHandOK
  <2>. QED
    BY <2>1, <2>2 DEF Traced, Listed, InHandOK, EntryOK, InQueue, NeedsOcr
<1>5. \A w \in Workers : AtWork(f, w)'
  BY <1>1, <1>2 DEF Traced, AtWork, WentThrough, Workers
<1>6. OnItsWay(f)' /\ OutrunWaits(f)'
  BY <1>2 DEF Traced, OnItsWay, OutrunWaits, WentThrough
<1>. QED
  BY <1>4, <1>5, <1>6 DEF Traced

\* What a write of the bookkeeping of f has to show: all that is in hand is older.
LEMMA BooksTraces ==
  ASSUME DocInv, NEW f \in Files, Traced(f), UNCHANGED <<disk, work, server>>,
         scan.confirmed[f] # None, scan.pc # "extract" \/ ~NeedsOcr(f),
         manifest'[f] = scan.confirmed[f].stat, Scanning(f)',
         scan'.confirmed[f] \in {None, scan.confirmed[f]},
         \A w \in Workers :
           \/ queue'[w][f] = None \/ queue'[w][f] = queue[w][f]
           \/ EntryOK(f, w, queue[w][f])',
         Due(f)' => Waiting(f)'
  PROVE  Traced(f)'
<1>1. PICK n : n = scan.confirmed[f].stat
  OBVIOUS
<1>2. n \in Nat /\ disk[f] \in Nat /\ n <= disk[f] /\ manifest[f] <= n /\ manifest[f] \in Nat
  BY <1>1, StatsNat DEF Traced, Scanning, Sent
<1>3. ASSUME NEW w \in Workers,
             NEW x \in {queue[w][f], work[w].todo[f], work[w].live[f]} \ {None}
      PROVE  EntryOK(f, w, x)' /\ x.stat < n /\ x.stat < disk[f]
  <2>1. EntryOK(f, w, x)
    BY <1>3 DEF Traced, Listed, InHandOK
  <2>2. x.stat \in Nat
    BY <1>3, StatsNat
  <2>3. x.stat < n
    BY <1>1, <2>1 DEF EntryOK
  <2>. QED
    BY <1>1, <1>2, <2>1, <2>2, <2>3 DEF EntryOK
<1>4. Listed(f)'
  <2>1. ASSUME NEW w \in Workers, queue'[w][f] # None PROVE EntryOK(f, w, queue[w][f])'
    <3>1. PICK x : x = queue'[w][f]
      OBVIOUS
    <3>2. CASE x = queue[w][f]
      <4>1. EntryOK(f, w, x)'
        BY <1>3, <2>1, <3>1, <3>2
      <4>. QED
        BY <3>1, <4>1 DEF EntryOK, NeedsOcr
    <3>. QED
      BY <2>1, <3>1, <3>2
  <2>2. \A w \in Workers :
          /\ work[w].todo[f] # None => InHandOK(f, w, work[w].todo[f])'
          /\ work[w].live[f] # None => InHandOK(f, w, work[w].live[f])'
    BY <1>2, <1>3 DEF InHandOK
  <2>. QED
    BY <2>1, <2>2 DEF Traced, Listed, InHandOK, EntryOK, InQueue, NeedsOcr
<1>5. ASSUME NEW w \in Workers PROVE AtWork(f, w)'
  <2>1. work[w].pc \in {"post", "hand", "drop"} /\ work[w].file = f => work[w].live[f] # None
    BY DEF DocInv, TypeOK
  <2>2. work[w].live[f] # None => work[w].live[f].stat # disk[f]
    BY <1>2, <1>3, StatsNat
  <2>. QED
    BY <2>1, <2>2 DEF Traced, AtWork
<1>6. OnItsWay(f)' /\ OutrunWaits(f)'
  BY DEF OnItsWay, OutrunWaits
<1>. QED
  BY <1>4, <1>5, <1>6 DEF Traced

\* Each step of the scan keeps the trace of f.
LEMMA ScanTraces ==
  ASSUME DocInv, NEW f \in Files, Traced(f), ScanStart \/ ScanStep
  PROVE  Traced(f)'
<1>1. Nothing[f] = None
  BY DEF Nothing
<1>2. scan.pc \notin {"ocr", "extract"} => ~Booked(f)
  BY DEF Booked
<1>3. scan.pc \in {"off", "walk", "read", "flush"} => scan.confirmed[f] = None
  BY DEF Traced, Scanning
\* The walk: no bookkeeping is under way.
<1>4. ASSUME UNCHANGED <<disk, manifest, queue, server, work>>,
             scan.pc \in {"off", "walk", "read"}, scan'.confirmed = scan.confirmed,
             scan'.pc = "read" /\ scan'.file = f =>
               manifest[f] < scan'.stat /\ scan'.stat <= disk[f],
             scan'.pending[f] # None =>
               Sent(f, scan'.pending[f]) /\ manifest[f] < scan'.pending[f].stat
      PROVE  Traced(f)'
  <2>1. scan'.confirmed[f] = None
    BY <1>3, <1>4
  <2>2. Scanning(f)'
    BY <1>4, <2>1 DEF Traced, Scanning, Sent
  <2>. QED
    BY <1>2, <1>4, <2>1, <2>2, ScannerTraces
<1>5. scan.pending[f] # None =>
        Sent(f, scan.pending[f]) /\ manifest[f] < scan.pending[f].stat
  BY DEF Traced, Scanning
<1>6. CASE ScanStart
  BY <1>4, <1>5, <1>6 DEF ScanStart, DocInv, TypeOK
<1>7. ASSUME NEW g, Passed(g), UNCHANGED <<disk, manifest, queue, server, work>>,
             scan.pc \in {"walk", "read"}
      PROVE  Traced(f)'
  <2>1. PICK next : next = ScanNext(scan.todo \ {g}, scan.pending)
    OBVIOUS
  <2>2. next # "read"
    BY <2>1, ScanNextFacts
  <2>3. scan' = [scan EXCEPT !.todo = @ \ {g}, !.file = None, !.stat = Missing, !.pc = next]
    BY <1>7, <2>1 DEF Passed
  <2>4. scan'.pc = next /\ scan'.pending = scan.pending /\ scan'.confirmed = scan.confirmed
    BY <2>3 DEF DocInv, TypeOK
  <2>. QED
    BY <1>4, <1>5, <1>7, <2>2, <2>4
<1>8. ASSUME NEW g \in Files, ScanStat(g) PROVE Traced(f)'
  <2>1. CASE disk[g] = Missing \/ Unchanged(g)
    BY <1>7, <1>8, <2>1 DEF ScanStat
  <2>2. CASE ~(disk[g] = Missing \/ Unchanged(g))
    <3>1. /\ scan'.pending = scan.pending /\ scan'.confirmed = scan.confirmed
          /\ scan'.file = g /\ scan'.stat = disk[g]
      BY <1>8, <2>2 DEF ScanStat, DocInv, TypeOK
    <3>2. g = f => manifest[f] < disk[f] /\ disk[f] <= disk[f]
      BY <2>2, StatsNat DEF Unchanged, Traced, Scanning
    <3>. QED
      BY <1>4, <1>5, <1>8, <3>1, <3>2 DEF ScanStat
  <2>. QED
    BY <2>1, <2>2
<1>9. CASE ScanRead
  <2>1. PICK g : g = scan.file
    OBVIOUS
  <2>2. CASE disk[g] = Missing \/ <<g, disk[g]>> \in Unreadable
    BY <1>7, <1>9, <2>1, <2>2 DEF ScanRead
  <2>3. CASE ~(disk[g] = Missing \/ <<g, disk[g]>> \in Unreadable)
    <3>1. PICK e, pending : /\ e = [stat |-> scan.stat, text |-> disk[g]]
                            /\ pending = [scan.pending EXCEPT ![g] = e]
      OBVIOUS
    <3>2. PICK next : next = ScanNext(scan.todo \ {g}, pending)
      OBVIOUS
    <3>3. next # "read"
      BY <3>2, ScanNextFacts
    <3>4. scan' = [scan EXCEPT !.todo = @ \ {g}, !.file = None, !.stat = Missing,
                               !.pending = pending, !.pc = next]
      BY <1>9, <2>1, <2>3, <3>1, <3>2 DEF ScanRead
    <3>5. scan'.pc = next /\ scan'.pending = pending /\ scan'.confirmed = scan.confirmed
      BY <3>4 DEF DocInv, TypeOK
    <3>6. pending[f] = IF g = f THEN e ELSE scan.pending[f]
      BY <3>1 DEF DocInv, TypeOK, Lists
    <3>7. g = f => Sent(f, e) /\ manifest[f] < e.stat
      BY <1>9, <2>1, <2>3, <3>1, StatsNat DEF ScanRead, Traced, Scanning, Sent
    <3>. QED
      BY <1>4, <1>5, <1>9, <3>3, <3>5, <3>6, <3>7 DEF ScanRead
  <2>. QED
    BY <2>2, <2>3
\* The flush: what the server takes is newer than what the manifest holds.
<1>10. ASSUME NEW ok \in SUBSET Held(scan.pending)
       PROVE  Scanned(ok)[f] = server[f] \/ ~Due(f)
  <2>1. CASE f \notin ok
    BY <2>1, ScannedFacts
  <2>2. CASE f \in ok
    <3>1. scan.pending[f] # None
      BY <2>2 DEF Held
    <3>. QED
      BY <1>5, <3>1, StatsNat DEF Due, Sent
  <2>. QED
    BY <2>1, <2>2
<1>11. ASSUME NEW G \in Groups, NEW ok \in SUBSET G, ScanPosted(G, ok) PROVE Traced(f)'
  <2>1. ok \in SUBSET Held(scan.pending)
    BY DEF Groups
  <2>2. /\ scan.pc = "flush" /\ server' = Scanned(ok)
        /\ scan'.pc = "manifest" /\ scan'.pending = Without(scan.pending, G)
        /\ scan'.confirmed = Without(scan.pending, Files \ ok)
        /\ UNCHANGED <<disk, manifest, queue, work>>
    BY <1>11 DEF ScanPosted, Confirmed, DocInv, TypeOK
  <2>3. /\ scan'.pending[f] = IF f \in G THEN None ELSE scan.pending[f]
        /\ scan'.confirmed[f] = IF f \in ok THEN scan.pending[f] ELSE None
    BY <2>2 DEF Without
  <2>4. Scanning(f)'
    BY <1>5, <2>2, <2>3 DEF Traced, Scanning, Sent
  <2>5. scan'.confirmed[f] # None => manifest[f] < scan'.confirmed[f].stat
    BY <1>5, <2>3
  <2>. QED
    BY <1>2, <1>10, <2>1, <2>2, <2>3, <2>4, <2>5, ScannerTraces
<1>12. ASSUME NEW ok \in SUBSET Held(scan.pending), ScanUnanswered(ok) PROVE Traced(f)'
  <2>1. /\ scan.pc = "flush" /\ server' = Scanned(ok)
        /\ scan'.pc = "off" /\ scan'.pending = Nothing /\ scan'.confirmed = Nothing
        /\ UNCHANGED <<disk, manifest, queue, work>>
    BY <1>12 DEF ScanUnanswered, ScanOff
  <2>2. Scanning(f)'
    BY <1>1, <2>1 DEF Traced, Scanning
  <2>. QED
    BY <1>1, <1>2, <1>10, <2>1, <2>2, ScannerTraces
\* The bookkeeping: the manifest first, and with it what is to be queued.
<1>13. CASE ScanManifest
  <2>1. /\ scan.pc = "manifest" /\ scan'.pc = "ocr" /\ scan'.pending = scan.pending
        /\ scan'.confirmed = scan.confirmed /\ UNCHANGED <<disk, queue, server, work>>
        /\ manifest'[f] = IF scan.confirmed[f] # None THEN scan.confirmed[f].stat
                          ELSE manifest[f]
    BY <1>13 DEF ScanManifest, DocInv, TypeOK
  <2>2. CASE scan.confirmed[f] = None
    <3>1. Scanning(f)'
      BY <2>1, <2>2 DEF Traced, Scanning, Sent
    <3>. QED
      BY <1>2, <2>1, <2>2, <3>1, ScannerTraces
  <2>3. CASE scan.confirmed[f] # None
    <3>1. Sent(f, scan.confirmed[f]) /\ scan.pending[f] = None
      BY <2>3 DEF Traced, Scanning
    <3>2. Scanning(f)'
      BY <2>1, <2>3, <3>1, StatsNat DEF Scanning, Sent
    <3>3. Due(f)' => Waiting(f)'
      BY <2>1, <2>3 DEF Due, Waiting, Booked
    <3>. QED
      BY <2>1, <2>3, <3>2, <3>3, BooksTraces
  <2>. QED
    BY <2>2, <2>3
<1>14. CASE ScanOcrQueue
  <2>1. /\ scan.pc = "ocr" /\ scan'.pc = "extract" /\ scan'.pending = scan.pending
        /\ scan'.confirmed = scan.confirmed /\ UNCHANGED <<disk, manifest, server, work>>
    BY <1>14 DEF ScanOcrQueue, DocInv, TypeOK
  <2>2. PICK e : e = [stat |-> scan.confirmed[f].stat, text |-> Missing]
    OBVIOUS
  <2>3. /\ queue'["extract"] = queue["extract"]
        /\ queue'["ocr"][f] = IF scan.confirmed[f] = None THEN queue["ocr"][f]
                              ELSE IF NeedsOcr(f) THEN e ELSE None
    BY <1>14, <2>2 DEF ScanOcrQueue, DocInv, TypeOK, Workers
  <2>4. Scanning(f)'
    BY <2>1 DEF Traced, Scanning, Sent
  <2>5. CASE scan.confirmed[f] = None
    <3>1. \A w \in Workers : queue'[w][f] = queue[w][f]
      BY <2>3, <2>5 DEF Workers
    <3>. QED
      BY <2>1, <2>4, <2>5, <3>1, ScannerTraces DEF Booked
  <2>6. CASE scan.confirmed[f] # None
    <3>1. /\ Sent(f, scan.confirmed[f]) /\ scan.pending[f] = None
          /\ manifest[f] = scan.confirmed[f].stat
      BY <2>1, <2>6 DEF Traced, Scanning
    <3>2. e # None /\ e.stat = manifest[f]
      BY <2>2, <2>6, <3>1, NoneAssumption, BoundAssumption
         DEF DocInv, TypeOK, Lists, Entries, Versions, Missing
    <3>3. NeedsOcr(f)' <=> NeedsOcr(f)
      BY <2>1 DEF NeedsOcr
    <3>4. NeedsOcr(f) => EntryOK(f, "ocr", e)'
      BY <2>1, <3>2, <3>3, StatsNat DEF EntryOK
    <3>5. ASSUME NEW w \in Workers, queue'[w][f] # None, queue'[w][f] # queue[w][f]
          PROVE  EntryOK(f, w, queue[w][f])'
      <4>1. w = "ocr" /\ NeedsOcr(f) /\ queue'[w][f] = e
        BY <2>3, <2>6, <3>5 DEF Workers
      <4>. QED
        BY <3>4, <4>1 DEF EntryOK, NeedsOcr
    <3>6. Due(f)' => Waiting(f)'
      <4>1. CASE NeedsOcr(f)
        <5>1. queue'["ocr"][f] = e
          BY <2>3, <2>6, <4>1
        <5>. QED
          BY <2>1, <3>2, <5>1 DEF Due, Waiting, InQueue, Workers
      <4>2. CASE ~NeedsOcr(f)
        BY <2>1, <2>6, <3>1, <3>3, <4>2 DEF Due, Waiting, Booked
      <4>. QED
        BY <4>1, <4>2
    <3>. QED
      BY <2>1, <2>4, <2>6, <3>1, <3>5, <3>6, BooksTraces
  <2>. QED
    BY <2>5, <2>6
<1>15. CASE ScanExtractQueue
  <2>1. PICK next : next \in {"flush", "off", "walk"}
                    /\ scan' = [scan EXCEPT !.confirmed = Nothing, !.pc = next]
    BY <1>15, ScanNextFacts DEF ScanExtractQueue
  <2>2. /\ scan'.pc = next /\ scan'.pending = scan.pending /\ scan'.confirmed = Nothing
        /\ scan.pc = "extract" /\ UNCHANGED <<disk, manifest, server, work>>
    BY <1>15, <2>1 DEF ScanExtractQueue, DocInv, TypeOK
  <2>3. /\ queue'["ocr"] = queue["ocr"]
        /\ queue'["extract"][f] = IF scan.confirmed[f] # None /\ ~NeedsOcr(f)
                                  THEN scan.confirmed[f] ELSE queue["extract"][f]
    BY <1>15 DEF ScanExtractQueue, DocInv, TypeOK, Workers
  <2>4. Scanning(f)'
    BY <1>1, <2>1, <2>2 DEF Traced, Scanning, Sent
  <2>5. CASE scan.confirmed[f] = None \/ NeedsOcr(f)
    <3>1. \A w \in Workers : queue'[w][f] = queue[w][f]
      BY <2>3, <2>5 DEF Workers
    <3>. QED
      BY <1>1, <2>2, <2>4, <2>5, <3>1, ScannerTraces DEF Booked
  <2>6. CASE scan.confirmed[f] # None /\ ~NeedsOcr(f)
    <3>1. Sent(f, scan.confirmed[f]) /\ manifest[f] = scan.confirmed[f].stat
      BY <2>2, <2>6 DEF Traced, Scanning
    <3>2. <<f, scan.confirmed[f].text>> \notin Blank
      BY <2>6, FileAssumption DEF NeedsOcr
    <3>3. scan.confirmed[f].stat <= manifest[f]
      BY <2>6, <3>1, StatsNat
    <3>4. ASSUME NEW w \in Workers, queue'[w][f] # None, queue'[w][f] # queue[w][f]
          PROVE  EntryOK(f, w, queue[w][f])'
      <4>1. w = "extract" /\ queue'[w][f] = scan.confirmed[f]
        BY <2>3, <2>6, <3>4 DEF Workers
      <4>. QED
        BY <1>1, <2>2, <3>1, <3>2, <3>3, <4>1 DEF EntryOK, Sent
    <3>5. Due(f)' => Waiting(f)'
      BY <2>2, <2>3, <2>6, <3>1 DEF Due, Waiting, InQueue, Workers
    <3>. QED
      BY <1>1, <2>2, <2>4, <2>6, <3>1, <3>4, <3>5, BooksTraces
  <2>. QED
    BY <2>5, <2>6
<1>. QED
  BY <1>6, <1>8, <1>9, <1>11, <1>12, <1>13, <1>14, <1>15 DEF ScanStep

\* Starting a worker, killing a process where it tears no books and editing files keep
\* the trace of what is still on disk.
LEMMA OthersTrace ==
  ASSUME DocInv, OneWorker, Staggered, NEW f \in Files, Traced(f), ~TearsBooks,
         \/ \E w \in Workers : WorkStart(w)
         \/ Crash \/ UNCHANGED vars \/ \E g \in Files : Change(g)
  PROVE  Present(f)' => Traced(f)'
<1>1. Nothing[f] = None
  BY DEF Nothing
<1>2. ASSUME NEW w \in Workers, WorkStart(w) PROVE Traced(f)'
  <2>1. /\ work'[w].pc = "check" /\ work'[w].todo = queue[w] /\ work'[w].live = work[w].live
        /\ Alone(w)
    BY <1>2 DEF WorkStart, Alone, DocInv, TypeOK
  <2>2. work[w].live[f] = None
    BY <1>2 DEF WorkStart, Traced, Listed
  <2>. QED
    BY <1>2, <2>1, <2>2, QuietTraces DEF WorkStart
<1>3. CASE Crash
  <2>1. CASE ScanKilled
    <3>1. /\ scan.pc # "off"
          /\ scan'.pc = "off" /\ scan'.pending = Nothing /\ scan'.confirmed = Nothing
          /\ UNCHANGED <<disk, manifest, queue, server, work>>
      BY <1>3, <2>1 DEF Crash, ScanKilled, ScanOff
    <3>2. crashes' # crashes
      BY <1>3 DEF Crash, DocInv, TypeOK
    <3>3. scan.pc \notin {"ocr", "extract"}
      BY <3>1, <3>2 DEF TearsBooks
    <3>4. Scanning(f)'
      BY <1>1, <3>1 DEF Traced, Scanning
    <3>. QED
      BY <1>1, <3>1, <3>3, <3>4, ScannerTraces DEF Booked
  <2>2. ASSUME NEW w \in Workers, WorkKilled(w) PROVE Traced(f)'
    <3>1. work'[w] = WorkOff /\ Alone(w)
      BY <2>2 DEF WorkKilled, Alone, OneWorker, Workers, DocInv, TypeOK
    <3>2. WorkOff.pc = "off" /\ WorkOff.todo = Nothing /\ WorkOff.live = Nothing
      BY DEF WorkOff
    <3>. QED
      BY <1>1, <1>3, <2>2, <3>1, <3>2, QuietTraces DEF Crash, WorkKilled
  <2>. QED
    BY <1>3, <2>1, <2>2 DEF Crash
<1>4. ASSUME UNCHANGED <<manifest, queue, server, scan, work>>, disk'[f] = disk[f]
      PROVE  Traced(f)'
  <2>1. Scanning(f)'
    BY <1>4 DEF Traced, Scanning, Sent
  <2>2. Listed(f)'
    BY <1>4 DEF Traced, Listed, InHandOK, EntryOK, InQueue, NeedsOcr
  <2>3. \A w \in Workers : AtWork(f, w)'
    BY <1>4 DEF Traced, AtWork, Due, WentThrough, InQueue
  <2>4. OnItsWay(f)' /\ OutrunWaits(f)'
    BY <1>4 DEF Traced, OnItsWay, OutrunWaits, Due, Waiting, Booked, InQueue, NeedsOcr, WentThrough
  <2>. QED
    BY <2>1, <2>2, <2>3, <2>4 DEF Traced
<1>5. CASE UNCHANGED vars
  BY <1>4, <1>5 DEF vars
<1>6. ASSUME NEW g \in Files, Change(g), Present(f)' PROVE Traced(f)'
  <2>1. UNCHANGED <<manifest, queue, server, scan, work>>
    BY <1>6 DEF Change
  <2>2. CASE disk'[f] = disk[f]
    BY <1>4, <2>1, <2>2
  <2>3. CASE disk'[f] # disk[f]
    <3>1. PICK v \in {Missing} \cup (disk[g] + 1)..MaxVersion : disk' = [disk EXCEPT ![g] = v]
      BY <1>6 DEF Change
    <3>2. disk'[f] \in Nat /\ disk[f] < disk'[f]
      BY <1>6, <2>3, <3>1, StatsNat, BoundAssumption DEF Present, DocInv, TypeOK, Missing
    <3>3. manifest[f] < disk'[f] /\ ~Due(f)'
      BY <2>1, <3>2, StatsNat DEF Traced, Scanning, Due
    <3>4. Scanning(f)'
      <4>1. \A x \in {scan.pending[f], scan.confirmed[f]} \ {None} : Sent(f, x) => Sent(f, x)'
        BY <3>2, StatsNat DEF Sent
      <4>2. scan.stat <= disk[f] => scan.stat <= disk'[f]
        BY <3>2, StatsNat
      <4>3. manifest[f] <= disk'[f] /\ manifest[f] # disk'[f]
        BY <3>2, <3>3, StatsNat
      <4>. QED
        BY <2>1, <4>1, <4>2, <4>3 DEF Traced, Scanning
    <3>5. ASSUME NEW w \in Workers,
                 NEW x \in {queue[w][f], work[w].todo[f], work[w].live[f]} \ {None}
          PROVE  EntryOK(f, w, x)' /\ x.stat # disk'[f]
      <4>1. EntryOK(f, w, x)
        BY <3>5 DEF Traced, Listed, InHandOK
      <4>2. x.stat \in Nat /\ x.text \in Nat /\ manifest[f] \in Nat /\ disk[f] \in Nat
        BY <3>5, StatsNat
      <4>3. x.text <= disk[f] => x.text <= disk'[f]
        BY <3>2, <4>2
      <4>4. x.stat # disk'[f]
        BY <3>2, <3>3, <4>1, <4>2 DEF EntryOK
      <4>. QED
        BY <2>1, <4>1, <4>3, <4>4 DEF EntryOK, NeedsOcr
    <3>6. Listed(f)'
      <4>1. \A w \in Workers : queue[w][f] # None => EntryOK(f, w, queue[w][f])'
        BY <2>1, <3>5 DEF EntryOK, NeedsOcr
      <4>2. \A w \in Workers :
              /\ work[w].todo[f] # None => InHandOK(f, w, work[w].todo[f])'
              /\ work[w].live[f] # None => InHandOK(f, w, work[w].live[f])'
        BY <2>1, <3>5 DEF InHandOK, EntryOK, NeedsOcr
      <4>. QED
        BY <2>1, <4>1, <4>2 DEF Traced, Listed, InHandOK
    <3>7. ASSUME NEW w \in Workers PROVE AtWork(f, w)'
      <4>1. work[w].seen <= disk[f] => work[w].seen <= disk'[f]
        BY <3>2, StatsNat
      <4>. QED
        BY <2>1, <3>3, <4>1 DEF Traced, AtWork
    <3>8. OnItsWay(f)' /\ OutrunWaits(f)'
      BY <3>3 DEF OnItsWay, OutrunWaits
    <3>. QED
      BY <3>4, <3>6, <3>7, <3>8 DEF Traced
  <2>. QED
    BY <2>2, <2>3
<1>. QED
  BY <1>2, <1>3, <1>5, <1>6

LEMMA CareInit == Init => CareInv
<1> SUFFICES ASSUME Init PROVE CareInv
  OBVIOUS
<1>1. /\ WorkOff.pc = "off" /\ WorkOff.todo = Nothing /\ WorkOff.live = Nothing
      /\ ScanOff.pc = "off" /\ ScanOff.pending = Nothing /\ ScanOff.confirmed = Nothing
  BY DEF WorkOff, ScanOff
<1>2. OneWorker
  BY <1>1 DEF Init, OneWorker, Workers
<1>3. ASSUME NEW f \in Files PROVE Traced(f)
  <2>1. Nothing[f] = None
    BY DEF Nothing
  <2>2. /\ disk[f] = 1 /\ manifest[f] = 0 /\ scan = ScanOff
        /\ \A w \in Workers : queue[w][f] = None /\ work[w] = WorkOff
    BY <2>1 DEF Init, Missing
  <2>3. Scanning(f) /\ Listed(f) /\ ~Due(f)
    BY <1>1, <2>1, <2>2 DEF Scanning, Listed, Due
  <2>4. \A w \in Workers : AtWork(f, w)
    BY <1>1, <2>2 DEF AtWork
  <2>. QED
    BY <2>3, <2>4 DEF Traced, OnItsWay, OutrunWaits
<1>. QED
  BY <1>2, <1>3, DocInvInit DEF CareInv, AllTraced

LEMMA CareStep ==
  Staggered /\ CareInv /\ [Next /\ ~DropsNewer /\ ~TearsBooks]_vars => CareInv'
<1> SUFFICES ASSUME Staggered, DocInv, OneWorker, AllTraced,
                    [Next /\ ~DropsNewer /\ ~TearsBooks]_vars
             PROVE  CareInv'
  BY DEF CareInv
<1>1. ASSUME NEW f \in Files, Present(f)' PROVE Traced(f)'
  <2>1. Present(f)
    <3>1. CASE \E g \in Files : Change(g)
      BY <1>1, <3>1 DEF Change, Present, DocInv, TypeOK
    <3>2. CASE ~ \E g \in Files : Change(g)
      <4>1. UNCHANGED disk
        BY <3>2 DEF Next, vars, ScanStart, ScanStep, ScanStat, ScanRead, ScanPosted,
           ScanUnanswered, ScanManifest, ScanOcrQueue, ScanExtractQueue, WorkStart, WorkStep,
           WorkCheck, CannotOcr, WorkOpens, WorkOpen, WorkAnswered, WorkAccepted, WorkRefused,
           WorkStops, WorkDrop, HandOver, Crash
      <4>. QED
        BY <1>1, <4>1 DEF Present
    <3>. QED
      BY <3>1, <3>2
  <2>2. Traced(f)
    BY <2>1 DEF AllTraced
  <2>3. CASE UNCHANGED vars
    <3>1. ~TearsBooks
      BY <2>3 DEF vars, TearsBooks
    <3>. QED
      BY <1>1, <2>2, <2>3, <3>1, OthersTrace
  <2>4. CASE Next /\ ~DropsNewer /\ ~TearsBooks
    BY <1>1, <2>1, <2>2, <2>4, ScanTraces, WorkTraces, OthersTrace DEF Next
  <2>. QED
    BY <2>3, <2>4
<1>. QED
  BY <1>1, DocInvStep, OneWorkerStep DEF CareInv, AllTraced

\* The two steps the counterexamples to Settled show are all that can unsettle a document:
\* when no worker drops a newer entry and no kill falls between the manifest and the queues,
\* a file at rest on which OCR does not throw has been through its stages, whatever else is
\* killed, edited or refused.
THEOREM SettlesWithCare == CarefulSpec => [](Staggered => Settled)
<1> DEFINE Inv == Staggered => CareInv
<1>1. Init => Inv
  BY CareInit
<1>2. Inv /\ [Next /\ ~DropsNewer /\ ~TearsBooks]_vars => Inv'
  BY CareStep
<1>3. Inv => (Staggered => Settled)
  <2> SUFFICES ASSUME CareInv, AtRest, NEW f \in Files, disk[f] # Missing,
                      manifest[f] = disk[f], <<f, disk[f]>> \notin OcrThrows,
                      {<<w, f>> : w \in Workers} \cap Refused = {}
               PROVE  WentThrough(f)
    BY DEF Settled
  <2>1. OnItsWay(f) /\ Scanning(f)
    BY DEF CareInv, AllTraced, Present, Traced
  <2>2. Due(f)
    BY DEF Due
  <2>3. ~Booked(f)
    BY DEF AtRest, Booked
  <2>4. \A w \in Workers : ~InQueue(f, w)
    BY DEF AtRest, InQueue, Nothing
  <2>. QED
    BY <2>1, <2>2, <2>3, <2>4 DEF OnItsWay, Waiting
<1> HIDE DEF Inv
<1>. QED
  BY <1>1, <1>2, <1>3, PTL DEF CarefulSpec
=============================================================================
