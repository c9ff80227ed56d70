----------------------------- MODULE PhotoLibrary -----------------------------
(***************************************************************************)
(* The photo connector (src/connectors/photo-exif): scan.js sends what EXIF *)
(* says of a new photo and keeps a manifest of what it need not look at     *)
(* again; caption-worker.js and face-worker.js send the same artifact with  *)
(* a longer text; the label command names a cluster of faces and sends its  *)
(* photos once more. Every upsert replaces the whole text, so each program  *)
(* must rebuild what the others wrote from the files it shares with them.   *)
(*                                                                          *)
(* Cron runs them in their own windows, one at a time (README, "Nightly     *)
(* window"); any of them may be killed between two awaits and any request   *)
(* may fail. Faces form one cluster; a caption is a caption whatever it     *)
(* says; file names, EXIF and hints are left out.                           *)
(***************************************************************************)
EXTENDS Naturals, Sequences, FiniteSets

CONSTANTS
  Hash,            \* Hash[f]: the content of the f-th image file below PHOTO_ROOT; a
                   \* Takeout holds copies of one photo
  MaxStat,         \* bound: the first file whose stat gets here is the last to change
  PhotoBatchMax,   \* BATCH_MAX
  MaxPhotoFaults   \* bound: failed requests and kills

Photos == DOMAIN Hash
Contents == {Hash[f] : f \in Photos}
Stats == 0..MaxStat    \* 0: no entry

ASSUME PhotoAssumption ==
  /\ Hash \in Seq(Contents) /\ MaxStat \in Nat \ {0}
  /\ PhotoBatchMax \in Nat \ {0} /\ MaxPhotoFaults \in Nat

VARIABLES
  stat,        \* stat[f]: mtime and size of f
  artifact,    \* artifact[c]: what the server keeps for content c
  skip,        \* skip[f]: the stat the manifest file holds for f
  captions,    \* the files whose caption the caption cache holds
  face,        \* face[f]: the entry of f in the face-state file
  labelled,    \* the clusters file holds a name for the cluster
  run,         \* the memory of the program that runs
  photoFaults

photoVars == <<stat, artifact, skip, captions, face, labelled, run, photoFaults>>
disk == <<captions, face, labelled>>

\* An artifact: stored at all, its text with a caption and with "Pictured: ...".
Artifacts == [stored : BOOLEAN, caption : BOOLEAN, named : BOOLEAN]
Nothing == [stored |-> FALSE, caption |-> FALSE, named |-> FALSE]
WithText(caption, named) == [stored |-> TRUE, caption |-> caption, named |-> named]

\* What a face entry remembers of the payload last sent for the file.
Unsent == <<>>
Signature(f) == <<f \in captions, labelled>>

\* A program walks the files in their order, holds the manifest in memory (`mem`) and
\* has some files in hand, with the stat it took of each.
NoRun == [who |-> "none", pc |-> "none", next |-> 1, batch |-> {}, mem |-> skip]
InHand(f) == \E e \in run.batch : e[1] = f
Take(f, pc) == [run EXCEPT !.pc = pc, !.batch = {<<f, stat[f]>>}]
Start(who) ==
  /\ run.who = "none"
  /\ run' = [NoRun EXCEPT !.who = who, !.pc = "walk"]
Doing(who, pc) == run.who = who /\ run.pc = pc
Reached(f) == run.next = f
Passed(f) == [run EXCEPT !.pc = "walk", !.next = f + 1, !.batch = {}]
Fault == photoFaults < MaxPhotoFaults /\ photoFaults' = photoFaults + 1

PhotoInit ==
  /\ stat = [f \in Photos |-> 1]
  /\ artifact = [c \in Contents |-> Nothing]
  /\ skip = [f \in Photos |-> 0]
  /\ captions = {} /\ labelled = FALSE /\ photoFaults = 0
  /\ face = [f \in Photos |-> [stat |-> 0, sent |-> Unsent]]
  /\ run = NoRun

\* Unzipping an export again resets the mtime of its files.
Touch(f) ==
  /\ \A g \in Photos : stat[g] < MaxStat
  /\ stat' = [stat EXCEPT ![f] = @ + 1]
  /\ UNCHANGED <<artifact, skip, disk, run, photoFaults>>
-----------------------------------------------------------------------------
(* scan.js *)

StartScan == Start("scan") /\ UNCHANGED <<stat, artifact, skip, disk, photoFaults>>

Mark(entries) ==
  [f \in Photos |-> IF \E e \in entries : e[1] = f
                    THEN (CHOOSE e \in entries : e[1] = f)[2] ELSE run.mem[f]]

\* Files are walked until a batch is full or none is left; copies of one photo share an
\* item. Now and then the manifest is written on the way, and once more at the end.
Walk ==
  LET Changed(to) == {f \in run.next..to : run.mem[f] # stat[f]}
      Full(to) == Cardinality({Hash[f] : f \in Changed(to)}) >= PhotoBatchMax
      N == Len(Hash)
  IN
  /\ Doing("scan", "walk")
  /\ \/ /\ Changed(N) = {}
        /\ skip' = run.mem
        /\ run' = [NoRun EXCEPT !.mem = skip']
     \/ /\ Changed(N) # {}
        /\ \E to \in run.next..N :
             /\ \A f \in run.next..(to - 1) : ~Full(f)
             /\ Full(to) \/ to = N
             /\ run' = [run EXCEPT !.pc = "ask", !.next = to + 1,
                                   !.batch = {<<f, stat[f]>> : f \in Changed(to)}]
        /\ skip' \in {skip, run.mem}
  /\ UNCHANGED <<stat, artifact, disk, photoFaults>>

\* POST /exists: what the server has is marked and sent no more.
Ask ==
  LET known == {e \in run.batch : artifact[Hash[e[1]]].stored}
      new == run.batch \ known
  IN  /\ Doing("scan", "ask")
      /\ run' = [run EXCEPT !.mem = Mark(known), !.batch = new,
                            !.pc = IF new = {} THEN "walk" ELSE "send"]
      /\ UNCHANGED <<stat, artifact, skip, disk, photoFaults>>

\* Definitions named Bad... are faults the code could have had in the definition that
\* follows; they serve to show that a property notices.
BadConfirmedBy(stored) == run.batch    \* every item of a batch that got its 200
ConfirmedBy(stored) == {e \in run.batch : Hash[e[1]] \in stored}

\* One item per content, whichever copies are in the batch; each succeeds or fails.
SendBatch ==
  LET sent == {Hash[e[1]] : e \in run.batch} IN
  /\ Doing("scan", "send")
  /\ \E stored \in SUBSET sent :
       /\ artifact' = [c \in Contents |-> IF c \in stored THEN WithText(FALSE, FALSE) ELSE artifact[c]]
       /\ run' = [run EXCEPT !.pc = "hear", !.batch = ConfirmedBy(stored)]
       /\ IF stored = sent THEN UNCHANGED photoFaults ELSE Fault
  /\ UNCHANGED <<stat, skip, disk>>

Marked ==
  /\ Doing("scan", "hear")
  /\ run' = [run EXCEPT !.pc = "walk", !.mem = Mark(run.batch), !.batch = {}]
  /\ UNCHANGED <<stat, artifact, skip, disk, photoFaults>>
-----------------------------------------------------------------------------
(* caption-worker.js: a file with a caption in the cache is passed over. *)

StartCaption == Start("caption") /\ UNCHANGED <<stat, artifact, skip, disk, photoFaults>>

SendCaption(f) ==
  \/ /\ artifact' = [artifact EXCEPT ![Hash[f]] = WithText(TRUE, FALSE)]
     /\ run' = Take(f, "save")
     /\ UNCHANGED photoFaults
  \/ run' = Passed(f) /\ Fault /\ UNCHANGED artifact
  \/ run' = NoRun /\ Fault /\ UNCHANGED artifact       \* the vision model is down

Caption(f) ==
  /\ Doing("caption", "walk") /\ Reached(f)
  /\ IF f \in captions THEN run' = Passed(f) /\ UNCHANGED <<artifact, photoFaults>>
                       ELSE SendCaption(f)
  /\ UNCHANGED <<stat, skip, disk>>

SaveCaption(f) ==
  /\ Doing("caption", "save") /\ InHand(f)
  /\ captions' = captions \cup {f}
  /\ run' = Passed(f)
  /\ UNCHANGED <<stat, artifact, skip, face, labelled, photoFaults>>

-----------------------------------------------------------------------------
(* face-worker.js: its scan, and its label command. *)

StartFaces == Start("face") /\ UNCHANGED <<stat, artifact, skip, disk, photoFaults>>

\* A new or changed file gets an entry that says nothing was sent for it.
Detect(f) ==
  /\ Doing("face", "walk") /\ Reached(f)
  /\ face' = IF face[f].stat = stat[f] THEN face
             ELSE [face EXCEPT ![f] = [stat |-> stat[f], sent |-> Unsent]]
  /\ run' = Take(f, "send")
  /\ UNCHANGED <<stat, artifact, skip, captions, labelled, photoFaults>>

\* The operator names the cluster; the name is on disk before anything is sent.
Label ==
  /\ ~labelled /\ \E f \in Photos : face[f].stat # 0
  /\ Start("label")
  /\ labelled' = TRUE
  /\ UNCHANGED <<stat, artifact, skip, captions, face, photoFaults>>

BadSettled(f) == face[f].sent # Unsent   \* a photo is sent once, whatever became of it
Settled(f) == face[f].sent = Signature(f)

Due(f) == face[f].stat # 0 /\ ~Settled(f)

\* buildPayload: base text, the caption from the cache, the names of the clusters. What
\* would only repeat the last payload is not sent.
SendFaces(f) ==
  /\ \/ Doing("face", "send") /\ InHand(f)
     \/ Doing("label", "walk") /\ Reached(f)
  /\ \/ ~Due(f) /\ run' = Passed(f) /\ UNCHANGED <<artifact, photoFaults>>
     \/ /\ Due(f)
        /\ artifact' = [artifact EXCEPT ![Hash[f]] = WithText(f \in captions, labelled)]
        /\ run' = Take(f, "save")
        /\ UNCHANGED photoFaults
     \/ Due(f) /\ run' = Passed(f) /\ Fault /\ UNCHANGED artifact
  /\ UNCHANGED <<stat, skip, disk>>

SaveFaces(f) ==
  /\ run.who \in {"face", "label"} /\ run.pc = "save" /\ InHand(f)
  /\ face' = [face EXCEPT ![f].sent = Signature(f)]
  /\ run' = Passed(f)
  /\ UNCHANGED <<stat, artifact, skip, captions, labelled, photoFaults>>

EndWalk ==
  /\ run.who \in {"caption", "face", "label"} /\ Reached(Len(Hash) + 1)
  /\ run' = NoRun
  /\ UNCHANGED <<stat, artifact, skip, disk, photoFaults>>
-----------------------------------------------------------------------------
\* A request that throws (/exists, the whole batch) or a kill ends a run; what it held
\* only in memory is gone.
Abort ==
  /\ run.who # "none" /\ Fault
  /\ run' = NoRun
  /\ UNCHANGED <<stat, artifact, skip, disk>>

Work ==
  \/ Walk \/ Ask \/ SendBatch \/ Marked \/ EndWalk
  \/ \E f \in Photos :
       \/ Caption(f) \/ SaveCaption(f)
       \/ Detect(f) \/ SendFaces(f) \/ SaveFaces(f)

PhotoNext ==
  \/ StartScan \/ StartCaption \/ StartFaces \/ Label \/ Work \/ Abort
  \/ \E f \in Photos : Touch(f)

\* Cron starts each program again and again, and a program that runs gets on. The
\* operator need not name anybody.
PhotoFairness ==
  /\ WF_photoVars(Work)
  /\ SF_photoVars(StartCaption) /\ SF_photoVars(StartFaces)
PhotoSpec == PhotoInit /\ [][PhotoNext]_photoVars /\ PhotoFairness

PhotoTypeOK ==
  /\ stat \in [Photos -> Stats \ {0}] /\ skip \in [Photos -> Stats]
  /\ artifact \in [Contents -> Artifacts]
  /\ captions \subseteq Photos /\ labelled \in BOOLEAN
  /\ face \in [Photos -> [stat : Stats, sent : {Unsent} \cup (BOOLEAN \X BOOLEAN)]]
  /\ run.who \in {"none", "scan", "caption", "face", "label"}
  /\ run.next \in 1..(Len(Hash) + 1) /\ run.mem \in [Photos -> Stats]
  /\ run.batch \subseteq Photos \X Stats
  /\ photoFaults \in 0..MaxPhotoFaults

\* A file the manifest lets the scan skip is on the server, whichever items of a batch
\* failed, wherever the scan died and however old the manifest it saved on the way: a
\* photo the server lacks is looked at again by the next scan.
SkippedIsStored == \A f \in Photos : skip[f] # 0 => artifact[Hash[f]].stored

\* Three programs each replace the whole text of one artifact, and still every photo
\* the server has ends up, for good, with its caption in it and, once its cluster is
\* labelled, with the name: a run that wrote less than the others know is noticed by
\* the next face run, whose entries remember what the text was last made of.
EnrichmentLands ==
  \A c \in Contents :
    artifact[c].stored ~> [](artifact[c].caption /\ (labelled => artifact[c].named))

\* The scan is a Delivery of photos: the server loses none of those it has, whatever the
\* workers send in its place, and no write of the manifest, on the way or at the end of
\* a scan, names a file whose photo the server lacks.
StoredPhotos == {c \in Contents : artifact[c].stored}
SkippedPhotos == {Hash[f] : f \in {g \in Photos : skip[g] # 0}}
PhotoPromise == INSTANCE Delivery WITH
  Items <- Contents, delivered <- StoredPhotos, passed <- SkippedPhotos
PhotosDeliver == PhotoPromise!Spec
=============================================================================
