# A TLA+ model of LifeContext

LifeContext keeps one person's mail, photos, documents and notes as *artifacts* in
a single SQLite database, links them to *entities* (people, organisations,
places, events) and answers searches over them. This directory holds
specifications of its core and of the parts around it, the TLC configurations that check them on small
instances, and proofs checked by TLAPS. Paths below are relative to the repository.

## The system and its parts

| Part | Code | State | Operations | Who it talks to |
|---|---|---|---|---|
| Artifact store | `src/db.js`, `src/ingest.js`, `src/embeddings.js` | `artifacts`, `vec_artifacts`, `artifacts_fts`, `ingest_log` | ingest (single, batch), store a note, upsert a digest or card | Ollama for vectors (the await); every caller below |
| Entity graph | `src/db.js` | `entities`, `entity_aliases`, `alias_tombstones`, `entity_links`, `unresolved_aliases`, `entity_relations` | resolve hints, create, edit, add/remove alias, merge, retroactive linking | called inside the transactions of ingest, import and approval |
| Review queue, directory | `src/db.js`, `src/server.js` | `proposed_entities`, `contact_directory` | propose, approve, reject, load, backfill | fed by hints, agents and scripts |
| vCard import | `src/contacts.js` | none of its own; what it read before an await | import new, re-import changed | store and graph, in one transaction per card |
| Backfills | `scripts/backfill-*.js` | ids read before a transaction | one-shot repairs | graph, store |
| Relations | `src/db.js`, `src/contacts.js` | `entity_relations`, staged relation hints | drawn by imports and by hand, moved by merges, repaired by a backfill | graph |
| Search | `src/search.js` | a TEMP candidate table per connection | hybrid search, retry, recency | store, Ollama |
| Consolidation | `src/consolidate.js` | none; `input_hash` in the digest's row | one digest per day; the timeline folds by it | LLM, store |
| Server | `src/server.js`, `src/access-log.js` | MCP sessions, open responses, one log stream per day | HTTP and MCP routes, shutdown, log pruning | everything above |
| iMessage connector | `connectors/imessage` | cursor file | page through chat.db, send, move the cursor | the ingest API |
| Claude hooks | `connectors/gh-event-claude`, `connectors/devsession-claude` | spool file | flush, send, append | the ingest API |
| Photo connector | `connectors/photo-exif` | manifest, caption cache, face state, clusters | scan, caption, detect faces, label | the ingest API |
| Documents connector | `connectors/documents` | manifest, two queues | scan, OCR, extract | the ingest API |
| Contacts page | `public/app.js` | the form, `currentId` | select, edit, upload, merge, create | the entity routes |
| Geocoding, set-up | `src/geocode.js`, `scripts/` | - | - | - |

One Node process serves all requests; headless scripts and connectors are further
processes. `better-sqlite3` is synchronous, so **a transaction is one atomic step of
its process**, and only an `await` (embedding, LLM, file I/O) lets another request in.
Between processes SQLite gives isolation: a commit can be refused (`SQLITE_BUSY`) but not
interleave. What makes the system hard is thus not inside the transactions but around
them: rows read before an await or before a transaction opens and used after it, and long
histories of legal operations on the identity graph in an order nobody tried.

What has to be right, part by part:
- *store*: text, vector and full-text row never come apart; originals are written once;
  the log reconstructs every version; a failure leaves whole records only;
- *graph*: nothing hangs on a merged entity; no hint is lost; nothing that was removed
  returns by itself; an alias has one owner and keeps it; confidence means evidence;
- *review queue*: an approval links everything that waits for it; decisions stand;
- *import*: racing imports do not change whom a card belongs to;
- *relations*: what one card tells of another contact is an edge once both are known; no edge ends nowhere;
- *search*: an answer is made of its own candidates, and nothing but the caller's wishes empties it;
- *consolidation*: no stale digest counts as up to date, since the timeline hides what a digest tells;
- *connectors*: nothing is marked as sent that the server has not answered for, no process undoes what
  another sent, and what is put aside for later is sent later;
- *server*: a signal ends it, with its log on disk; *page*: an edit goes to the contact that was edited.

`PROJECT.json` lists every hazard at its line, with the property that covers it or the reason none does.

## Modules

| Module | Role |
|---|---|
| `ArtifactPromise` | abstract specification: one record per upsert key, changed in atomic steps |
| `ArtifactStore` | the write path with its awaits, processes and failures; `Promise` is the refinement |
| `ArtifactStoreProofs` | theorems about it |
| `EntityGraph` | the identity graph, review queue, directory, vCard import and link backfill |
| `EntityGraphProofs` | theorems about it |
| `DocumentQueues` | the documents connector: scan, manifest, two queues, two workers, kills and restarts |
| `DocumentQueuesProofs` | theorems about it |
| `Delivery` | abstract specification: delivery at least once, the promise of the photo connector |
| `MessageFeed` | the iMessage connector: readers that share a cursor file |
| `HookSpool` | the Claude hooks: processes that share a spool file |
| `PhotoLibrary` | the photo connector: four programs that write one artifact |
| `ConnectorProofs` | theorems about these three |
| `SearchSession` | concurrent searches over one candidate table; filters, retry and rank fusion |
| `RelationGraph`, `RelationGraphProofs` | relations and staged relation hints through imports, merges and a backfill |
| `Consolidation` | overlapping digest runs, and the timeline that relies on them |
| `SearchProofs` | theorems about `SearchSession` and `Consolidation` |
| `ServerLife` | sessions, open requests, shutdown and access log of the server process |
| `ContactsPage` | the contacts page with answers late, out of order or lost |
| `ServerProofs` | theorems about these two |
| `Periphery` | composes the eight modules from `MessageFeed` to `ContactsPage` |
| `PeripheryProofs` | theorems about the composition |
| `MCArtifactStore`, `MCEntityGraph`, `MCReviewQueue`, `MCDocumentQueues`, `MCPeriphery` | instances for TLC |

Definitions named `Bad...` are faults the code could plausibly have had in the definition
after them (a dropped guard, a missing `COALESCE`, `OR REPLACE` for `OR IGNORE`). No
specification uses them: each is put in place of the real one to confirm that a property notices.

### ArtifactStore

A *writer* is one call of `executeIngest`, of the digest or card upsert, or of the
insert-only `storeArtifactTxn`. `req[w]` is where it stands: idle, awaiting its embedding,
or resumed. `Begin` is the code before the await: it reads the row, decides whether a vector is
needed (`NeedsVector`) and remembers in `seen` the label it read. `Embedded` resumes it and
`EmbedFails` rejects it. `CommitCreate`, `CommitUpdate`, `CommitDedup` and
`CommitThrows` are the outcomes of the transaction; `CommitBusy` is a commit SQLite
refuses because another process wrote; `Stop(p)` ends a process with all its
calls. `LoopFree` is the event loop: between resuming and committing no other call of
the same process runs, while writers of other processes may.

`row[k]` joins the artifact with its vector and full-text entry, each represented by the
text it was computed from. Of the eleven columns three stand for the three ways a column is written:
`text` (indexed), `label` (kept by `COALESCE`, geocoded when missing) and `hash` (write-once).
`past` is a history variable: every version that was committed.

### EntityGraph

One action per operation of `db.js`, each with its guards and everything it
changes. `owner` is `entity_aliases` (its `UNIQUE(alias, alias_type)` makes it a function),
`tombs` the tombstones, `link[a][e]` the link row abstracted to none, `inferred`
(at most 0.9) or `certain` (1.0), `staged` the `unresolved_aliases`, `status` and `resolved` the
proposals by their UNIQUE key. The import is split at its await: `ImportRead`
keeps what it learned (`known`) in `importing`, and `ImportExisting`, `ImportNew`
and `ImportChanged` are `importOneTxn` and `updateOneTxn`. The backfill is split
between its read (`sweep`) and its transaction. `heard` is a history variable:
every hint with the entity it resolved to.

Abstractions: links have one role; entities are persons and organisations (places and
events link by distance and time); emails and phones are one class of address, names
and handles one class of name; a card that has several owned addresses picks any of their owners
(the code takes the first). Relations are in `RelationGraph`; cards without a UID, photos and
display-name reduction are left out. What the outside sends is a constant:
`HintLists`, `CardContents`, `Suggestions`, `Export`, `Forms`, `Edits`.

### DocumentQueues

Three scripts that share nothing but files on disk. `scan` is the memory of `scan.js`: a walk that takes the
statKey of a file (`ScanStat`), reads the file later (`ScanRead`) and flushes when a batch
is full and at the end. `ScanPosted` is one group answered item by item; the bookkeeping after it is
three writes one after the other (`ScanManifest`, `ScanOcrQueue`, `ScanExtractQueue`).
`ScanUnanswered` is every way a batch fails as a whole: the server may have taken any of it, and the run ends.
`work[w]` is the memory of `ocr-worker.js` and `vendor-worker.js`, which share one
shape: read the queue once (`WorkStart`), drop the stale entries (`WorkCheck`), then per
live entry open, post, and drop. OCR reads the file when it opens the entry and hands the document to
the other queue before it drops it (`HandOver`); extraction takes the text from its entry. `dropEntry`
deletes by path, so `Drop` does too. `Crash` kills any process between any two steps.

A version stands for a statKey and the bytes behind it. `server[f]` keeps what a second upsert replaces: the version of the text, and how far
the document got. `content_hash` and `raw_path` are written once (`db.js:505-512`) and say nothing of versions. So the version of the text on the server may go
back, when a worker posts the older text in its hands; the history variable `taken[f]` is the version whose text the server last took from the scan. `CannotOcr` is
every throw between the read of the PDF and the last page, for which the code drops the entry (`ocr-worker.js:150`): on a version in `OcrThrows` it may come at
any try. `updateJsonFile` is one step; the code admits a window of microseconds
inside it (`lib/shared.js:131-135`) and the model does not look into it. `Unreadable`
covers oversize files, which the code skips before it reads them, and those `scan.js` cannot extract. Left out: entries that point outside the scan
root, corrupt state files, two scans at once, and a file that comes back after it was removed.

`Staggered` is the cron table of the connector's README, where `timeout 4h` ends the OCR worker before
extraction starts (and extraction, which has no timeout, is taken to end within the day); with `FALSE` both may run at once. The proofs hold for either value.

`CarefulSpec` is the same connector without two kinds of step: a worker that drops an entry newer than the one it took (`DropsNewer`), and a kill
of `scan.js` between its manifest and its queues (`TearsBooks`). The code can take both, as finding 5 and the paragraph after the findings say, so
no property that is checked or proved of the connector itself uses it; it serves to say that nothing else has their consequence.


### Delivery

What the photo connector promises with its manifest, the file of what need not be sent again. `delivered` only grows; `passed` is
written from what was delivered, and may shrink, since an older run may write an older file. It says nothing of runs, batches, failures
or of how many programs there are. `PhotoLibrary` names what it maps to it (`PhotoPromise`: photos by content, in the manifest). That `delivered` grows is not for granted there: four programs replace the
same artifacts. The other connectors do not refine it. In the iMessage connector nothing is ever replaced, so it would say no more than `CursorSafe`; in the documents
connector a worker may put an older text over a newer one; and the hooks' spool may lose a line, and `OnlyOverlapLoses` says when.

### MessageFeed

`rows` is the snapshot of chat.db the helper keeps, `cursor` the cursor file, `reader[p]` what one process knows in the
middle of a pass: the page it is at, and the payloads of it still to be sent. `BeginPass` is `runPass` up to
its first await, `ServerAnswers` a batch at the server, `Hear` the reader's reaction: the next batch, or the
cursor and the next page. The answer and what the reader makes of it are two steps, so that `EndPass` (a failed request, a
kill) falls between them. A row is a text, an image, both, or a tapback, which has no payload; so there are pages without a request.
The payloads of a page are a set, and a batch is chosen by what it must be (`IsBatch`): as many as fit, and none that is left comes before one that is taken.
On a live database a later page of a pass sees rows that came since, on a snapshot it does not. The server
answers 200 whatever became of the items, and the cursor moves on: an item that failed only because the embedding gateway was down is not sent
again. The code says so of items that fail validation (`connectors/imessage/index.js:191-192`) and does not tell the two apart.

### HookSpool

A hook is one process per event, numbered as they fire; its number also stands for its payload. It reads the spool
(`ReadSpool`), sends it line by line (`FlushLine`), writes back what failed (`Rewrite`), works out its own payload
(`Capture`), sends that (`PostOwn`) or appends it (`AppendOwn`). `Kill` may come anywhere, and in the middle of `writeFile` it leaves a prefix.
`appended`, `exposed`, `torn` and `taken` are history variables: which lines were ever put aside, which of them while another hook was between
its read and its rewrite, which a torn rewrite held, and which the server took. Both connectors have this
shape; which events they capture and how a session is summarised is a choice of `Capture`.

### PhotoLibrary

`scan.js` holds its manifest in memory (`run.mem`) and on file (`skip`), asks `/exists` for each batch (`Ask`), sends what is new with any of the
items failing (`SendBatch`) and marks what was confirmed (`Marked`). `caption-worker.js`
(`Caption`, `SaveCaption`), the scan of `face-worker.js` (`Detect`, `SendFaces`, `SaveFaces`) and its label command (`Label`) rewrite the text of
the same artifact. `Hash[f]` is the content of a file: copies of a photo share one artifact, while caption cache and face
state are kept per file. Cron gives every program a window of its own, so one runs at a time, and `Abort` ends it anywhere. There is one
cluster of faces; a caption is present or not, whatever it says; videos and EXIF are left out.

### SearchSession

A search is `hybridSearch` cut at its two awaits: `Begin`, `HearPlan`, `HearEmbedding`. All searches share
`table`, the TEMP table of the connection. A filter is absent, inert (a name that does not resolve) or filters; the
caller's filter takes the place of the planner's of the same kind even when it is inert, as in the code. If nothing passes, the planner's filters and its
wish for the latest are dropped (`Candidates`, `Order`). An order gives artifacts a place (`Recency`, `Nearest`, `Worded`), and an answer is
chosen by the condition it meets (`Best`): in front of each result are just those that beat it. Rank fusion is exact: a score is a fraction. An embedding may
fail, and then only words rank. Prompt, distances and full-text syntax are data: `Plans`, `Nearest`, `Worded`.

### RelationGraph

Every operation is one transaction, so one step, but an import: `ImportLooks` is `importContacts` up to its await, which keeps in `imports[i]` the card, its text and whether
there was an artifact to update; `ImportCard` is the transaction after it, `ImportFails` a failed embedding. The transaction is `updateOneTxn` or `importOneTxn`
as far as relations go (`Refresh`): a name that resolves to another becomes an edge, an employer who does not is minted, any other name is
staged as a hint. If another import stored the card meanwhile, `importOneTxn` has resolved or minted a person and given it the names by the time the store reports a dedup, and skips its
relations and the staged hints (`StoredMeanwhile`). `CreateByHand`, `RemoveName`, `DrawEdge`, `RemoveRelation`, `Merge` and `BackfillRelations` are the
other operations that touch edges or the names hints are looked up by. Names that resolve alike are one label; an import mints at most
one employer, and takes it last, as `importOneTxn` appends it. `ever`, `cut`, `handled` and `revived` are history variables. Two behaviours of the code show
in them: a name removed, added by hand, given to a minted employer or by an import that came too late looks up no hints (`handled`), and `backfill-relations.js` gives merged
persons their display name back if nobody has it, tombstone or not (`revived`).

### Consolidation

A run takes its days oldest first and has two awaits per day: `ReadDay`, `HearDigest`, `StoreDigest`; `RunFails` is every failure and a kill.
`digest[d]` holds the rows the digest was made from and those its `input_hash` names; a day
whose hash is that of its present rows is skipped, and rows beyond the cap are not told. `late` is a history variable: what
came or changed after the digest in place had read its day, nothing while there is none. `TimelineRows` is `timeline` over a span long enough to fold.
Digest and timeline have a calendar each: `DayOf` is the day `occurred_at` begins with (`consolidate.js:31`), `TimelineDay` the one SQLite's `date()` makes of it
(`search.js:210`), another for a time near midnight with an offset, and none for a text that is no date; ingest takes any string (`ingest.js:67`).

### ServerLife

A request is accepted, waits in asynchronous middleware, is handled, and ends; its log line is written when it has ended.
`Signal` stops listening and closes every session, which ends the responses open on it; `CloseLog` runs when
every connection has ended, `LogClosed` when the stream has flushed, then `ExitClean`; `ExitForced` is the 10-second
timer. The log is a stream per UTC day (`streamOf`); `Flush`, `Tear`, `Midnight` and `Prune` are the disk, a failed
stream (which is kept until midnight), the clock, and the pruning at boot, which takes its cutoff first and lists the directory
later. A second signal finds no stream to wait for and exits while the first one's flush is under way.

### ContactsPage

`currentId` is the contact that was asked for last, `form` what the last answer built; they differ while a GET is under way.
Each click sends a request, each request is served, fails or gets lost, and its answer acts on the page
whenever it comes back (`ShowProfile`, `GoOn`). Of an entity only the photo is kept, as a number: what a save
stores matters by the contact it goes to. `strayed` is a history variable: the operations that reached another contact
than the one whose form was shown when they were sent.

### Periphery

These eight parts share no state that the models keep: each has files, a process, a page or tables of its own, and reaches
the others only through ingest, whose outcomes are choices in each. So a behaviour has one part `inFocus` and the others stay put: what each part can do
is checked in full, and the state spaces add up instead of multiplying. Fairness is stated for the part in focus.

## Runs

| Run | Shows | Bounds | Distinct states |
|---|---|---|---|
| `artifact_store` | type, `IndexesFollowText`, `LogReconstructs`, `LabelGivesWayOnlyUnseen`, refinement `KeepsPromise` | 1 key, 2 server calls + 1 of another process, 2 texts, 2 labels, `MaxVersions` 3 | 358 167 |
| `entity_graph` | type, `NothingOnMerged`, `NoMergeCycle`, `HintsHonored`, `ListedAddressResolves`, `TombstonesHonored`, `NoAliasTheft`, `LinkGivesWayOnlyInMerge` | 3 entities, 1 artifact, 1 name, 1 address, 1 card in 2 versions | 2 251 636 |
| `review_queue` | `CertainHasAddress`, `ApprovalLinksQueue`, `DecisionsFinal`, `SelfLinkStays` | 2 entities, 2 names, 1 address, 2 racing imports | 227 298 |
| `document_queues` | type, `ManifestConfirmed`, `NeverStranded`, liveness `CaughtUp`, `Drained` | a scanned PDF edited up to twice or removed (OCR may throw on its 2nd version or find no text, the 3rd cannot be read), a DOCX whose extraction is refused, 1 kill, workers staggered | 92 320 |
| `periphery` | types and the sixteen properties of the eight parts listed below, liveness `RowsPassed`, `EnrichmentLands`, `ShutdownEnds` and refinement `PhotosDeliver` among them | below | 372 064 |
| `place_label` | violation, finding 1 | as `artifact_store` | - |
| `merge_confidence` | violation, finding 2 | 2 entities | - |
| `name_shadows_address` | violation, finding 3 | 2 entities | - |
| `rejected_again` | violation, finding 4 | 2 spellings of one sender | - |
| `drop_of_newer` | violation, finding 5 | one edit, no kill | - |
| `kill_strands` | violation, finding 6 | one kill, no edit, workers overlap | - |
| `photo_to_other` | violation, finding 7 | 2 contacts, 2 requests, 1 photo | - |

Besides the runs, `document_settles.cfg` is there to check `Settled` of `CarefulSpec` by hand (`tlc -config document_settles.cfg MCDocumentQueues`:
three edits, two kills, lost answers, 835 219 distinct states), the small instance of the theorem `SettlesWithCare`.

Why the bounds are enough: keys do not influence each other, and a race on one needs two calls of one
process and one of another, so one key with three writers has every order. `MaxVersions` stops
new calls on a key with three versions; calls under way still finish, so sequences go
past it. Three entities give chains of merges and a merge into an entity that
was merged into before; one name and one address give every conflict between deterministic and
inferred evidence. Symmetry over entities and importers is used where only
safety is checked. Deadlock is checked in every run. In `document_queues` two files are needed
for batches that split and fail in part and for entries behind one another; an edit meets every pair of
steps of the other processes, and so does one kill. The second edit leads from a version on which OCR throws to one that no extractor reads.

In `periphery` each part has the smallest instance in which two of its actors meet and one of them fails between any two steps:

- iMessage: two readers, three rows in pages of two and batches of two, one failed request or kill: a full page, a short one, a page
  that splits into batches, one reader overtaking the other with an older cursor;
- hooks: three, two of them for one `source_id`, one kill: a line written by one, flushed by another, rewritten by a third;
- photos: three files of which two are copies, batches of two, one changed stat, one fault: a copy inside and across batches,
  and every order of the four programs, which run again without limit;
- searches: two over five artifacts, four requests and five plans whose filters match nothing, resolve to nothing or disagree;
- relations: two cards that tell of each other, one in two versions of which the second bears the other's name, two imports at a time, an employer, three entities, two operations by hand;
- digests: two runs over two days, three artifacts in two versions, one of which the timeline has under another day than the digest, a cap of one;
- server: one session with a call, a notification stream and a DELETE on it, two signals, three dates with one to keep;
- page: two contacts, one made later, two requests under way, one photo.

Fairness: the store and the graph have none, and none would be justified: nothing makes a
connector resend, a user approve or a script run. `DocumentQueues` assumes that cron
starts each script again and again (weak fairness of `ScanStart`; strong of `WorkStart`, whose guard
comes and goes with the queue and with the other worker), that a running script takes its next step
(weak), and that what is asked over and over is answered in the end: the server
accepts each readable file, the OCR engine and the extractor open an entry, the server answers a
worker's post (strong, because each attempt is a new run). Edits and kills are finite. Nothing is assumed of the
order in which entries are taken or of how a refused or unreadable file is got rid of: that is what `Drained` checks.

In `periphery`: an iMessage reader begins its next pass (its timer, or launchd) and takes its next step, and a request
that is not lost is answered (`WF` of `Pass` per reader); faults are finite and nobody owes another message. Cron starts the caption
and the face worker again and again (`SF`, as their guard comes and goes with the other programs) and a program that runs gets on (`WF` of `Work`);
the operator need not label anybody. In the server, handlers, disk and callbacks make progress (`WF` of `Serve`, `Writes`, `Shut`, `ExitClean`);
clients, the clock, signals and the 10-second timer promise nothing, so `ShutdownEnds` does not rest on the timer. Hooks, searches,
relations, digests and the page have safety properties only: nothing makes another hook fire or a user click.

## Properties

- `IndexesFollowText`: vector and full-text row are always those of the stored text, through all races.
- `LogReconstructs`: undoing the logged events from the row yields every version there ever was.
- `KeepsPromise`: the store implements `ArtifactPromise`: created whole, hash
  written once, a known label never wiped, never a text without its indexes.
- `LabelGivesWayOnlyUnseen`: a stored label gives way to a caller's own label, or to the geocoded one of a wave that read the row before it had any.
- `LinkGivesWayOnlyInMerge`: a link stays as it is, whatever evidence comes later by whichever path, until a merge meets a link of the survivor.
- `NothingOnMerged`: no alias, link or self link names a merged entity, although a sweep
  that was read before the merge may run after it.
- `NoMergeCycle`, `HintsHonored` (a hint that matched is a link of whoever that entity is by now;
  one that missed is queued), `CertainHasAddress`, `ListedAddressResolves`.
- `TombstonesHonored`, `NoAliasTheft`, `ApprovalLinksQueue`, `DecisionsFinal`,
  `SelfLinkStays`: what no step may do.
- `PhotosDeliver`: the photo connector implements `Delivery`. It contains the invariant `SkippedIsStored` and says what no step may do: the server loses no photo, though
  four programs replace the same artifact, and no write of the manifest runs ahead of the answer it waits for.
- `ManifestConfirmed`: a file counts as scanned only in a version whose text the server took, or an older one; workers may since have replaced the text.
- `NeverStranded`: an image-only PDF on which OCR does not throw and that got its text is queued until its fields are extracted, through any kill.
- `CaughtUp`, `Drained`: the manifest comes to agree with the disk, and no bad file or refused payload wedges a queue.
- `CursorSafe`: no row is behind the cursor before the server has answered for all of it; `RowsPassed`: every row gets
  behind it and stays there, though a slow reader may write an older value.
- `OnlyOverlapLoses`: a spooled line is lost only if it was appended while another hook was between its read and its rewrite, or to a
  torn rewrite; `SmoothRunSettles`: a hook that ran alone and was never refused leaves an empty spool and its own payload on top.
- `SkippedIsStored`: what the manifest skips is on the server (`PhotosDeliver` contains it, so no run lists it); `EnrichmentLands`: caption and name end up in the text
  for good, although three programs each replace the whole of it.
- `AnswersOwnQuestion`, `EmptyIsHonest`, `FusionKeepsOrder`: an answer holds its own candidates, which pass the caller's filters;
  only those, or a gateway that is down, make it empty; what both arms rank higher is ranked higher.
- `ToldIsLinked`, `EdgesJoinTheLiving`: a relation told by a card is an edge, in either import order, through merges and overlapping imports, where the name was given
  by an import that stored its card; no loop, no edge at a merged entity.
- `FoldedIsTold`: what the timeline hides behind a digest is told by the digest of its day, unless it came or changed after that digest had read the day; where the calendars
  differ, if its day has a digest.
- `CleanExitKeepsLog`, `ShutdownEnds`: after one signal the process exits by itself, with the last stream on disk.
- `EditsGoWhereShown`, `SaveKeepsPhoto`: an edit goes to the contact whose form it was typed into; a save does not take back an upload.

### Where code and comment disagree

1. `src/ingest.js:151-153` promises that a wave without a label never clobbers a stored one; the check uses a row
   read before the embedding await, and the run stores the geocoded label over a connector's.
2. `src/db.js:1107-1111` calls the link row that a merge deletes an exact duplicate; its
   confidence may be higher than that of the row that stays.
3. `src/db.js:834-836` says ingest-time and retroactive linking cannot diverge; ingest takes hints in payload
   order, retroactive linking takes addresses first.
4. `src/db.js:106` and `src/server.js:613` say a rejected proposal is never raised again; the key of a proposal
   contains the alias as it was written, so another spelling is a new proposal.
5. `connectors/documents/ocr-worker.js:5-7` calls the removal of a queue entry safe against a concurrent `scan.js`, and
   lines 85-86 leave a changed file to the next scan. `dropEntry` does not compare statKeys: if the scan has queued
   the newer version already, that entry is the one deleted, and the manifest keeps every
   later scan from queueing it again. The window is as long as the worker's run.
6. `connectors/documents/ocr-worker.js:188-190` says that a kill after the hand-over only repeats the OCR. If the extraction worker
   runs during the repeat, the second upsert drops the extracted fields and its own drop takes the
   second hand-over with it. The cron lines of the connector's README keep the two workers apart; then the comment holds
   (`document_queues`).
7. `public/app.js:223-225` says that `currentId` is set before its GET resolves and that a save must therefore name the
   contact the form was built for. `uploadPhoto` (line 237) posts to `currentId` all the same: a photo chosen in the
   form still on the screen, while the contact clicked next is being loaded, becomes that contact's.

A kill of `scan.js` between its manifest and its queue writes leaves a file scanned and queued
nowhere, the outcome `Settled` excludes; `drop_of_newer` reaches it without a kill.

Three more were met while modelling. No run is spent on them; each is an exemption in a property, without which TLC violates it:
- `src/contacts.js:425` says of a dedup hit that "the first import already formed/staged" the relations. Where the loser of the race carries another version of the card, the name it
  brings is new, and a relation another card told of it stays staged although the name resolves now (`handled` in `ToldIsLinked`).
- `src/search.js:197-199` says that undigested days keep their raw artifacts. An artifact at `2026-07-07T23:30-05:00` is of 07-07 for its digest and of 07-08 for the timeline: with a digest
  of 07-08 only, it is hidden and told nowhere (`digest[d] # Undigested` in `FoldedIsTold`).
- `connectors/documents/ocr-worker.js:188-190` promises that a kill before the hand-over only repeats the OCR. The repeat may throw, and then the entry is dropped (line 150) and the document stays
  OCR'd and not extracted (`OcrThrows` in `NeverStranded`).

How far each disagreement goes is proved: finding 1 needs a wave that read the row before it had a label (`OnlyUnseenLabelsYield`), and with a single process
one that waited for an embedding (`OneProcessIsEnough`); finding 2 a merge of two linked entities, and nothing else lowers or raises a
confidence (`LinksGiveWayInMerges`); finding 3 a single payload with the name in front (`ShadowsStayInOnePayload`); finding 4 another spelling, since a decision
on the same one stands (`DecisionsStand`); finding 5, together with the kill above, is all that keeps a document on which OCR does not throw from settling (`SettlesWithCare`); finding 6
needs workers that overlap (`StaggeredNeverStrands`); and in finding 7 photos alone go astray (`EditsLandWhereShown`).

## Proofs

Eight modules hold for every value of the constants that satisfies the named assumptions of the modules they extend; TLC evaluates
those on every run. All proofs are by an inductive invariant: the invariants named below are what a property needs to carry itself through a step.

**`ArtifactStoreProofs`**
- `SearchFollowsText` (`IndexesFollowText`). `StoreInv` adds the type of rows and requests, and that a resumed writer's vector is
  either that of its own text or absent. The guard `Throws` then carries the step: a writer
  without a vector commits only if the row still has the very text it brings.
- `StoreKeepsPromise` (`KeepsPromise`). From `StoreInv`: creates map to `Create`, updates to
  `Update`, everything else to a stutter.
- `StoreTypesHold` (`TypeOK`) and `LogKeepsHistory` (`LogReconstructs`). `LogInv` adds `LogPaired`, one event between every two versions, without which an
  appended event could not be matched with the version it undoes.
- `OnlyUnseenLabelsYield` (`LabelGivesWayOnlyUnseen`): a label changes by an update only, and an update's label is the caller's own, or geocoded and then `seen` was `Null`.
- `OneProcessIsEnough`: if all writers share a process, no upsert is refused by the guard of `upsertArtifactTxn`, and a label is lost only to a wave that awaited its
  embedding. `LoopInv` says why: one resumed call at a time, and one that did not await has the very row before it that it read (`ReadsStand`). The assumption
  `OneProcess` is the deployment with the server alone; with a script on the same database the guard is needed.

**`EntityGraphProofs`**
- `TypeCorrect` (`TypeOK`), one step per action.
- `MergedStayBare` (`NothingOnMerged`). `GraphInv` adds `MergedExist`, that only a row
  that was written is ever merged away: without it a freshly minted id could be a merged one. A stale
  sweep needs no clause of its own: links are formed through `owner`, and by the
  invariant a merged entity owns no alias, which is why the backfill may read outside its transaction.
- `MergesAcyclic` (`NoMergeCycle`): a merge points a live entity at a live one, and
  `MergesOnly` shows that nothing else touches `mergedInto`.
- `AliasesNotStolen` (`NoAliasTheft`) and `RemovedStayRemoved` (`TombstonesHonored`): a lemma on
  what one step may do to one alias (`EveryAliasStep`), then `GraphInv`.
- `HintsNeverLost` (`HintsHonored`) and `ListedStayResolved` (`ListedAddressResolves`): inductive together with `GraphInv`.
- `CertaintyHasEvidence` (`CertainHasAddress`). `EvidenceInv` adds `QueuedWasHeard`: what waits to be linked was once a hint of that artifact, which is the
  evidence a later link is certain by.
- `ApprovalsLink` (`ApprovalLinksQueue`) needs `FreshBare`: an entity still to be minted has no tombstones, or the alias it is approved under might be refused.
- `LinksGiveWayInMerges` (`LinkGivesWayOnlyInMerge`): hints and retroactive linking keep what is there, by `LinkStep` a merge is the only other step on links.
- `ShadowsStayInOnePayload`: where a step links an entity by a name although an address of it is heard of for the artifact, that very payload brought both, the name
  in front. It rests on `HintsHonored`: an address heard earlier has its link already (`KnownIsLinked`), through any merges.
- `DecisionsStand` (`DecisionsFinal`); `SelfLinkFollowsMerges` (`SelfLinkStays`), with `FiledAreStored`: only a stored card has a self link.

**`DocumentQueuesProofs`**
- `TypeCorrect` (`TypeOK`). `DocInv` adds `Served`: whatever is confirmed, queued or in a worker's
  hands is known to the server, without which an upsert of a worker would have no row to change.
- `ManifestSound` (`ManifestConfirmed`). `OrderInv` orders the versions: statKey, then text read, then disk, and
  `taken` between the manifest and the disk. That the scan takes the statKey *before* it reads is what carries `ScanRead`; that it
  records only confirmed items carries `ScanPosted`. Workers cannot disturb it: whatever text they put over the scan's, the manifest is not theirs.
- `StaggeredNeverStrands`: with the workers staggered, `NeverStranded` (of PDFs on which OCR does not throw) holds for any documents, versions and kills. `StrandInv` follows an image-only PDF
  through its life: it is known in its first version only, an entry in a worker's hands is still queued, a text can only have come from an OCR that could open it,
  OCR hands it on before it drops it, and extraction stores the fields before it does (`FirstOnly`, `StillQueued`, `WasOcred`, `InOrder`, `Queued`).
  `OneWorker` is what staggering gives, and the run `kill_strands` shows that the theorem fails without it.
- `SettlesWithCare`: `CarefulSpec` keeps `Settled`, workers staggered. `Settled` speaks of files at rest; `CareInv` follows every file on disk to that point
  (`Traced`). Once the manifest has its present version, the file waits in the scan's books or in a queue, or it went through (`OnItsWay`). To carry that through a step the
  proof needs that the scan never sends a version the manifest has already (`Scanning`), that what is queued or in a worker's hands is no newer than the manifest and, if it is of the present
  version, still queued (`Listed`), that a worker drops the present version only when it is through or handed on (`AtWork`), and that one which still works on an older version leaves
  the present one waiting (`OutrunWaits`). `DropsNewer` and `TearsBooks` are the steps that break it. The code can take them, so the theorem is about the causes and does not say
  that the connector settles.

**`RelationGraphProofs`**: `EdgesStayAmongTheLiving` (`EdgesJoinTheLiving`; `RelInv`: names and cards lead to usable entities) and `TheToldAreLinked` (`ToldIsLinked`; `ToldInv`: a
told name that led nowhere is staged, so that whoever gets it by an import is found).

**`ServerProofs`**, the page: `EditsLandWhereShown` (`EditsGoWhereShown`; `PageInv`: a request that carries an edit is addressed to the contact shown when it was sent) and `UploadsOnly` (`SaveKeepsPhoto`).

**`ConnectorProofs`**
- `CursorStaysSafe` (`CursorSafe`). `FeedInv` adds `PagesAccounted`: of every row up to the end of its page a reader knows that the server answered for it or that
  it has still to send it. `CursorSafe` alone does not say what another process, far behind or ahead, is about to write over the cursor.
- `SpoolLosesNothingElse` (`OnlyOverlapLoses`; `OwedIsHeld`: a line that is owed is in the file and in the hands of every hook that is about to
  rewrite the file) and `SmoothHookSettles` (`SmoothRunSettles`; `SmoothIsAlone`).
- `TheScanSkipsWhatIsStored` (`SkippedIsStored`; `PhotoInv`: the manifest on file, the one in memory and what waits to be marked are all backed by the server).
- `PhotosAreDelivery` (`PhotosDeliver`), from the same invariant: a step changes the server or the file, never both. If the file,
  the invariant *after* the step says that it names delivered items only; if the server, it loses none.

**`SearchProofs`**
- `AnswersStayOwn`, `EmptyStaysHonest` and `FusionStaysInOrder` (`AnswersOwnQuestion`, `EmptyIsHonest`, `FusionKeepsOrder`) from `SearchInv`, which says of each call what it has in hand at
  its stage (`Sound`): candidates that pass the caller's filters, and an answer that ranks *those* candidates, whatever the shared table holds by now. For the order, `AheadOutranks`: an
  artifact ahead by both arms has the greater score. It rests on the arithmetic of fractions (`SumsGrow`).
- `AnswersDetermined`: for any candidates there is exactly one answer by time and exactly one by fusion. The model says of an answer what is in front of what; the theorem shows that
  this is satisfiable, which keeps the three theorems above from being empty, and leaves nothing open. Its heart is that `Outranks` is a strict total order of what the arms find, ties included.
  There is no induction over lists in it: a ranking of each length exists because the least length without one could be reached by one more (`RankingGrows`).
- `TheFoldedAreTold` (`FoldedIsTold`; `DigestInv`: a digest covers its day but for `late` and equals what its hash names, and so do the rows a run holds, but for `missed`).

**`ServerProofs`**, the server: `CleanExitLeavesLog` (`CleanExitKeepsLog`). `LifeInv` follows the log stream from the first line to the exit: a line's date lies between start and
  today and its file is still there (`Dated`: pruning keeps at least the days since the start); until `closeAccessLog` runs, the open stream is the one of the last line (`OpenHasLast`);
  after it nothing writes any more, and the stream it ended is that one (`EndedHasLast`, by `SignalCloses` and the wait for all responses); a signal that is ready to exit has
  waited for the flush or was not the only one (`ReadyWaited`). The property itself speaks of the exit alone, where it is too late to say any of this.

**`PeripheryProofs`**: what holds of a part alone holds in the composition.
- `PartsAreImplemented`: the composition implements the specification of each of its eight parts, since a step of one leaves the variables of the others alone
  (`ConnectorsStepAlone`, `AnswersStepAlone`, `ServerStepsAlone`). Fairness is left out of it.
- `PeripheryTypesHold` (`TypeOK`) and `PeripheryStaysSafe` (all eleven safety invariants at once) from `PeripheryInv`, the conjunction of the parts' own invariants.
- `PeripheryKeepsPromises` (`PhotosDeliver`, `SmoothRunSettles`, `SaveKeepsPhoto`) from the parts' theorems through `PartsAreImplemented`.

Each of the eight modules also proves the types of the modules it is about.

Only model-checked: the liveness properties `CaughtUp`, `Drained`, `RowsPassed`, `EnrichmentLands` and `ShutdownEnds`, since liveness under
fairness is beyond the prover. The seven properties of the violation runs are refuted, so there is nothing to prove of them but how far they fail.

## Plan

Done, in this order: the store and its promise; the entity graph with review queue, import and backfill; the documents connector;
the remaining connectors; search; relations; consolidation; the server's life; the contacts page; then proofs of every safety property the runs check, the promise of the photo connector, the composition, and how far each disagreement goes.

Left, most useful first:

1. places and events: linking by distance and by time, and the clustering scripts that stage proposals of them;
2. cards without a UID, and what an import does with photo files.

## Not modelled

- Parsers and extractors (vCard, plist, EXIF, PDF, OOXML, OCR, faces), prompts and LLM answers: each is a function whose result is a choice here.
- Distance and clustering arithmetic (`geocode.js`, `cluster-places.js`): real numbers. What geocoding answers is the constant `GeoLabel`.
- The one-shot repairs of display names, phones and place labels, and the migration from OB1: each runs once, by hand. `backfill-place-labels.js`
  reads its rows before its transaction and can overwrite a label stored in between.
- HTTP validation, authentication and rate limits, read-only routes, the chat page, the list search and the review drawer,
  which keep nothing that a late answer could mix up with a contact.
- The `LIMIT` of the timeline, and a keep-alive connection that brings another request after the server stopped listening.
- The inside of `updateJsonFile`, whose window the code admits, and set-up, build and documentation.
