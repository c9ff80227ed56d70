---------------------------- MODULE ArtifactStore ----------------------------
(***************************************************************************)
(* The write path of the artifacts table: enrich-then-commit upserts that  *)
(* interleave at the embedding await, in one process and across processes  *)
(* that share the SQLite file (src/src/ingest.js, src/src/db.js).          *)
(*                                                                         *)
(* A writer is one call of executeIngest, of the digest upsert or of the   *)
(* insert-only store. Writers of one process share its event loop: between *)
(* the moment a writer resumes and its commit nothing else of that process *)
(* runs, while other processes may commit. A transaction is one step.      *)
(***************************************************************************)
EXTENDS Naturals, Sequences

CONSTANTS
  Keys,        \* upsert keys, i.e. (source, source_id) pairs
  Writers,     \* calls that write an artifact
  Processes,   \* the server and the headless scripts on the same database
  ProcessOf,   \* the process each writer runs in
  Texts,       \* values of text_repr
  Labels,      \* non-empty values of place_label
  GeoLabel,    \* what reverseGeocode answers for the artifact's coordinates
  Hashes,      \* values of content_hash
  Null,        \* SQL NULL, or a field that is absent
  Empty,       \* the empty string
  Inputs,      \* the requests the writers are given
  MaxVersions  \* bound: a key with this many versions takes no new call

Modes == {"ingest",   \* POST /ingest and each item of /ingest/batch
          "digest",   \* consolidateDay and updateOneTxn: the vector is always new
          "store"}    \* storeArtifactTxn: insert or leave alone

Payloads == [mode : Modes, key : Keys, text : Texts,
             label : Labels \cup {Null, Empty}, geo : BOOLEAN,
             hash : Hashes \cup {Null}]

ASSUME WriterAssumption == ProcessOf \in [Writers -> Processes]
ASSUME LabelAssumption ==
  /\ GeoLabel \in Labels
  /\ Null \notin Labels /\ Empty \notin Labels /\ Null # Empty
ASSUME TextAssumption == Null \notin Texts
ASSUME RowAssumption ==
  Null \notin [text : Texts, vec : Texts, fts : Texts,
               label : Labels \cup {Null}, hash : Hashes \cup {Null}]
ASSUME InputAssumption == Inputs \subseteq Payloads
ASSUME BoundAssumption == MaxVersions \in Nat

VARIABLES
  row,    \* row[k]: the artifact under key k with its vec and fts entries
  log,    \* log[k]: the ingest_update events of key k (ingest_create has no values)
  req,    \* req[w]: where writer w stands
  past    \* past[k]: every version of the text and label that was committed

vars == <<row, log, req, past>>

Rows == [text : Texts, vec : Texts, fts : Texts,
         label : Labels \cup {Null}, hash : Hashes \cup {Null}]
Fields == {"text", "label"}
Versions == [text : Texts, label : Labels \cup {Null}]
Events == [changed : SUBSET Fields,
           text : Texts \cup {Null}, label : Labels \cup {Null}]
Idle == [pc |-> "idle"]
Requests == [pc : {"embedding", "ready"}, input : Payloads,
             seen : Labels \cup {Null}, vec : Texts \cup {Null}]

-----------------------------------------------------------------------------
\* Definitions named Bad... are faults the code could have had in the definition
\* that follows them; the properties below must tell them from the real one.
Version(r) == [text |-> r.text, label |-> r.label]

BadPayloadLabel(p) == p.label   \* "" is stored as a label
\* place_label "" means "I have none", not "clear it".
PayloadLabel(p) == IF p.label = Empty THEN Null ELSE p.label

BadEffectiveLabel(r) ==   \* geocodes whatever the row had
  IF r.input.mode = "ingest" /\ r.input.geo /\ PayloadLabel(r.input) = Null
  THEN GeoLabel
  ELSE PayloadLabel(r.input)
\* The label the artifact is upserted with: the connector's own, else the
\* geocoded one if neither the payload nor the row read at the start had any.
EffectiveLabel(r) ==
  IF /\ r.input.mode = "ingest" /\ r.input.geo
     /\ PayloadLabel(r.input) = Null /\ r.seen = Null
  THEN GeoLabel
  ELSE PayloadLabel(r.input)

\* executeIngest embeds only a new or changed text; the other callers always do.
NeedsVector(p) ==
  p.mode # "ingest" \/ row[p.key] = Null \/ p.text # row[p.key].text

\* A resumed writer owns its process until it commits or throws.
LoopFree(w) ==
  \A v \in Writers : ProcessOf[v] = ProcessOf[w] => req[v].pc # "ready"

Created(r) ==
  [text |-> r.input.text, vec |-> r.vec, fts |-> r.input.text,
   label |-> EffectiveLabel(r), hash |-> r.input.hash]

BadUpdated(old, r) ==   \* SET place_label = @place_label, without the COALESCE
  [text  |-> r.input.text,
   vec   |-> IF r.vec # Null THEN r.vec ELSE old.vec,
   fts   |-> IF r.input.text # old.text THEN r.input.text ELSE old.fts,
   label |-> EffectiveLabel(r),
   hash  |-> old.hash]
\* COALESCE(@field, field): an absent field keeps its value. text_repr (and so
\* its FTS row) is written only when it changed, the vector when one was given.
Updated(old, r) ==
  [text  |-> r.input.text,
   vec   |-> IF r.vec # Null THEN r.vec ELSE old.vec,
   fts   |-> IF r.input.text # old.text THEN r.input.text ELSE old.fts,
   label |-> IF EffectiveLabel(r) # Null THEN EffectiveLabel(r) ELSE old.label,
   hash  |-> old.hash]

BadThrows(r) == r.vec = Null /\ row[r.input.key] = Null   \* guards creates only
\* The guard of the enrich-then-commit window: without a vector the text under
\* the upsert must still be the text the caller compared with.
Throws(r) ==
  /\ r.vec = Null
  /\ row[r.input.key] = Null \/ row[r.input.key].text # r.input.text

BadUpdateEvent(old, new) ==   \* logs the new values
  LET changed == {f \in Fields : new[f] # old[f]}
  IN  [changed |-> changed,
       text    |-> IF "text" \in changed THEN new.text ELSE Null,
       label   |-> IF "label" \in changed THEN new.label ELSE Null]
\* The ingest_update event: which fields changed and what they were before.
UpdateEvent(old, new) ==
  LET changed == {f \in Fields : new[f] # old[f]}
  IN  [changed |-> changed,
       text    |-> IF "text" \in changed THEN old.text ELSE Null,
       label   |-> IF "label" \in changed THEN old.label ELSE Null]

Write(k, new) ==
  /\ row' = [row EXCEPT ![k] = new]
  /\ past' = [past EXCEPT ![k] = Append(@, Version(new))]

-----------------------------------------------------------------------------
Init ==
  /\ row = [k \in Keys |-> Null]
  /\ log = [k \in Keys |-> <<>>]
  /\ past = [k \in Keys |-> <<>>]
  /\ req = [w \in Writers |-> Idle]

\* executeIngest up to its await: read the row, decide whether to embed.
Begin(w, p) ==
  /\ req[w] = Idle
  /\ LoopFree(w)
  /\ Len(past[p.key]) < MaxVersions
  /\ req' = [req EXCEPT ![w] =
       [pc    |-> IF NeedsVector(p) THEN "embedding" ELSE "ready",
        input |-> p,
        seen  |-> IF row[p.key] = Null THEN Null ELSE row[p.key].label,
        vec   |-> Null]]
  /\ UNCHANGED <<row, log, past>>

\* The embedding arrives and the writer resumes.
Embedded(w) ==
  /\ req[w].pc = "embedding"
  /\ LoopFree(w)
  /\ req' = [req EXCEPT ![w].pc = "ready", ![w].vec = req[w].input.text]
  /\ UNCHANGED <<row, log, past>>

\* Ollama is unreachable or times out: the call rejects, nothing is written.
EmbedFails(w) ==
  /\ req[w].pc = "embedding"
  /\ LoopFree(w)
  /\ req' = [req EXCEPT ![w] = Idle]
  /\ UNCHANGED <<row, log, past>>

\* upsertArtifactTxn (and the create path of storeArtifactTxn).
CommitCreate(w) ==
  LET k == req[w].input.key
  IN  /\ req[w].pc = "ready"
      /\ row[k] = Null
      /\ ~Throws(req[w])
      /\ Write(k, Created(req[w]))
      /\ req' = [req EXCEPT ![w] = Idle]
      /\ UNCHANGED log

CommitUpdate(w) ==
  LET k == req[w].input.key
  IN  /\ req[w].pc = "ready"
      /\ req[w].input.mode # "store"
      /\ row[k] # Null
      /\ ~Throws(req[w])
      /\ Write(k, Updated(row[k], req[w]))
      /\ log' = [log EXCEPT ![k] =
                   Append(@, UpdateEvent(row[k], Updated(row[k], req[w])))]
      /\ req' = [req EXCEPT ![w] = Idle]

\* storeArtifactTxn on a key that exists: INSERT OR IGNORE, vector dropped.
CommitDedup(w) ==
  /\ req[w].pc = "ready"
  /\ req[w].input.mode = "store"
  /\ row[req[w].input.key] # Null
  /\ req' = [req EXCEPT ![w] = Idle]
  /\ UNCHANGED <<row, log, past>>

\* The transaction throws and rolls back; the caller is told to retry.
CommitThrows(w) ==
  /\ req[w].pc = "ready"
  /\ Throws(req[w])
  /\ req' = [req EXCEPT ![w] = Idle]
  /\ UNCHANGED <<row, log, past>>

\* The transaction is deferred: if another process committed after its first
\* read, or holds the write lock past busy_timeout, SQLite refuses the write.
CommitBusy(w) ==
  /\ req[w].pc = "ready"
  /\ Processes # {ProcessOf[w]}
  /\ req' = [req EXCEPT ![w] = Idle]
  /\ UNCHANGED <<row, log, past>>

\* A process stops, at shutdown or in a crash: its calls are gone, the
\* database keeps what was committed.
Stop(p) ==
  /\ req' = [w \in Writers |-> IF ProcessOf[w] = p THEN Idle ELSE req[w]]
  /\ UNCHANGED <<row, log, past>>

Next ==
  \/ \E w \in Writers, p \in Inputs : Begin(w, p)
  \/ \E w \in Writers :
       \/ Embedded(w) \/ EmbedFails(w)
       \/ CommitCreate(w) \/ CommitUpdate(w) \/ CommitDedup(w)
       \/ CommitThrows(w) \/ CommitBusy(w)
  \/ \E p \in Processes : Stop(p)

Spec == Init /\ [][Next]_vars

-----------------------------------------------------------------------------
TypeOK ==
  /\ row \in [Keys -> Rows \cup {Null}]
  /\ log \in [Keys -> Seq(Events)]
  /\ past \in [Keys -> Seq(Versions)]
  /\ req \in [Writers -> Requests \cup {Idle}]

\* Hybrid search finds an artifact by what it says now: whatever writers race
\* on a key, its embedding and its full-text row are those of the stored text.
IndexesFollowText ==
  \A k \in Keys :
    row[k] # Null => row[k].vec = row[k].text /\ row[k].fts = row[k].text

\* The log is the history: starting from the row and undoing ingest_update
\* events backwards gives every version that was ever committed.
Later(k, i, f) ==
  {j \in 1..Len(log[k]) : i =< j /\ f \in log[k][j].changed}
Undone(k, i, f) ==
  IF Later(k, i, f) = {} THEN row[k][f]
  ELSE log[k][CHOOSE j \in Later(k, i, f) :
                 \A m \in Later(k, i, f) : j =< m][f]
LogReconstructs ==
  \A k \in Keys :
    /\ \A i \in 1..Len(past[k]), f \in Fields : Undone(k, i, f) = past[k][i][f]

\* A stored label is replaced by a caller's own label, or by the geocoded one of a wave
\* that read the row before any label was in it: what was known when a wave came in is
\* safe from it, and a label put in meanwhile is all there is to lose.
LabelGivesWayOnlyUnseen ==
  [][\A k \in Keys :
       (row[k] # Null /\ row[k].label # Null /\ row'[k].label # row[k].label)
         => \E w \in Writers :
              /\ req[w].pc = "ready" /\ req[w].input.key = k /\ req'[w] = Idle
              /\ \/ row'[k].label = PayloadLabel(req[w].input)
                 \/ row'[k].label = GeoLabel /\ req[w].seen = Null
    ]_vars

\* The promise of the store, with requests and awaits hidden: a record is
\* created whole, its original hash is written once, a known place label is
\* never wiped, and no reader ever sees a text without its indexes.
Promise == INSTANCE ArtifactPromise WITH record <- row
KeepsPromise == Promise!Spec

\* src/src/ingest.js:151-153: a wave that resends coordinates without a label
\* must never clobber a label already resolved. A label changes only to what
\* the committing caller itself supplied.
ResolvedLabelKept ==
  [][\A k \in Keys :
       (row[k] # Null /\ row[k].label # Null /\ row'[k].label # row[k].label)
         => \E w \in Writers :
              req[w] # Idle /\ req'[w] = Idle /\ PayloadLabel(req[w].input) = row'[k].label
    ]_vars
=============================================================================
