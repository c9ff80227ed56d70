------------------------- MODULE ArtifactStoreProofs -------------------------
(***************************************************************************)
(* For any number of writers, processes, keys and texts: the search        *)
(* indexes always follow the stored text, the log leads back to every      *)
(* version there was, and the store keeps the promise of ArtifactPromise.  *)
(***************************************************************************)
EXTENDS ArtifactStore, WellFoundedInduction, TLAPS

\* A writer that resumed carries no vector or the vector of its own text;
\* only a caller that may skip the embedding resumes without one.
CarriesOwnVector ==
  \A w \in Writers : req[w].pc # "idle" => req[w].vec \in {Null, req[w].input.text}

\* The part of the state the promise is about, with its type.
RowsTyped ==
  /\ row \in [Keys -> Rows \cup {Null}]
  /\ req \in [Writers -> Requests \cup {Idle}]

StoreInv == RowsTyped /\ CarriesOwnVector /\ IndexesFollowText

LEMMA PayloadLabelType ==
  ASSUME NEW p \in Payloads PROVE PayloadLabel(p) \in Labels \cup {Null}
BY LabelAssumption DEF Payloads, PayloadLabel

LEMMA EffectiveLabelType ==
  ASSUME NEW r \in Requests PROVE EffectiveLabel(r) \in Labels \cup {Null}
BY PayloadLabelType, LabelAssumption DEF Requests, EffectiveLabel

\* A request that is not idle is a full request record.
LEMMA BusyRequest ==
  ASSUME RowsTyped, NEW w \in Writers, req[w].pc # "idle"
  PROVE  req[w] \in Requests
BY DEF RowsTyped, Idle

\* The row a create writes is whole and indexed.
LEMMA CreatedRow ==
  ASSUME StoreInv, NEW w \in Writers, req[w].pc = "ready",
         row[req[w].input.key] = Null, ~Throws(req[w])
  PROVE  /\ req[w].input.key \in Keys
         /\ Created(req[w]) \in Rows
         /\ Created(req[w]).vec = Created(req[w]).text
         /\ Created(req[w]).fts = Created(req[w]).text
<1>1. req[w] \in Requests
  BY BusyRequest DEF StoreInv
<1>2. req[w].input \in Payloads
  BY <1>1 DEF Requests
<1>3. req[w].vec = req[w].input.text
  BY DEF StoreInv, CarriesOwnVector, Throws
<1>4. EffectiveLabel(req[w]) \in Labels \cup {Null}
  BY <1>1, EffectiveLabelType
<1>. QED
  BY <1>2, <1>3, <1>4 DEF Created, Rows, Payloads

\* The row an update writes keeps the original's hash, keeps a known label
\* known, and is indexed if the row before it was.
LEMMA UpdatedRow ==
  ASSUME StoreInv, NEW w \in Writers, req[w].pc = "ready",
         row[req[w].input.key] # Null, ~Throws(req[w])
  PROVE  LET k == req[w].input.key
             new == Updated(row[k], req[w])
         IN  /\ k \in Keys
             /\ row[k] \in Rows
             /\ new \in Rows
             /\ new.vec = new.text
             /\ new.fts = new.text
             /\ new.hash = row[k].hash
             /\ row[k].label # Null => new.label # Null
<1> DEFINE k == req[w].input.key
           new == Updated(row[k], req[w])
<1>1. req[w] \in Requests
  BY BusyRequest DEF StoreInv
<1>2. req[w].input \in Payloads /\ k \in Keys
  BY <1>1 DEF Requests, Payloads
<1>3. row[k] \in Rows
  BY <1>2 DEF StoreInv, RowsTyped
<1>4. EffectiveLabel(req[w]) \in Labels \cup {Null}
  BY <1>1, EffectiveLabelType
<1>5. row[k].vec = row[k].text /\ row[k].fts = row[k].text
  BY <1>2 DEF StoreInv, IndexesFollowText
<1>6. req[w].vec = req[w].input.text \/ (req[w].vec = Null /\ row[k].text = req[w].input.text)
  BY DEF StoreInv, CarriesOwnVector, Throws
<1>7. req[w].input.text \in Texts
  BY <1>2 DEF Payloads
<1>8. new = [text |-> req[w].input.text,
             vec |-> IF req[w].vec # Null THEN req[w].vec ELSE row[k].vec,
             fts |-> IF req[w].input.text # row[k].text THEN req[w].input.text ELSE row[k].fts,
             label |-> IF EffectiveLabel(req[w]) # Null THEN EffectiveLabel(req[w]) ELSE row[k].label,
             hash |-> row[k].hash]
  BY DEF Updated
<1>9. new.vec = new.text /\ new.fts = new.text
  BY <1>5, <1>6, <1>8, <1>7, TextAssumption
<1>10. new \in Rows
  BY <1>3, <1>4, <1>5, <1>6, <1>7, <1>8 DEF Rows
<1>. QED
  BY <1>2, <1>3, <1>8, <1>9, <1>10

-----------------------------------------------------------------------------
\* A step changes the writers' own state as the types and the vector rule say.
LEMMA StoreInvInit == Init => StoreInv
BY DEF Init, StoreInv, RowsTyped, CarriesOwnVector, IndexesFollowText, Idle

\* A commit of a whole, indexed row keeps the invariant.
LEMMA StoreInvWrite ==
  ASSUME StoreInv, NEW w \in Writers, NEW k \in Keys, NEW new \in Rows,
         new.vec = new.text, new.fts = new.text,
         row' = [row EXCEPT ![k] = new],
         req' = [req EXCEPT ![w] = Idle]
  PROVE  StoreInv'
<1>1. RowsTyped'
  BY DEF StoreInv, RowsTyped
<1>2. CarriesOwnVector'
  BY DEF StoreInv, RowsTyped, CarriesOwnVector, Idle
<1>3. IndexesFollowText'
  BY DEF StoreInv, RowsTyped, IndexesFollowText
<1>. QED
  BY <1>1, <1>2, <1>3 DEF StoreInv

\* A step that leaves the rows alone keeps the invariant if the writers do.
LEMMA StoreInvQuiet ==
  ASSUME StoreInv, UNCHANGED row,
         \A w \in Writers : \/ req'[w] = req[w]
                            \/ req'[w] = Idle
                            \/ /\ req'[w] \in Requests
                               /\ req'[w].vec \in {Null, req'[w].input.text},
         req' = [w \in Writers |-> req'[w]]
  PROVE  StoreInv'
<1>1. RowsTyped'
  BY DEF StoreInv, RowsTyped
<1>2. CarriesOwnVector'
  BY DEF StoreInv, CarriesOwnVector, Idle
<1>3. IndexesFollowText'
  BY DEF StoreInv, IndexesFollowText
<1>. QED
  BY <1>1, <1>2, <1>3 DEF StoreInv

LEMMA BeginKeeps ==
  ASSUME StoreInv, NEW w \in Writers, NEW p \in Inputs, Begin(w, p)
  PROVE  StoreInv'
<1> DEFINE r == [pc    |-> IF NeedsVector(p) THEN "embedding" ELSE "ready",
                 input |-> p,
                 seen  |-> IF row[p.key] = Null THEN Null ELSE row[p.key].label,
                 vec   |-> Null]
<1>1. p \in Payloads /\ p.key \in Keys
  BY InputAssumption DEF Payloads
<1>2. r.seen \in Labels \cup {Null}
  BY <1>1 DEF StoreInv, RowsTyped, Rows
<1>3. r \in Requests
  BY <1>1, <1>2 DEF Requests
<1>4. req' = [req EXCEPT ![w] = r] /\ UNCHANGED row
  BY DEF Begin
<1>. QED
  BY <1>3, <1>4, StoreInvQuiet DEF StoreInv, RowsTyped

LEMMA EmbeddedKeeps ==
  ASSUME StoreInv, NEW w \in Writers, Embedded(w)
  PROVE  StoreInv'
<1> DEFINE r == [req[w] EXCEPT !.pc = "ready", !.vec = req[w].input.text]
<1>1. req[w] \in Requests
  BY BusyRequest DEF StoreInv, Embedded
<1>2. req[w].input.text \in Texts
  BY <1>1 DEF Requests, Payloads
<1>3. r \in Requests /\ r.vec = r.input.text
  BY <1>1, <1>2 DEF Requests
<1>4. req' = [req EXCEPT ![w] = r] /\ UNCHANGED row
  BY DEF Embedded
<1>. QED
  BY <1>3, <1>4, StoreInvQuiet DEF StoreInv, RowsTyped

LEMMA QuitKeeps ==
  ASSUME StoreInv, NEW w \in Writers,
         EmbedFails(w) \/ CommitDedup(w) \/ CommitThrows(w) \/ CommitBusy(w)
  PROVE  StoreInv'
<1>1. req' = [req EXCEPT ![w] = Idle] /\ UNCHANGED row
  BY DEF EmbedFails, CommitDedup, CommitThrows, CommitBusy
<1>. QED
  BY <1>1, StoreInvQuiet DEF StoreInv, RowsTyped

LEMMA CommitKeeps ==
  ASSUME StoreInv, NEW w \in Writers, CommitCreate(w) \/ CommitUpdate(w)
  PROVE  StoreInv'
<1>1. CASE CommitCreate(w)
  BY <1>1, CreatedRow, StoreInvWrite DEF CommitCreate, Write
<1>2. CASE CommitUpdate(w)
  BY <1>2, UpdatedRow, StoreInvWrite DEF CommitUpdate, Write
<1>. QED
  BY <1>1, <1>2

LEMMA StopKeeps ==
  ASSUME StoreInv, NEW p \in Processes, Stop(p)
  PROVE  StoreInv'
BY StoreInvQuiet DEF Stop

LEMMA StoreInvNext == StoreInv /\ [Next]_vars => StoreInv'
<1> SUFFICES ASSUME StoreInv, [Next]_vars PROVE StoreInv'
  OBVIOUS
<1>1. CASE UNCHANGED vars
  BY <1>1 DEF vars, StoreInv, RowsTyped, CarriesOwnVector, IndexesFollowText
<1>2. CASE Next
  BY <1>2, BeginKeeps, EmbeddedKeeps, QuitKeeps, CommitKeeps, StopKeeps DEF Next
<1>. QED
  BY <1>1, <1>2

LEMMA StoreInvariant == Spec => []StoreInv
BY StoreInvInit, StoreInvNext, PTL DEF Spec

-----------------------------------------------------------------------------
\* Whatever writers race on a key, the embedding and the full-text row stored
\* for it are those of the stored text (upsertArtifactTxn's guard at
\* src/src/db.js:615-625).
THEOREM SearchFollowsText == Spec => []IndexesFollowText
BY StoreInvariant, PTL DEF StoreInv

\* Every step of the write path is a create, an update or nothing at all for
\* the promised record.
LEMMA PromiseStep ==
  ASSUME StoreInv, [Next]_vars
  PROVE  [Promise!Next]_row
<1>1. ASSUME NEW w \in Writers, CommitCreate(w) PROVE Promise!Next
  <2>1. row[req[w].input.key] = Null /\ row' = [row EXCEPT ![req[w].input.key] = Created(req[w])]
    BY <1>1 DEF CommitCreate, Write
  <2>. QED
    BY <1>1, <2>1, CreatedRow
       DEF CommitCreate, Rows, Promise!Next, Promise!Create, Promise!Records, Promise!Indexed
<1>2. ASSUME NEW w \in Writers, CommitUpdate(w) PROVE Promise!Next
  <2> DEFINE k == req[w].input.key
             new == Updated(row[k], req[w])
  <2>1. row[k] # Null /\ row' = [row EXCEPT ![k] = new]
    BY <1>2 DEF CommitUpdate, Write
  <2>2. /\ k \in Keys /\ new \in Rows /\ new.vec = new.text /\ new.fts = new.text
        /\ new.hash = row[k].hash
        /\ row[k].label # Null => new.label # Null
    BY <1>2, UpdatedRow DEF CommitUpdate
  <2>. QED
    BY <2>1, <2>2 DEF Rows, Promise!Next, Promise!Update, Promise!Records, Promise!Indexed
<1>3. ASSUME ~ \E w \in Writers : CommitCreate(w) \/ CommitUpdate(w)
      PROVE  UNCHANGED row
  BY <1>3 DEF Next, vars, Begin, Embedded, EmbedFails, CommitDedup, CommitThrows,
              CommitBusy, Stop
<1>. QED
  BY <1>1, <1>2, <1>3

\* The store implements ArtifactPromise: records are created whole, originals
\* are write-once, nothing known is wiped, text and indexes change together.
THEOREM StoreKeepsPromise == Spec => KeepsPromise
<1>1. Init => Promise!Init
  BY DEF Init, Promise!Init
<1>2. StoreInv /\ [Next]_vars => [Promise!Next]_row
  BY PromiseStep
<1>. QED
  BY <1>1, <1>2, StoreInvariant, PTL DEF Spec, KeepsPromise, Promise!Spec
-----------------------------------------------------------------------------
\* What a row's step is: a create, an update, or nothing.
LEMMA RowStep ==
  ASSUME StoreInv, [Next]_vars, NEW k \in Keys, row[k] # Null, row'[k] # row[k]
  PROVE  \E w \in Writers :
           /\ req[w] \in Requests
           /\ req[w].pc = "ready" /\ req[w].input.key = k /\ req'[w] = Idle
           /\ row'[k] = Updated(row[k], req[w])
<1>1. ASSUME NEW w \in Writers, CommitUpdate(w)
      PROVE  /\ req[w] \in Requests
             /\ req[w].pc = "ready" /\ req[w].input.key = k /\ req'[w] = Idle
             /\ row'[k] = Updated(row[k], req[w])
  BY <1>1, BusyRequest DEF CommitUpdate, Write, StoreInv, RowsTyped
<1>2. ASSUME NEW w \in Writers, CommitCreate(w) PROVE FALSE
  BY <1>2 DEF CommitCreate, Write, StoreInv, RowsTyped
<1>3. CASE ~ \E w \in Writers : CommitCreate(w) \/ CommitUpdate(w)
  BY <1>3 DEF Next, vars, Begin, Embedded, EmbedFails, CommitDedup, CommitThrows,
              CommitBusy, Stop
<1>. QED
  BY <1>1, <1>2, <1>3

LEMMA UpdatedLabel ==
  ASSUME NEW old, NEW r \in Requests, Updated(old, r).label # old.label
  PROVE  \/ Updated(old, r).label = PayloadLabel(r.input)
         \/ Updated(old, r).label = GeoLabel /\ r.seen = Null
BY DEF Updated, EffectiveLabel

\* The exact extent of what ResolvedLabelKept disagrees with: a label that was stored when a
\* wave read its row is safe from the wave's geocoding (executeIngest, src/src/ingest.js:151-160).
THEOREM OnlyUnseenLabelsYield == Spec => LabelGivesWayOnlyUnseen
<1>1. ASSUME StoreInv, [Next]_vars, NEW k \in Keys,
             row[k] # Null, row[k].label # Null, row'[k].label # row[k].label
      PROVE  \E w \in Writers :
               /\ req[w].pc = "ready" /\ req[w].input.key = k /\ req'[w] = Idle
               /\ \/ row'[k].label = PayloadLabel(req[w].input)
                  \/ row'[k].label = GeoLabel /\ req[w].seen = Null
  <2>1. PICK w \in Writers :
          /\ req[w] \in Requests
          /\ req[w].pc = "ready" /\ req[w].input.key = k /\ req'[w] = Idle
          /\ row'[k] = Updated(row[k], req[w])
    BY <1>1, RowStep
  <2>. QED
    BY <1>1, <2>1, UpdatedLabel
<1>2. StoreInv /\ [Next]_vars
        => \A k \in Keys :
             (row[k] # Null /\ row[k].label # Null /\ row'[k].label # row[k].label)
               => \E w \in Writers :
                    /\ req[w].pc = "ready" /\ req[w].input.key = k /\ req'[w] = Idle
                    /\ \/ row'[k].label = PayloadLabel(req[w].input)
                       \/ row'[k].label = GeoLabel /\ req[w].seen = Null
  BY <1>1
<1>. QED
  BY <1>2, StoreInvariant, PTL DEF Spec, LabelGivesWayOnlyUnseen

-----------------------------------------------------------------------------
\* In a single process the event loop lets one resumed call run at a time, and a call that
\* did not wait for an embedding still has the row before it that it read.
OneProcess == \A v, w \in Writers : ProcessOf[v] = ProcessOf[w]
OneResumed == \A v, w \in Writers : req[v].pc = "ready" /\ req[w].pc = "ready" => v = w
ReadsStand ==
  \A w \in Writers :
    LET k == req[w].input.key
    IN  req[w].pc = "ready" /\ req[w].vec = Null
          => row[k] # Null /\ row[k].text = req[w].input.text /\ row[k].label = req[w].seen
LoopInv == OneResumed /\ ReadsStand

LEMMA LoopInvNext == OneProcess /\ StoreInv /\ LoopInv /\ [Next]_vars => LoopInv'
<1> SUFFICES ASSUME OneProcess, StoreInv, LoopInv, [Next]_vars PROVE LoopInv'
  OBVIOUS
<1> USE DEF LoopInv, OneResumed, ReadsStand
<1>1. ASSUME NEW w \in Writers, NEW p \in Inputs, Begin(w, p) PROVE LoopInv'
  <2>1. \A v \in Writers : req[v].pc # "ready"
    BY <1>1 DEF Begin, LoopFree, OneProcess
  <2>2. UNCHANGED row /\ \A v \in Writers \ {w} : req'[v] = req[v]
    BY <1>1 DEF Begin, StoreInv, RowsTyped
  <2>3. req'[w] = [pc    |-> IF NeedsVector(p) THEN "embedding" ELSE "ready",
                   input |-> p,
                   seen  |-> IF row[p.key] = Null THEN Null ELSE row[p.key].label,
                   vec   |-> Null]
    BY <1>1 DEF Begin, StoreInv, RowsTyped
  <2>. QED
    BY <2>1, <2>2, <2>3 DEF NeedsVector
<1>2. ASSUME NEW w \in Writers, Embedded(w) PROVE LoopInv'
  <2>1. \A v \in Writers : req[v].pc # "ready"
    BY <1>2 DEF Embedded, LoopFree, OneProcess
  <2>2. UNCHANGED row /\ \A v \in Writers \ {w} : req'[v] = req[v]
    BY <1>2 DEF Embedded, StoreInv, RowsTyped
  <2>3. req[w] \in Requests
    BY <1>2, BusyRequest DEF Embedded, StoreInv
  <2>4. req'[w].vec = req[w].input.text /\ req[w].input.text \in Texts
    BY <1>2, <2>3 DEF Embedded, StoreInv, RowsTyped, Requests, Payloads
  <2>. QED
    BY <2>1, <2>2, <2>4, TextAssumption
<1>3. ASSUME NEW w \in Writers, CommitCreate(w) \/ CommitUpdate(w) PROVE LoopInv'
  <2>1. \A v \in Writers \ {w} : req[v].pc # "ready" /\ req'[v] = req[v]
    BY <1>3 DEF CommitCreate, CommitUpdate, StoreInv, RowsTyped
  <2>2. req'[w] = Idle
    BY <1>3 DEF CommitCreate, CommitUpdate, StoreInv, RowsTyped
  <2>. QED
    BY <2>1, <2>2 DEF Idle
<1>4. ASSUME NEW w \in Writers,
             EmbedFails(w) \/ CommitDedup(w) \/ CommitThrows(w) \/ CommitBusy(w)
      PROVE  LoopInv'
  <2>1. UNCHANGED row /\ req' = [req EXCEPT ![w] = Idle]
    BY <1>4 DEF EmbedFails, CommitDedup, CommitThrows, CommitBusy
  <2>. QED
    BY <2>1 DEF Idle, StoreInv, RowsTyped
<1>5. ASSUME NEW p \in Processes, Stop(p) PROVE LoopInv'
  BY <1>5 DEF Stop, Idle
<1>6. CASE UNCHANGED vars
  BY <1>6 DEF vars
<1>. QED
  BY <1>1, <1>2, <1>3, <1>4, <1>5, <1>6 DEF Next

\* Where one process is all there is, the guard of upsertArtifactTxn (src/src/db.js:615-625)
\* never refuses a call, and a stored label is lost to geocoding only by a wave that waited
\* for an embedding: a wave that resends an unchanged text is atomic.
SmoothCommits == \A w \in Writers : req[w].pc = "ready" => ~Throws(req[w])
WavesWithoutAwait ==
  [][\A k \in Keys :
       (row[k] # Null /\ row[k].label # Null /\ row'[k].label # row[k].label)
         => \E w \in Writers :
              /\ req[w].pc = "ready" /\ req[w].input.key = k /\ req'[w] = Idle
              /\ row'[k].label = PayloadLabel(req[w].input) \/ req[w].vec # Null
    ]_vars

THEOREM OneProcessIsEnough ==
  ASSUME OneProcess
  PROVE  Spec => []SmoothCommits /\ WavesWithoutAwait
<1>1. Init => LoopInv
  BY DEF Init, LoopInv, OneResumed, ReadsStand, Idle
<1>2. LoopInv => SmoothCommits
  BY DEF LoopInv, ReadsStand, SmoothCommits, Throws
<1>3. ASSUME StoreInv, LoopInv, [Next]_vars, NEW k \in Keys,
             row[k] # Null, row[k].label # Null, row'[k].label # row[k].label
      PROVE  \E w \in Writers :
               /\ req[w].pc = "ready" /\ req[w].input.key = k /\ req'[w] = Idle
               /\ row'[k].label = PayloadLabel(req[w].input) \/ req[w].vec # Null
  <2>1. PICK w \in Writers :
          /\ req[w] \in Requests
          /\ req[w].pc = "ready" /\ req[w].input.key = k /\ req'[w] = Idle
          /\ row'[k] = Updated(row[k], req[w])
    BY <1>3, RowStep
  <2>2. req[w].vec = Null => req[w].seen # Null
    BY <1>3, <2>1 DEF LoopInv, ReadsStand
  <2>. QED
    BY <1>3, <2>1, <2>2, UpdatedLabel
<1>4. StoreInv /\ LoopInv /\ [Next]_vars
        => \A k \in Keys :
             (row[k] # Null /\ row[k].label # Null /\ row'[k].label # row[k].label)
               => \E w \in Writers :
                    /\ req[w].pc = "ready" /\ req[w].input.key = k /\ req'[w] = Idle
                    /\ row'[k].label = PayloadLabel(req[w].input) \/ req[w].vec # Null
  BY <1>3
<1>5. StoreInv /\ LoopInv /\ [Next]_vars => LoopInv'
  BY LoopInvNext
<1>. QED
  BY <1>1, <1>2, <1>4, <1>5, StoreInvariant, PTL DEF Spec, WavesWithoutAwait
-----------------------------------------------------------------------------
\* What the store keeps of the past is typed as well: a commit appends whole
\* versions and events that name fields of the row.
HistoryTyped ==
  /\ log \in [Keys -> Seq(Events)]
  /\ past \in [Keys -> Seq(Versions)]

LEMMA VersionType ==
  ASSUME NEW r \in Rows PROVE Version(r) \in Versions
BY DEF Rows, Version, Versions

LEMMA UpdateEventType ==
  ASSUME NEW old \in Rows, NEW new \in Rows PROVE UpdateEvent(old, new) \in Events
BY DEF Rows, UpdateEvent, Events, Fields

LEMMA HistoryNext == StoreInv /\ HistoryTyped /\ [Next]_vars => HistoryTyped'
<1> SUFFICES ASSUME StoreInv, HistoryTyped, [Next]_vars PROVE HistoryTyped'
  OBVIOUS
<1>1. ASSUME NEW w \in Writers, CommitCreate(w) PROVE HistoryTyped'
  <2> DEFINE k == req[w].input.key
  <2>1. k \in Keys /\ Version(Created(req[w])) \in Versions
    BY <1>1, CreatedRow, VersionType DEF CommitCreate
  <2>2. UNCHANGED log /\ past' = [past EXCEPT ![k] = Append(@, Version(Created(req[w])))]
    BY <1>1 DEF CommitCreate, Write
  <2>. QED
    BY <2>1, <2>2 DEF HistoryTyped
<1>2. ASSUME NEW w \in Writers, CommitUpdate(w) PROVE HistoryTyped'
  <2> DEFINE k == req[w].input.key
             new == Updated(row[k], req[w])
  <2>1. k \in Keys /\ row[k] \in Rows /\ new \in Rows
    BY <1>2, UpdatedRow DEF CommitUpdate
  <2>2. Version(new) \in Versions /\ UpdateEvent(row[k], new) \in Events
    BY <2>1, VersionType, UpdateEventType
  <2>3. /\ log' = [log EXCEPT ![k] = Append(@, UpdateEvent(row[k], new))]
        /\ past' = [past EXCEPT ![k] = Append(@, Version(new))]
    BY <1>2 DEF CommitUpdate, Write
  <2>. QED
    BY <2>1, <2>2, <2>3 DEF HistoryTyped
<1>3. ASSUME ~ \E w \in Writers : CommitCreate(w) \/ CommitUpdate(w)
      PROVE  UNCHANGED <<log, past>>
  BY <1>3 DEF Next, vars, Begin, Embedded, EmbedFails, CommitDedup, CommitThrows,
              CommitBusy, Stop
<1>. QED
  BY <1>1, <1>2, <1>3 DEF HistoryTyped

\* The store keeps its types for any number of keys, writers and processes: a
\* row is whole, and every event and version of the history is one of its fields'.
THEOREM StoreTypesHold == Spec => []TypeOK
<1>1. Init => HistoryTyped
  BY DEF Init, HistoryTyped
<1>2. StoreInv /\ HistoryTyped => TypeOK
  BY DEF StoreInv, RowsTyped, HistoryTyped, TypeOK
<1>. QED
  BY <1>1, <1>2, HistoryNext, StoreInvariant, PTL DEF Spec

-----------------------------------------------------------------------------
\* One event lies between any two versions of a key, and none before the first.
LogPaired ==
  \A k \in Keys : IF row[k] = Null THEN log[k] = << >> /\ past[k] = << >>
                  ELSE Len(past[k]) = Len(log[k]) + 1

LogInv == HistoryTyped /\ LogPaired /\ LogReconstructs

LEMMA LeastExists ==
  ASSUME NEW S \in SUBSET Nat, S # {}
  PROVE  \E e \in S : \A f \in S : e =< f
<1> DEFINE R == OpToRel(<, Nat)
<1>0. IsWellFoundedOn(R, Nat)
  BY NatLessThanWellFounded
<1>1. ASSUME NEW e \in Nat, NEW f \in Nat, ~(<<f, e>> \in R) PROVE e =< f
  BY <1>1 DEF OpToRel
<1> HIDE DEF R
<1>2. PICK e \in S : \A f \in S : ~(<<f, e>> \in R)
  BY <1>0, WFMin, Zenon
<1>3. ASSUME NEW f \in S PROVE e =< f
  BY <1>1, <1>2
<1>. QED
  BY <1>3

\* The event an undo of field f takes from a set of positions is the first of
\* them, and a later position that is added to them does not change it.
First(S) == CHOOSE j \in S : \A m \in S : j =< m

LEMMA FirstFacts ==
  ASSUME NEW S \in SUBSET Nat, S # {}
  PROVE  /\ First(S) \in S
         /\ \A n \in Nat : (\A m \in S : m < n) => First(S \cup {n}) = First(S)
<1>1. First(S) \in S /\ \A m \in S : First(S) =< m
  BY LeastExists DEF First
<1>2. ASSUME NEW n \in Nat, \A m \in S : m < n PROVE First(S \cup {n}) = First(S)
  <2>1. PICK T \in SUBSET Nat : T = S \cup {n}
    OBVIOUS
  <2>2. PICK a \in Nat : a = First(S)
    BY <1>1
  <2>3. First(T) \in T /\ \A m \in T : First(T) =< m
    BY <2>1, LeastExists DEF First
  <2>4. PICK b \in Nat : b = First(T)
    BY <2>3
  <2>5. a \in S /\ a \in T /\ a < n /\ \A m \in S : a =< m
    BY <1>1, <1>2, <2>1, <2>2
  <2>6. b \in T /\ b =< a
    BY <2>3, <2>4, <2>5
  <2>7. b \in S
    BY <2>1, <2>5, <2>6
  <2>8. a = b
    BY <2>5, <2>6, <2>7
  <2>. QED
    BY <2>1, <2>2, <2>4, <2>8
<1>. QED
  BY <1>1, <1>2

\* A further update of k can be undone: with its event appended, each version
\* the log gave before it still comes out.
LEMMA UndoneStep ==
  ASSUME NEW k \in Keys, NEW old \in Rows, NEW new \in Rows, NEW f \in Fields,
         log[k] \in Seq(Events),
         row[k] = old, row'[k] = new,
         log'[k] = Append(log[k], UpdateEvent(old, new)),
         NEW i \in 1..(Len(log[k]) + 1)
  PROVE  Undone(k, i, f)' = Undone(k, i, f)
<1> DEFINE n == Len(log[k]) + 1
           L == {j \in 1..Len(log[k]) : i =< j /\ f \in log[k][j].changed}
           M == {j \in 1..Len(log'[k]) : i =< j /\ f \in log'[k][j].changed}
           ev == UpdateEvent(old, new)
<1>0. n \in Nat /\ ev \in Events /\ L \in SUBSET Nat
  BY UpdateEventType
<1>1. Len(log'[k]) = n /\ log'[k][n] = ev /\ \A j \in 1..Len(log[k]) : log'[k][j] = log[k][j]
  BY <1>0
<1>2. f \in ev.changed <=> new[f] # old[f]
  BY DEF UpdateEvent
<1>3. Undone(k, i, f) = IF L = {} THEN old[f] ELSE log[k][First(L)][f]
  BY DEF Undone, Later, First
<1>4. Undone(k, i, f)' = IF M = {} THEN new[f] ELSE log'[k][First(M)][f]
  BY DEF Undone, Later, First
<1>5. CASE new[f] = old[f]
  <2>1. M = L
    BY <1>1, <1>2, <1>5
  <2>2. L # {} => First(L) \in 1..Len(log[k])
    <3>1. L # {} => First(L) \in L
      BY <1>0, FirstFacts
    <3>. QED
      BY <3>1
  <2> HIDE DEF L, M
  <2>. QED
    BY <1>1, <1>3, <1>4, <1>5, <2>1, <2>2
<1>6. CASE new[f] # old[f]
  <2>1. M = L \cup {n}
    BY <1>0, <1>1, <1>2, <1>6
  <2>2. CASE L = {}
    <3>1. First(M) = n
      BY <2>1, <2>2 DEF First
    <3>2. ev[f] = old[f]
      BY <1>6 DEF UpdateEvent, Fields
    <3>. QED
      BY <1>1, <1>3, <1>4, <2>1, <2>2, <3>1, <3>2
  <2>3. CASE L # {}
    <3>1. \A m \in L : m < n
      BY <1>0
    <3>2. First(L) \in L => First(L) \in 1..Len(log[k])
      OBVIOUS
    <3> HIDE DEF L, M, n
    <3>3. First(M) = First(L) /\ First(L) \in L
      BY <1>0, <2>1, <2>3, <3>1, FirstFacts
    <3>. QED
      BY <1>1, <1>3, <1>4, <2>1, <2>3, <3>2, <3>3
  <2>. QED
    BY <2>2, <2>3
<1>. QED
  BY <1>5, <1>6

\* What LogPaired and LogReconstructs say of one key.
Paired(k) ==
  IF row[k] = Null THEN log[k] = << >> /\ past[k] = << >>
  ELSE Len(past[k]) = Len(log[k]) + 1
Told(k) == \A i \in 1..Len(past[k]), f \in Fields : Undone(k, i, f) = past[k][i][f]

LEMMA KeyUntouched ==
  ASSUME NEW k \in Keys, row'[k] = row[k], log'[k] = log[k], past'[k] = past[k],
         Paired(k), Told(k)
  PROVE  Paired(k)' /\ Told(k)'
<1>1. ASSUME NEW i \in 1..Len(past[k]), NEW f \in Fields PROVE Undone(k, i, f)' = Undone(k, i, f)
  <2>1. PICK L : L = Later(k, i, f) /\ L = Later(k, i, f)'
    BY DEF Later
  <2>2. Undone(k, i, f) = IF L = {} THEN row[k][f] ELSE log[k][First(L)][f]
    BY <2>1 DEF Undone, First
  <2>3. Undone(k, i, f)' = IF L = {} THEN row'[k][f] ELSE log'[k][First(L)][f]
    BY <2>1 DEF Undone, First
  <2>. QED
    BY <2>2, <2>3
<1>2. Told(k)'
  BY <1>1 DEF Told
<1>. QED
  BY <1>2 DEF Paired

LEMMA KeyCreated ==
  ASSUME NEW k \in Keys, NEW new \in Rows, row[k] = Null, Paired(k), row'[k] = new,
         log'[k] = log[k], past'[k] = Append(past[k], Version(new))
  PROVE  Paired(k)' /\ Told(k)'
<1>1. new # Null
  BY RowAssumption DEF Rows
<1>2. PICK v \in Versions : v = Version(new)
  BY VersionType
<1>3. Len(log'[k]) = 0 /\ Len(past'[k]) = 1 /\ past'[k][1] = Version(new)
  <2>1. log'[k] = << >> /\ past'[k] = Append(<< >>, v)
    BY <1>2 DEF Paired
  <2>. QED
    BY <1>2, <2>1
<1>4. ASSUME NEW f \in Fields PROVE Undone(k, 1, f)' = past'[k][1][f]
  <2>1. Later(k, 1, f)' = {}
    BY <1>3 DEF Later
  <2>. QED
    BY <1>3, <2>1 DEF Undone, Version, Fields
<1>5. Told(k)'
  BY <1>3, <1>4 DEF Told
<1>. QED
  BY <1>1, <1>3, <1>5 DEF Paired

LEMMA KeyUpdated ==
  ASSUME NEW k \in Keys, NEW old \in Rows, NEW new \in Rows, HistoryTyped,
         row[k] = old, row'[k] = new, Paired(k), Told(k),
         log'[k] = Append(log[k], UpdateEvent(old, new)),
         past'[k] = Append(past[k], Version(new))
  PROVE  Paired(k)' /\ Told(k)'
<1>1. old # Null /\ new # Null
  BY RowAssumption DEF Rows
<1>2. log[k] \in Seq(Events) /\ past[k] \in Seq(Versions)
  BY DEF HistoryTyped
<1>3. Version(new) \in Versions /\ UpdateEvent(old, new) \in Events
  BY VersionType, UpdateEventType
<1>4. PICK n \in Nat : n = Len(log[k])
  BY <1>2
<1>5. Len(past[k]) = n + 1
  BY <1>1, <1>4 DEF Paired
<1>6. /\ Len(log'[k]) = n + 1 /\ Len(past'[k]) = n + 2
      /\ past'[k][n + 2] = Version(new)
      /\ \A i \in 1..(n + 1) : past'[k][i] = past[k][i]
  BY <1>2, <1>3, <1>4, <1>5
<1>7. ASSUME NEW i \in 1..(n + 1), NEW f \in Fields PROVE Undone(k, i, f)' = past'[k][i][f]
  <2>1. Undone(k, i, f)' = Undone(k, i, f)
    BY <1>2, <1>4, UndoneStep
  <2>2. Undone(k, i, f) = past[k][i][f]
    BY <1>5 DEF Told
  <2>. QED
    BY <1>6, <2>1, <2>2
<1>8. ASSUME NEW f \in Fields PROVE Undone(k, n + 2, f)' = past'[k][n + 2][f]
  <2>1. Later(k, n + 2, f)' = {}
    BY <1>4, <1>6 DEF Later
  <2>. QED
    BY <1>6, <2>1 DEF Undone, Version, Fields
<1>9. Told(k)'
  <2>1. ASSUME NEW i \in 1..(n + 2), NEW f \in Fields PROVE Undone(k, i, f)' = past'[k][i][f]
    <3>1. i \in 1..(n + 1) \/ i = n + 2
      OBVIOUS
    <3>. QED
      BY <3>1, <1>7, <1>8
  <2>. QED
    BY <1>6, <2>1 DEF Told
<1>. QED
  BY <1>1, <1>4, <1>6, <1>9 DEF Paired

LEMMA LogInvNext == StoreInv /\ LogInv /\ [Next]_vars => LogInv'
<1> SUFFICES ASSUME StoreInv, LogInv, [Next]_vars PROVE LogInv'
  OBVIOUS
<1>1. HistoryTyped'
  BY HistoryNext DEF LogInv
<1>2. \A k \in Keys : Paired(k) /\ Told(k)
  BY DEF LogInv, LogPaired, LogReconstructs, Paired, Told
<1>3. ASSUME NEW w \in Writers, CommitCreate(w), NEW x \in Keys PROVE Paired(x)' /\ Told(x)'
  <2> DEFINE k == req[w].input.key
             new == Created(req[w])
  <2>1. k \in Keys /\ new \in Rows
    BY <1>3, CreatedRow DEF CommitCreate
  <2>2. /\ row[k] = Null /\ row' = [row EXCEPT ![k] = new] /\ UNCHANGED log
        /\ past' = [past EXCEPT ![k] = Append(@, Version(new))]
    BY <1>3 DEF CommitCreate, Write
  <2>3. /\ row'[k] = new /\ past'[k] = Append(past[k], Version(new))
        /\ x # k => row'[x] = row[x] /\ past'[x] = past[x]
    BY <2>1, <2>2 DEF StoreInv, RowsTyped, LogInv, HistoryTyped
  <2> HIDE DEF k, new
  <2>. QED
    BY <1>2, <2>1, <2>2, <2>3, KeyCreated, KeyUntouched
<1>4. ASSUME NEW w \in Writers, CommitUpdate(w), NEW x \in Keys PROVE Paired(x)' /\ Told(x)'
  <2> DEFINE k == req[w].input.key
             new == Updated(row[k], req[w])
  <2>1. k \in Keys /\ row[k] \in Rows /\ new \in Rows
    BY <1>4, UpdatedRow DEF CommitUpdate
  <2>2. /\ row' = [row EXCEPT ![k] = new]
        /\ log' = [log EXCEPT ![k] = Append(@, UpdateEvent(row[k], new))]
        /\ past' = [past EXCEPT ![k] = Append(@, Version(new))]
    BY <1>4 DEF CommitUpdate, Write
  <2>3. /\ row'[k] = new /\ past'[k] = Append(past[k], Version(new))
        /\ log'[k] = Append(log[k], UpdateEvent(row[k], new))
        /\ x # k => row'[x] = row[x] /\ log'[x] = log[x] /\ past'[x] = past[x]
    BY <2>1, <2>2 DEF StoreInv, RowsTyped, LogInv, HistoryTyped
  <2> HIDE DEF k, new
  <2>. QED
    BY <1>2, <2>1, <2>3, KeyUpdated, KeyUntouched DEF LogInv
<1>5. ASSUME ~ \E w \in Writers : CommitCreate(w) \/ CommitUpdate(w)
      PROVE  UNCHANGED <<row, log, past>>
  BY <1>5 DEF Next, vars, Begin, Embedded, EmbedFails, CommitDedup, CommitThrows,
              CommitBusy, Stop
<1>6. \A k \in Keys : Paired(k)' /\ Told(k)'
  BY <1>2, <1>3, <1>4, <1>5, KeyUntouched
<1>. QED
  BY <1>1, <1>6 DEF LogInv, LogPaired, LogReconstructs, Paired, Told

\* The ingest log is the history of an artifact: undoing its events from the row as it
\* is now gives back every version that was ever committed, whatever writers raced
\* (the ingest_update event keeps the prior value of exactly the fields that changed,
\* src/src/db.js:629-648).
THEOREM LogKeepsHistory == Spec => []LogReconstructs
<1>1. Init => LogInv
  BY DEF Init, LogInv, HistoryTyped, LogPaired, LogReconstructs
<1>. QED
  BY <1>1, LogInvNext, StoreInvariant, PTL DEF Spec, LogInv
=============================================================================
