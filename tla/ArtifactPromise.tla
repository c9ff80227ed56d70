--------------------------- MODULE ArtifactPromise ---------------------------
(***************************************************************************)
(* What the artifact store promises to everyone who ingests or searches,   *)
(* with no requests, no awaits and no transactions: one record per upsert  *)
(* key, created whole and then changed in single atomic steps.             *)
(***************************************************************************)
CONSTANTS Keys,    \* upsert keys, i.e. (source, source_id) pairs
          Texts,   \* values of text_repr
          Labels,  \* non-empty values of place_label
          Hashes,  \* values of content_hash
          Null     \* SQL NULL

VARIABLE record    \* record[k]: the artifact with upsert key k, or Null

Records == [text : Texts, vec : Texts, fts : Texts,
            label : Labels \cup {Null}, hash : Hashes \cup {Null}]

Init == record = [k \in Keys |-> Null]

\* Both search indexes describe the text that is stored with them.
Indexed(r) == r.vec = r.text /\ r.fts = r.text

Create(k) ==
  /\ record[k] = Null
  /\ \E r \in Records : Indexed(r) /\ record' = [record EXCEPT ![k] = r]

\* A later wave replaces the text together with both indexes, or the label by
\* another label. The original's hash is the one the record was created with,
\* and a label that is known stays known.
Update(k) ==
  /\ record[k] # Null
  /\ \E r \in Records :
       /\ Indexed(r)
       /\ r.hash = record[k].hash
       /\ record[k].label # Null => r.label # Null
       /\ record' = [record EXCEPT ![k] = r]

Next == \E k \in Keys : Create(k) \/ Update(k)

Spec == Init /\ [][Next]_record
=============================================================================
