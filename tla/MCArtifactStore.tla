--------------------------- MODULE MCArtifactStore ---------------------------
(***************************************************************************)
(* Two requests in the server and one writer of another process on the     *)
(* same database, racing on one key.                                       *)
(***************************************************************************)
EXTENDS ArtifactStore

CONSTANTS k1, server, script, w1, w2, w3, t1, t2, here, geo, h1, h2

MCKeys == {k1}
MCWriters == {w1, w2, w3}
MCProcesses == {server, script}
MCProcessOf == [w \in MCWriters |-> IF w = w3 THEN script ELSE server]
MCTexts == {t1, t2}
MCLabels == {here, geo}
MCHashes == {h1, h2}

\* One text with and without coordinates and label (as the waves of a photo
\* import send it), a second text, and the insert-only and digest callers.
Wave(mode, text, label, hasGeo, hash) ==
  [mode |-> mode, key |-> k1, text |-> text, label |-> label,
   geo |-> hasGeo, hash |-> hash]
MCInputs ==
  {Wave("ingest", t1, Null, TRUE, h1),
   Wave("ingest", t1, here, FALSE, h1),
   Wave("ingest", t2, Empty, FALSE, h2),
   Wave("ingest", t2, Null, TRUE, Null),
   Wave("digest", t2, Null, FALSE, Null),
   Wave("store", t1, Null, FALSE, h2)}
=============================================================================
