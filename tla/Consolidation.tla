---------------------------- MODULE Consolidation ----------------------------
(***************************************************************************)
(* Nightly digests (src/src/consolidate.js) and the timeline that shows a  *)
(* digest in place of its day's artifacts (timeline in src/src/search.js). *)
(*                                                                         *)
(* A run takes its days oldest first. For each it reads the day's rows,    *)
(* waits for the language model and for the embedding, and then stores the *)
(* digest in one transaction; meanwhile artifacts of that day arrive or    *)
(* change, and another run, by hand or by the next night, may overlap.     *)
(*                                                                         *)
(* Digest and timeline do not share a calendar: the digest takes the rows  *)
(* whose occurred_at begins with the day, the timeline goes by SQLite's    *)
(* date(occurred_at), which turns a time with an offset into UTC.          *)
(***************************************************************************)
EXTENDS Naturals, FiniteSets

CONSTANTS
  Consolidators, \* processes of `npm run consolidate`
  MaxDay,        \* bound: days
  DayOf,         \* DayOf[r]: the day occurred_at of artifact r begins with; artifacts are
                 \* numbered in order of occurred_at
  TimelineDay,   \* TimelineDay[r]: the day date(occurred_at) says, 0 if it says none
  Eligible,      \* those of a digest_eligible type
  MaxText,       \* bound: versions of an artifact's line in the prompt
  DigestCap,     \* DIGEST_MAX_ARTIFACTS
  MonthScale     \* DIGEST_TIMELINE_DAYS

DayArtifacts == DOMAIN DayOf
CalendarDays == 1..MaxDay

ASSUME ConsolidationAssumption ==
  /\ MaxDay \in Nat /\ MaxText \in Nat \ {0} /\ DigestCap \in Nat \ {0} /\ MonthScale \in Nat
  /\ DayArtifacts \subseteq Nat /\ DayOf \in [DayArtifacts -> CalendarDays] /\ Eligible \subseteq DayArtifacts
  /\ TimelineDay \in [DayArtifacts -> Nat]

VARIABLES
  line,     \* line[r]: the version of r's prompt line, 0 while r is not stored
  digest,   \* digest[d]: rows the stored digest of d was made from, and those its hash names
  batch,      \* batch[p]: what process p works on
  late      \* history: what came or changed after the digest in place had read its day;
            \* nothing while there is none

digestVars == <<line, digest, batch, late>>

Undigested == [of |-> {}, hash |-> {}]
Resting == [pc |-> "off", left |-> {}, read |-> {}, missed |-> {}]

DigestInit ==
  /\ line = [r \in DayArtifacts |-> 0] /\ digest = [d \in CalendarDays |-> Undigested]
  /\ batch = [p \in Consolidators |-> Resting] /\ late = [d \in CalendarDays |-> {}]

-----------------------------------------------------------------------------
OfDay(d) == {r \in DayArtifacts : DayOf[r] = d /\ line[r] > 0}

\* eligibleStmt: the first rows of the day up to the cap, as the prompt has them.
DayInput(d) ==
  LET rows == OfDay(d) \cap Eligible
  IN  {<<r, line[r]>> : r \in {q \in rows : Cardinality({s \in rows : s < q}) < DigestCap}}

Earliest(S) == CHOOSE d \in S : \A e \in S : d <= e

\* ingest.js stores an artifact, or changes what its prompt line says.
ArtifactComes(r) ==
  /\ line[r] < MaxText
  /\ line' = [line EXCEPT ![r] = @ + 1]
  /\ late' = [late EXCEPT ![DayOf[r]] =
                IF digest[DayOf[r]] = Undigested THEN {} ELSE @ \cup {r}]
  /\ batch' = [p \in Consolidators |->
       IF batch[p].read # {} /\ Earliest(batch[p].left) = DayOf[r]
       THEN [batch[p] EXCEPT !.missed = @ \cup {r}] ELSE batch[p]]
  /\ UNCHANGED digest

\* main: yesterday, one --date, or the last days of a --backfill.
StartRun(p, from, to) ==
  /\ batch[p].pc = "off" /\ from <= to
  /\ batch' = [batch EXCEPT ![p].pc = "next", ![p].left = from..to]
  /\ UNCHANGED <<line, digest, late>>

\* Definitions named Bad... are faults the code could have had in the definition that
\* follows; they serve to show that a property notices.
BadUpToDate(d) == digest[d] # Undigested   \* no hash compared
UpToDate(d) == digest[d] # Undigested /\ digest[d].hash = DayInput(d)

DayDone(p) ==
  LET left == batch[p].left \ {Earliest(batch[p].left)}
  IN  IF left = {} THEN Resting ELSE [Resting EXCEPT !.pc = "next", !.left = left]

\* consolidateDay up to the first await; a skipped day takes its digest for complete.
ReadDay(p) ==
  LET d == Earliest(batch[p].left)
      idle == DayInput(d) = {} \/ UpToDate(d)
  IN  /\ batch[p].pc = "next"
      /\ batch' = [batch EXCEPT ![p] = IF idle THEN DayDone(p)
                                   ELSE [@ EXCEPT !.pc = "asking", !.read = DayInput(d)]]
      /\ late' = IF UpToDate(d) THEN [late EXCEPT ![d] = {}] ELSE late
      /\ UNCHANGED <<line, digest>>

HearDigest(p) ==
  /\ batch[p].pc = "asking"
  /\ batch' = [batch EXCEPT ![p].pc = "embedding"]
  /\ UNCHANGED <<line, digest, late>>

\* The embedding is there: upsertArtifactTxn with the hash of what was read.
BadHashed(p) == DayInput(Earliest(batch[p].left))   \* of what is there by now
Hashed(p) == batch[p].read
StoreDigest(p) ==
  LET d == Earliest(batch[p].left)
  IN  /\ batch[p].pc = "embedding"
      /\ digest' = [digest EXCEPT ![d] = [of |-> batch[p].read, hash |-> Hashed(p)]]
      /\ late' = [late EXCEPT ![d] = batch[p].missed]
      /\ batch' = [batch EXCEPT ![p] = DayDone(p)]
      /\ UNCHANGED line

\* Model or gateway fail, the digest is empty or cut off, or the process is killed: the
\* run ends, the days it has done stay done.
RunFails(p) ==
  /\ batch[p].pc # "off"
  /\ batch' = [batch EXCEPT ![p] = Resting]
  /\ UNCHANGED <<line, digest, late>>

DigestNext ==
  \/ \E r \in DayArtifacts : ArtifactComes(r)
  \/ \E p \in Consolidators :
       \/ \E from, to \in CalendarDays : StartRun(p, from, to)
       \/ ReadDay(p) \/ HearDigest(p) \/ StoreDigest(p) \/ RunFails(p)
DigestSpec == DigestInit /\ [][DigestNext]_digestVars

-----------------------------------------------------------------------------
DigestTypeOK ==
  LET rows == DayArtifacts \X (1..MaxText) IN
  /\ line \in [DayArtifacts -> 0..MaxText]
  /\ digest \in [CalendarDays -> [of : SUBSET rows, hash : SUBSET rows]]
  /\ late \in [CalendarDays -> SUBSET DayArtifacts]
  /\ \A p \in Consolidators :
       /\ batch[p].pc \in {"off", "next", "asking", "embedding"} /\ batch[p].left \subseteq CalendarDays
       /\ batch[p].read \subseteq rows /\ batch[p].missed \subseteq DayArtifacts

\* timeline without types: over a long span, a day with a digest shows the digest and the
\* artifacts no digest is about. A digest is of one day in either calendar.
TimelineRows(from, to) ==
  LET folds(d) == to - from + 1 >= MonthScale /\ digest[d] # Undigested
  IN  {r \in DayArtifacts : line[r] > 0 /\ TimelineDay[r] \in from..to
                            /\ (folds(TimelineDay[r]) => r \notin Eligible)}

\* What a month of the timeline leaves out is told by the digest of the day it is of, in the
\* wording it has now, unless it came or changed after the digest in place had been read, or is
\* one too many for the prompt: no overlap of runs, failure or retry leaves a digest that later
\* runs take for up to date when it is not (consolidateDay, timelineDigestStmt). Where the two
\* calendars differ, the digest of another day folds it away, and its own day may have none.
FoldedIsTold ==
  \A r \in {q \in DayArtifacts : line[q] > 0} \ TimelineRows(1, MaxDay) :
    LET d == DayOf[r]
    IN  /\ digest[d] # Undigested \/ TimelineDay[r] = d
        /\ r \notin late[d] /\ <<r, line[r]>> \in DayInput(d)
        => <<r, line[r]>> \in digest[d].of
=============================================================================
