----------------------------- MODULE MessageFeed -----------------------------
(***************************************************************************)
(* The iMessage connector (src/connectors/imessage/index.js). A reader     *)
(* opens a snapshot of chat.db, sends the rows past the cursor page by     *)
(* page and batch by batch, and saves the cursor when a page is through.   *)
(* A one-shot reader is started again by launchd, a --watch reader by its  *)
(* own timer: one pass never overlaps another of the same process, but     *)
(* nothing keeps two processes from sharing the cursor file.               *)
(*                                                                         *)
(* A step is what runs between two awaits. The server's answer and what    *)
(* the reader does with it are two steps, so a kill falls between them.    *)
(***************************************************************************)
EXTENDS Naturals, Sequences, FiniteSets

CONSTANTS
  Readers,        \* the processes that share the cursor file
  MaxRow,         \* bound: rows of chat.db
  PageSize,       \* IMESSAGE_DB_PAGE_SIZE
  BatchMax,       \* INGEST_BATCH_MAX
  MaxFeedFaults   \* bound: requests that fail and processes that are killed

ASSUME FeedAssumption ==
  /\ MaxRow \in Nat /\ MaxFeedFaults \in Nat
  /\ PageSize \in Nat \ {0} /\ BatchMax \in Nat \ {0}

VARIABLES
  rows,       \* the kinds of the rows of the current snapshot, by ROWID
  cursor,     \* lastRowId in the cursor file, 0 without one
  reader,     \* reader[p]: the memory of process p
  answered,   \* the payloads the server answered for, stored or refused
  feedFaults

feedVars == <<rows, cursor, reader, answered, feedFaults>>

\* A row's text and its image attachments; a tapback has neither, and an attachment
\* that is no image is skipped.
Parts == [text |-> {"message"}, image |-> {"photo"},
          both |-> {"message", "photo"}, tapback |-> {}]
Kinds == DOMAIN Parts
Payloads(r) == {r} \X Parts[rows[r]]

\* The order in which payloads are built: by row, a row's text before its image.
Earlier(x, y) == x[1] < y[1] \/ (x[1] = y[1] /\ x[2] = "message" /\ y[2] = "photo")

Idle == [pc |-> "idle", seen |-> 0, to |-> 0, full |-> FALSE, left |-> {}]

\* The page after row `from` of a snapshot of n rows, and what of it is to be sent.
\* Without a row the pass is over; without a payload there is no request to wait for.
PageAfter(from, n) ==
  LET to == IF n < from + PageSize THEN n ELSE from + PageSize
      left == UNION {Payloads(r) : r \in (from + 1)..to}
  IN  IF to <= from THEN Idle
      ELSE [pc |-> IF left = {} THEN "heard" ELSE "send", seen |-> n, to |-> to,
            full |-> to = from + PageSize, left |-> left]

\* The first BatchMax payloads that are left, or all of them.
IsBatch(B, left) ==
  /\ Cardinality(B) = IF Cardinality(left) < BatchMax THEN Cardinality(left) ELSE BatchMax
  /\ \A x \in B, y \in left \ B : Earlier(x, y)

FeedInit ==
  /\ rows = << >> /\ cursor = 0 /\ answered = {} /\ feedFaults = 0
  /\ reader = [p \in Readers |-> Idle]

\* The helper puts a snapshot with one more row in place of the last.
Arrive ==
  /\ Len(rows) < MaxRow
  /\ \E k \in Kinds : rows' = Append(rows, k)
  /\ UNCHANGED <<cursor, reader, answered, feedFaults>>

\* runPass up to its first await: the snapshot is opened, the cursor read, a page built.
BeginPass(p) ==
  /\ reader[p].pc = "idle"
  /\ reader' = [reader EXCEPT ![p] = PageAfter(cursor, Len(rows))]
  /\ UNCHANGED <<rows, cursor, answered, feedFaults>>

\* The server works through a batch, and answers 200 whatever became of its items.
ServerAnswers(p) ==
  /\ reader[p].pc = "send"
  /\ \E B \in SUBSET reader[p].left :
       /\ IsBatch(B, reader[p].left)
       /\ answered' = answered \cup B
       /\ reader' = [reader EXCEPT ![p].pc = "heard", ![p].left = @ \ B]
  /\ UNCHANGED <<rows, cursor, feedFaults>>

\* Definitions named Bad... are faults the code could have had in the definition that
\* follows; they serve to show that a property notices.
BadPageSent(r) == TRUE   \* the cursor is saved after every batch
PageSent(r) == r.left = {}

BadCursorAfter(r) == IF r.full THEN r.to ELSE cursor   \* "caught up" is tested first
BadCursorBeyond(r) == r.to + 1    \* the row where the next page begins
CursorAfter(r) == r.to

\* The reader hears the answer: the next batch of the page, or the cursor is saved, and
\* with it goes the next page, unless this one was short. On the live database a
\* later page sees rows that came since; on a snapshot it does not.
Hear(p) ==
  LET r == reader[p] IN
  /\ r.pc = "heard"
  /\ \/ /\ r.left # {}
        /\ cursor' = IF PageSent(r) THEN CursorAfter(r) ELSE cursor
        /\ reader' = [reader EXCEPT ![p].pc = "send"]
     \/ /\ r.left = {}
        /\ cursor' = CursorAfter(r)
        /\ \E n \in {r.seen, Len(rows)} :
             reader' = [reader EXCEPT ![p] =
                          IF r.full THEN PageAfter(CursorAfter(r), n) ELSE Idle]
  /\ UNCHANGED <<rows, answered, feedFaults>>

\* A failed request ends the pass with the page's rows still past the cursor; a kill
\* ends it anywhere, and the timer or launchd starts another.
EndPass(p) ==
  /\ feedFaults < MaxFeedFaults
  /\ reader[p].pc \in {"send", "heard"}
  /\ reader' = [reader EXCEPT ![p] = Idle]
  /\ feedFaults' = feedFaults + 1
  /\ UNCHANGED <<rows, cursor, answered>>

Pass(p) == BeginPass(p) \/ ServerAnswers(p) \/ Hear(p)
FeedNext == Arrive \/ \E p \in Readers : Pass(p) \/ EndPass(p)

\* Timer and launchd start the next pass, and a request that is not lost is answered.
\* Nobody owes us another message.
FeedFairness == \A p \in Readers : WF_feedVars(Pass(p))
FeedSpec == FeedInit /\ [][FeedNext]_feedVars /\ FeedFairness

-----------------------------------------------------------------------------
FeedTypeOK ==
  /\ rows \in Seq(Kinds) /\ Len(rows) <= MaxRow
  /\ cursor \in 0..MaxRow
  /\ answered \subseteq (1..MaxRow) \X {"message", "photo"}
  /\ feedFaults \in 0..MaxFeedFaults
  /\ \A p \in Readers :
       /\ reader[p].pc \in {"idle", "send", "heard"}
       /\ reader[p].seen \in 0..MaxRow /\ reader[p].to \in 0..MaxRow
       /\ reader[p].full \in BOOLEAN
       /\ reader[p].left \subseteq (1..MaxRow) \X {"message", "photo"}

\* No row is behind the saved cursor before the server has answered for all of its
\* payloads, whatever requests fail, whichever process dies in the middle of a page
\* and however the passes of two processes overlap: the cursor is written by what was
\* sent, never by what was read (backfill: syncPage, then writeCursor).
CursorSafe == \A r \in 1..cursor : Payloads(r) \subseteq answered

\* Every row the snapshot comes to hold is passed for good: the cursor gets behind the last
\* one and, though a slow pass of another process may write an older value, ends up behind it.
\* (MaxRow bounds the rows, so in the end there is a last one.) The short last page, pages
\* without a payload and the rereading of the cursor file at every pass are what this rests on.
RowsPassed == <>[](cursor >= Len(rows))
=============================================================================
