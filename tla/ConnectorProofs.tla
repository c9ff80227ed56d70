--------------------------- MODULE ConnectorProofs ---------------------------
(***************************************************************************)
(* The connectors that keep what they have sent, or have still to send, in *)
(* a file: for every number of processes, rows, hooks and photos, and any  *)
(* failures and kills, what counts as sent was answered for by the server. *)
(* MessageFeed and PhotoLibrary so implement Delivery, at least once.      *)
(***************************************************************************)
EXTENDS MessageFeed, HookSpool, PhotoLibrary, TLAPS

-----------------------------------------------------------------------------
\* MessageFeed: the cursor file.

PayloadIds == (1..MaxRow) \X {"message", "photo"}
Memories == [pc : {"idle", "send", "heard"}, seen : 0..MaxRow, to : 0..MaxRow, full : BOOLEAN,
             left : SUBSET PayloadIds]

FeedTyped ==
  /\ rows \in Seq(Kinds) /\ Len(rows) <= MaxRow
  /\ cursor \in 0..Len(rows)
  /\ answered \subseteq PayloadIds
  /\ feedFaults \in 0..MaxFeedFaults
  /\ reader \in [Readers -> Memories]
  /\ \A p \in Readers : reader[p].seen <= Len(rows) /\ reader[p].to <= Len(rows)

\* What a reader in the middle of a page knows to be sent up to its end, or still to be
\* sent by it: a row it has not begun with is behind a cursor that was safe.
Accounted(m, known) == \A r \in 1..m.to : Payloads(r) \subseteq known \cup m.left
PagesAccounted == \A p \in Readers : reader[p].pc # "idle" => Accounted(reader[p], answered)

FeedInv == FeedTyped /\ PagesAccounted /\ CursorSafe

LEMMA PayloadsTyped ==
  ASSUME rows \in Seq(Kinds), Len(rows) <= MaxRow, NEW r \in 1..Len(rows)
  PROVE  Payloads(r) \subseteq PayloadIds
<1>1. r \in 1..MaxRow
  BY FeedAssumption
<1>2. rows[r] \in Kinds
  OBVIOUS
<1>3. Parts[rows[r]] \subseteq {"message", "photo"}
  BY <1>2 DEF Parts, Kinds
<1>. QED
  BY <1>1, <1>3 DEF Payloads, PayloadIds

LEMMA FeedInvTyped == FeedInv => FeedTypeOK
BY FeedAssumption DEF FeedInv, FeedTyped, FeedTypeOK, PayloadIds, Memories

LEMMA IdleTyped == Idle \in Memories
BY FeedAssumption DEF Idle, Memories

\* The page after a safe row: typed, and all of it accounted for.
LEMMA PageFacts ==
  ASSUME FeedTyped, NEW from \in 0..Len(rows), NEW n \in 0..Len(rows),
         \A r \in 1..from : Payloads(r) \subseteq answered
  PROVE  /\ PageAfter(from, n) \in Memories
         /\ PageAfter(from, n).seen <= Len(rows) /\ PageAfter(from, n).to <= Len(rows)
         /\ Accounted(PageAfter(from, n), answered)
<1> DEFINE to == IF n < from + PageSize THEN n ELSE from + PageSize
           left == UNION {Payloads(r) : r \in (from + 1)..to}
           page == [pc |-> IF left = {} THEN "heard" ELSE "send", seen |-> n, to |-> to,
                    full |-> to = from + PageSize, left |-> left]
<1>1. /\ Len(rows) \in Nat /\ Len(rows) <= MaxRow /\ MaxRow \in Nat /\ from \in Nat /\ n \in Nat
      /\ PageSize \in Nat
  BY FeedAssumption DEF FeedTyped
<1>2. to \in Nat /\ to <= n /\ to <= Len(rows)
  BY <1>1
<1>3. PageAfter(from, n) = IF to <= from THEN Idle ELSE page
  BY DEF PageAfter
<1>4. CASE to <= from
  <2>1. PageAfter(from, n) = Idle
    BY <1>3, <1>4
  <2>. QED
    BY <2>1, <1>1, IdleTyped DEF Idle, Accounted
<1>5. CASE ~(to <= from)
  <2>1. left \subseteq PayloadIds
    <3>1. ASSUME NEW r \in (from + 1)..to PROVE Payloads(r) \subseteq PayloadIds
      <4>1. r \in 1..Len(rows)
        BY <1>1, <1>2
      <4>. QED
        BY <4>1, PayloadsTyped DEF FeedTyped
    <3>. QED
      BY <3>1
  <2>2. page \in Memories
    BY <2>1, <1>1, <1>2 DEF Memories
  <2>3. ASSUME NEW r \in 1..to PROVE Payloads(r) \subseteq answered \cup left
    <3>1. CASE r <= from
      BY <3>1, <1>1
    <3>2. CASE ~(r <= from)
      <4>1. r \in (from + 1)..to
        BY <3>2, <1>1, <1>2
      <4>. QED
        BY <4>1
    <3>. QED
      BY <3>1, <3>2
  <2>4. PageAfter(from, n) = page
    BY <1>3, <1>5
  <2>5. page.to = to /\ page.left = left /\ page.seen = n
    OBVIOUS
  <2>6. Accounted(page, answered)
    BY <2>3, <2>5 DEF Accounted
  <2>. HIDE DEF page
  <2>. QED
    BY <2>2, <2>4, <2>5, <2>6, <1>1, <1>2
<1>. QED
  BY <1>4, <1>5

LEMMA FeedStarts == FeedInit => FeedInv
<1> SUFFICES ASSUME FeedInit PROVE FeedInv
  OBVIOUS
<1>1. reader \in [Readers -> Memories] /\ \A p \in Readers : reader[p] = Idle
  BY IdleTyped DEF FeedInit
<1>2. Len(rows) = 0 /\ rows \in Seq(Kinds)
  BY DEF FeedInit
<1>3. FeedTyped
  BY <1>1, <1>2, FeedAssumption DEF FeedInit, FeedTyped, Idle
<1>4. PagesAccounted /\ CursorSafe
  BY <1>1 DEF FeedInit, PagesAccounted, CursorSafe, Idle
<1>. QED
  BY <1>3, <1>4 DEF FeedInv

LEMMA ArriveKeeps == FeedInv /\ Arrive => FeedInv'
<1> SUFFICES ASSUME FeedInv, Arrive PROVE FeedInv'
  OBVIOUS
<1>1. PICK k \in Kinds : rows' = Append(rows, k)
  BY DEF Arrive
<1>2. /\ rows' \in Seq(Kinds) /\ Len(rows') = Len(rows) + 1 /\ Len(rows') <= MaxRow
      /\ \A r \in 1..Len(rows) : rows'[r] = rows[r]
  BY <1>1, FeedAssumption DEF FeedInv, FeedTyped, Arrive
<1>3. \A r \in 1..Len(rows) : Payloads(r)' = Payloads(r)
  BY <1>2 DEF Payloads
<1>4. FeedTyped'
  BY <1>2 DEF FeedInv, FeedTyped, Arrive, Memories
<1>5. CursorSafe'
  BY <1>3 DEF FeedInv, FeedTyped, CursorSafe, Arrive
<1>6. PagesAccounted'
  <2> SUFFICES ASSUME NEW p \in Readers, reader[p].pc # "idle", NEW r \in 1..reader[p].to
               PROVE  Payloads(r)' \subseteq answered \cup reader[p].left
    BY DEF PagesAccounted, Accounted, Arrive
  <2>1. r \in 1..Len(rows)
    BY DEF FeedInv, FeedTyped, Memories
  <2>2. Payloads(r) \subseteq answered \cup reader[p].left
    BY DEF FeedInv, PagesAccounted, Accounted
  <2>. QED
    BY <2>1, <2>2, <1>3
<1>. QED
  BY <1>4, <1>5, <1>6 DEF FeedInv

\* A step of one reader p on the same rows.
LEMMA ReaderMovesKeeps ==
  ASSUME FeedInv, NEW p \in Readers, NEW m \in Memories,
         rows' = rows, reader' = [reader EXCEPT ![p] = m],
         m.seen <= Len(rows), m.to <= Len(rows),
         m.pc # "idle" => Accounted(m, answered'),
         answered \subseteq answered', answered' \subseteq PayloadIds,
         feedFaults' \in 0..MaxFeedFaults,
         cursor' \in 0..Len(rows), CursorSafe'
  PROVE  FeedInv'
<1>1. reader' \in [Readers -> Memories] /\ \A q \in Readers : reader'[q] = IF q = p THEN m ELSE reader[q]
  BY DEF FeedInv, FeedTyped
<1>2. FeedTyped'
  BY <1>1 DEF FeedInv, FeedTyped, Memories
<1>3. PagesAccounted'
  <2> SUFFICES ASSUME NEW q \in Readers, reader'[q].pc # "idle",
                      NEW r \in 1..reader'[q].to
               PROVE  Payloads(r)' \subseteq answered' \cup reader'[q].left
    BY DEF PagesAccounted, Accounted
  <2>1. Payloads(r)' = Payloads(r)
    BY DEF Payloads
  <2>2. CASE q = p
    BY <2>1, <2>2, <1>1 DEF Accounted
  <2>3. CASE q # p
    BY <2>1, <2>3, <1>1 DEF FeedInv, PagesAccounted, Accounted
  <2>. QED
    BY <2>2, <2>3
<1>. QED
  BY <1>2, <1>3 DEF FeedInv

LEMMA BeginPassKeeps == ASSUME FeedInv, NEW p \in Readers, BeginPass(p) PROVE FeedInv'
<1> DEFINE m == PageAfter(cursor, Len(rows))
<1>1. FeedTyped /\ cursor \in 0..Len(rows) /\ Len(rows) \in 0..Len(rows)
  BY DEF FeedInv, FeedTyped
<1>2. \A r \in 1..cursor : Payloads(r) \subseteq answered
  BY DEF FeedInv, CursorSafe
<1>3. /\ m \in Memories /\ m.seen <= Len(rows) /\ m.to <= Len(rows)
      /\ Accounted(m, answered)
  BY <1>1, <1>2, PageFacts
<1>4. UNCHANGED <<rows, cursor, answered, feedFaults>> /\ reader' = [reader EXCEPT ![p] = m]
  BY DEF BeginPass
<1>5. CursorSafe'
  BY <1>4 DEF FeedInv, CursorSafe, Payloads
<1>. HIDE DEF m
<1>. QED
  BY <1>1, <1>3, <1>4, <1>5, ReaderMovesKeeps DEF FeedTyped

LEMMA ServerAnswersKeeps == ASSUME FeedInv, NEW p \in Readers, ServerAnswers(p) PROVE FeedInv'
<1>1. PICK B \in SUBSET reader[p].left :
        /\ answered' = answered \cup B
        /\ reader' = [reader EXCEPT ![p].pc = "heard", ![p].left = @ \ B]
  BY DEF ServerAnswers
<1>2. reader[p] \in Memories /\ reader[p].seen <= Len(rows) /\ reader[p].to <= Len(rows)
  BY DEF FeedInv, FeedTyped
<1> DEFINE m == [reader[p] EXCEPT !.pc = "heard", !.left = @ \ B]
<1>3. /\ m \in Memories /\ m.left = reader[p].left \ B /\ m.to = reader[p].to
      /\ m.seen = reader[p].seen
  BY <1>2 DEF Memories
<1>4. reader' = [reader EXCEPT ![p] = m]
  BY <1>1
<1>5. UNCHANGED <<rows, cursor, feedFaults>>
  BY DEF ServerAnswers
<1>6. answered \subseteq answered' /\ answered' \subseteq PayloadIds
  BY <1>1, <1>2 DEF FeedInv, FeedTyped, Memories
<1>7. CursorSafe'
  BY <1>5, <1>6 DEF FeedInv, CursorSafe, Payloads
<1>8. Accounted(m, answered')
  <2>1. Accounted(reader[p], answered)
    BY DEF FeedInv, PagesAccounted, ServerAnswers
  <2>. QED
    BY <2>1, <1>1, <1>3 DEF Accounted
<1>9. feedFaults' \in 0..MaxFeedFaults /\ cursor' \in 0..Len(rows)
  BY <1>5 DEF FeedInv, FeedTyped
<1>. HIDE DEF m
<1>. QED
  BY <1>2, <1>3, <1>4, <1>5, <1>6, <1>7, <1>8, <1>9, ReaderMovesKeeps

LEMMA HearKeeps == ASSUME FeedInv, NEW p \in Readers, Hear(p) PROVE FeedInv'
<1> DEFINE r == reader[p]
<1>1. /\ r \in Memories /\ r.seen <= Len(rows) /\ r.to <= Len(rows) /\ r.pc = "heard"
      /\ Accounted(r, answered)
  BY DEF FeedInv, FeedTyped, PagesAccounted, Hear
<1>2. UNCHANGED <<rows, answered, feedFaults>> /\ feedFaults' \in 0..MaxFeedFaults
      /\ answered' \subseteq PayloadIds
  BY DEF Hear, FeedInv, FeedTyped
<1>3. CASE r.left # {}
  <2>1. cursor' = cursor /\ reader' = [reader EXCEPT ![p] = [r EXCEPT !.pc = "send"]]
    BY <1>3 DEF Hear, PageSent
  <2>2. /\ [r EXCEPT !.pc = "send"] \in Memories /\ [r EXCEPT !.pc = "send"].to = r.to
        /\ [r EXCEPT !.pc = "send"].seen = r.seen /\ [r EXCEPT !.pc = "send"].left = r.left
    BY <1>1 DEF Memories
  <2>3. CursorSafe' /\ cursor' \in 0..Len(rows)
    BY <2>1, <1>2 DEF FeedInv, FeedTyped, CursorSafe, Payloads
  <2>4. Accounted([r EXCEPT !.pc = "send"], answered')
    BY <1>1, <1>2, <2>2 DEF Accounted
  <2>. QED
    BY <1>1, <1>2, <2>1, <2>2, <2>3, <2>4, ReaderMovesKeeps
<1>4. CASE r.left = {}
  <2>1. PICK n \in {r.seen, Len(rows)} :
          reader' = [reader EXCEPT ![p] = IF r.full THEN PageAfter(r.to, n) ELSE Idle]
    BY <1>4 DEF Hear, CursorAfter
  <2>2. cursor' = r.to
    BY <1>4 DEF Hear, CursorAfter
  <2>3. r.to \in 0..Len(rows) /\ n \in 0..Len(rows)
    BY <1>1 DEF Memories, FeedInv, FeedTyped
  <2>4. \A row \in 1..r.to : Payloads(row) \subseteq answered
    BY <1>1, <1>4 DEF Accounted
  <2>5. CursorSafe'
    BY <2>2, <2>4, <1>2 DEF CursorSafe, Payloads
  <2> DEFINE m == IF r.full THEN PageAfter(r.to, n) ELSE Idle
  <2>6. /\ PageAfter(r.to, n) \in Memories
        /\ PageAfter(r.to, n).seen <= Len(rows) /\ PageAfter(r.to, n).to <= Len(rows)
        /\ Accounted(PageAfter(r.to, n), answered)
    BY <2>3, <2>4, PageFacts DEF FeedInv
  <2>7. Idle.seen <= Len(rows) /\ Idle.to <= Len(rows) /\ Idle.pc = "idle"
    BY <2>3 DEF Idle
  <2>8. m \in Memories /\ m.seen <= Len(rows) /\ m.to <= Len(rows)
        /\ (m.pc # "idle" => Accounted(m, answered'))
    BY <2>6, <2>7, <1>2, IdleTyped
  <2>9. reader' = [reader EXCEPT ![p] = m] /\ cursor' \in 0..Len(rows)
    BY <2>1, <2>2, <2>3
  <2>. HIDE DEF m
  <2>. QED
    BY <1>2, <2>5, <2>8, <2>9, ReaderMovesKeeps
<1>. QED
  BY <1>3, <1>4

LEMMA EndPassKeeps == ASSUME FeedInv, NEW p \in Readers, EndPass(p) PROVE FeedInv'
<1>1. /\ UNCHANGED <<rows, cursor, answered>> /\ reader' = [reader EXCEPT ![p] = Idle]
      /\ feedFaults' \in 0..MaxFeedFaults
  BY FeedAssumption DEF EndPass, FeedInv, FeedTyped
<1>2. CursorSafe' /\ cursor' \in 0..Len(rows) /\ answered' \subseteq PayloadIds /\ Len(rows) \in Nat
  BY <1>1 DEF FeedInv, FeedTyped, CursorSafe, Payloads
<1>3. Idle.pc = "idle" /\ Idle.seen <= Len(rows) /\ Idle.to <= Len(rows)
  BY <1>2 DEF Idle
<1>. QED
  BY <1>1, <1>2, <1>3, IdleTyped, ReaderMovesKeeps

LEMMA FeedSteps == FeedInv /\ [FeedNext]_feedVars => FeedInv'
<1>1. FeedInv /\ UNCHANGED feedVars => FeedInv'
  BY DEF FeedInv, FeedTyped, PagesAccounted, Accounted, CursorSafe, Payloads, feedVars
<1>. QED
  BY <1>1, ArriveKeeps, BeginPassKeeps, ServerAnswersKeeps, HearKeeps, EndPassKeeps DEF FeedNext, Pass

\* For any number of readers, rows, page and batch sizes: no row is behind the saved
\* cursor before the server has answered for all of its payloads (syncPage,
\* writeCursor). It rests on PagesAccounted: up to the end of its page a reader knows
\* of every row that it was answered for or that the reader has still to send it.
THEOREM CursorStaysSafe == FeedSpec => []CursorSafe
<1>1. FeedInv => CursorSafe
  BY DEF FeedInv
<1>. QED
  BY FeedStarts, FeedSteps, <1>1, PTL DEF FeedSpec

\* Everything a reader of chat.db keeps is of its type.
THEOREM FeedTypesHold == FeedSpec => []FeedTypeOK
BY FeedStarts, FeedSteps, FeedInvTyped, PTL DEF FeedSpec

-----------------------------------------------------------------------------
\* HookSpool: the spool loses a line only to an overlap of two hooks or to a kill inside
\* the rewrite, and a hook that ran alone and undisturbed settles everything.

HookTypes == [pc : Stages, lines : Seq(Hooks), kept : Seq(Hooks), smooth : BOOLEAN]

SpoolTyped ==
  /\ spool \in Seq(Hooks) /\ hook \in [Hooks -> HookTypes]
  /\ held \in [SourceIds -> 0..MaxHook]
  /\ taken \subseteq Hooks /\ appended \subseteq Hooks /\ exposed \subseteq Hooks /\ torn \subseteq Hooks
  /\ \A h \in Hooks :
       /\ hook[h].pc = "flush" => hook[h].lines # << >>
       /\ hook[h].pc \in {"off", "read"} => hook[h].kept = << >>

Owed == appended \ (taken \cup exposed \cup torn)

\* A line that is still owed is in the file, and also in the hands of every process that
\* is about to rewrite the file. OnlyOverlapLoses alone is not inductive: it does not
\* say what a process that read the file long ago will write over it.
OwedIsHeld ==
  \A h \in Owed :
    /\ h \in Range(spool)
    /\ \A g \in Hooks :
         /\ hook[g].pc = "flush" => h \in Range(hook[g].lines) \cup Range(hook[g].kept)
         /\ hook[g].pc = "rewrite" => h \in Range(hook[g].kept)

\* A hook that counts as smooth is the only one that runs, has nothing to write back, and
\* past its rewrite the spool is empty.
Alone(h) ==
  /\ Running(h) => \A g \in Hooks \ {h} : ~Running(g)
  /\ hook[h].pc \in {"off", "read", "flush", "rewrite"} => hook[h].kept = << >>
  /\ hook[h].pc \in {"capture", "post"} => spool = << >>
  /\ hook[h].pc # "append"
SmoothIsAlone == \A h \in Hooks : hook[h].smooth => Alone(h)

SpoolInv == SpoolTyped /\ OwedIsHeld /\ SmoothIsAlone

LEMMA SpoolInvTyped == SpoolInv => SpoolTypeOK
BY DEF SpoolInv, SpoolTyped, HookTypes, SpoolTypeOK

LEMMA InvLosesNothing == SpoolInv => OnlyOverlapLoses
BY DEF SpoolInv, OwedIsHeld, Owed, OnlyOverlapLoses

-----------------------------------------------------------------------------
(* The lines of a file. *)

LEMMA RangeAppend ==
  ASSUME NEW S, NEW s \in Seq(S), NEW e \in S
  PROVE  Append(s, e) \in Seq(S) /\ Range(Append(s, e)) = Range(s) \cup {e}
<1>1. Append(s, e) \in Seq(S)
  OBVIOUS
<1>2. ASSUME NEW x \in Range(Append(s, e)) PROVE x \in Range(s) \cup {e}
  BY <1>2 DEF Range
<1>3. ASSUME NEW x \in Range(s) PROVE x \in Range(Append(s, e))
  <2>1. PICK i \in 1..Len(s) : s[i] = x
    BY DEF Range
  <2>2. i \in DOMAIN Append(s, e) /\ Append(s, e)[i] = x
    BY <2>1
  <2>. QED
    BY <2>2 DEF Range
<1>4. e \in Range(Append(s, e))
  <2>1. Len(s) + 1 \in DOMAIN Append(s, e) /\ Append(s, e)[Len(s) + 1] = e
    OBVIOUS
  <2>. QED
    BY <2>1 DEF Range
<1>. QED
  BY <1>1, <1>2, <1>3, <1>4

LEMMA RangeHeadTail ==
  ASSUME NEW S, NEW s \in Seq(S), s # << >>
  PROVE  Head(s) \in S /\ Tail(s) \in Seq(S) /\ Range(s) \subseteq {Head(s)} \cup Range(Tail(s))
<1>1. Head(s) \in S /\ Tail(s) \in Seq(S)
  OBVIOUS
<1>2. ASSUME NEW x \in Range(s), x # Head(s) PROVE x \in Range(Tail(s))
  <2>1. PICK i \in 1..Len(s) : s[i] = x
    BY DEF Range
  <2>2. i # 1 /\ i - 1 \in DOMAIN Tail(s) /\ Tail(s)[i - 1] = x
    BY <1>2, <2>1
  <2>. QED
    BY <2>2 DEF Range
<1>. QED
  BY <1>1, <1>2

LEMMA RangeTyped ==
  ASSUME NEW S, NEW s \in Seq(S)
  PROVE  Range(s) \subseteq S
BY DEF Range

LEMMA EmptyRange == Range(<< >>) = {}
BY DEF Range

-----------------------------------------------------------------------------
LEMMA SpoolStarts == SpoolInit => SpoolInv
<1> SUFFICES ASSUME SpoolInit PROVE SpoolInv
  OBVIOUS
<1>1. SpoolTyped
  BY HookAssumption DEF SpoolInit, SpoolTyped, HookTypes, Stages
<1>2. OwedIsHeld
  BY DEF SpoolInit, OwedIsHeld, Owed
<1>3. SmoothIsAlone
  BY DEF SpoolInit, SmoothIsAlone, Alone, Running
<1>. QED
  BY <1>1, <1>2, <1>3 DEF SpoolInv

LEMMA FireKeeps ==
  ASSUME SpoolInv, NEW h \in Hooks, Fire(h)
  PROVE  SpoolInv'
<1>1. \A g \in Hooks :
        /\ hook'[g].lines = hook[g].lines /\ hook'[g].kept = hook[g].kept
        /\ g # h => hook'[g].pc = hook[g].pc
        /\ hook'[g].smooth /\ g # h => hook[g].smooth /\ ~Running(g)
        /\ hook'[h].smooth => ~Running(g)
  BY DEF Fire, FirstStage, SpoolInv, SpoolTyped, HookTypes
<1>2. hook' \in [Hooks -> HookTypes] /\ hook[h].pc = "off" /\ hook'[h].pc = "read"
  BY DEF Fire, FirstStage, SpoolInv, SpoolTyped, HookTypes, Stages
<1>3. UNCHANGED <<spool, held, taken, appended, exposed, torn>>
  BY DEF Fire
<1>4. SpoolTyped'
  BY <1>1, <1>2, <1>3 DEF SpoolInv, SpoolTyped
<1>5. OwedIsHeld'
  BY <1>1, <1>2, <1>3 DEF SpoolInv, OwedIsHeld, Owed
<1>6. ASSUME NEW k \in Hooks, hook'[k].smooth PROVE Alone(k)'
  <2>1. CASE k = h
    <3>1. hook'[k].kept = << >>
      BY <1>1, <1>2, <2>1 DEF SpoolInv, SpoolTyped
    <3>2. \A g \in Hooks \ {k} : ~Running(g)'
      BY <1>1, <1>6, <2>1 DEF Running
    <3>. QED
      BY <1>2, <2>1, <3>1, <3>2 DEF Alone
  <2>2. CASE k # h
    BY <1>1, <1>3, <1>6, <2>2 DEF Running, SpoolInv, SmoothIsAlone, Alone
  <2>. QED
    BY <2>1, <2>2
<1>. QED
  BY <1>4, <1>5, <1>6 DEF SpoolInv, SmoothIsAlone

\* While h runs, no other hook that counts as smooth does; a step of h leaves it so.
LEMMA OthersStaySmooth ==
  ASSUME SpoolInv, NEW h \in Hooks, Running(h),
         \A g \in Hooks \ {h} : hook'[g] = hook[g],
         NEW k \in Hooks \ {h}, hook'[k].smooth
  PROVE  Alone(k)'
BY DEF SpoolInv, SmoothIsAlone, Alone, Running

LEMMA ReadSpoolKeeps ==
  ASSUME SpoolInv, NEW h \in Hooks, ReadSpool(h)
  PROVE  SpoolInv'
<1>0. hook \in [Hooks -> HookTypes] /\ spool \in Seq(Hooks) /\ hook[h].pc = "read" /\ hook[h].kept = << >>
  BY DEF ReadSpool, SpoolInv, SpoolTyped
<1>1. /\ hook'[h].lines = spool /\ hook'[h].kept = hook[h].kept /\ hook'[h].smooth = hook[h].smooth
      /\ \/ spool = << >> /\ hook'[h].pc = "capture"
         \/ spool # << >> /\ hook'[h].pc = "flush"
  BY <1>0 DEF ReadSpool, HookTypes
<1>2. hook' \in [Hooks -> HookTypes] /\ \A g \in Hooks \ {h} : hook'[g] = hook[g]
  BY <1>0 DEF ReadSpool, HookTypes, Stages
<1>3. UNCHANGED <<spool, held, taken, appended, exposed, torn>>
  BY DEF ReadSpool
<1>4. SpoolTyped'
  BY <1>1, <1>2, <1>3 DEF SpoolInv, SpoolTyped
<1>5. OwedIsHeld'
  <2>. SUFFICES ASSUME NEW e \in Owed, NEW g \in Hooks
                PROVE  /\ e \in Range(spool)
                       /\ hook'[g].pc = "flush" => e \in Range(hook'[g].lines) \cup Range(hook'[g].kept)
                       /\ hook'[g].pc = "rewrite" => e \in Range(hook'[g].kept)
    BY <1>3 DEF OwedIsHeld, Owed
  <2>1. e \in Range(spool)
    BY DEF SpoolInv, OwedIsHeld
  <2>2. CASE g = h
    BY <1>1, <2>1, <2>2
  <2>3. CASE g # h
    BY <1>2, <2>1, <2>3 DEF SpoolInv, OwedIsHeld
  <2>. QED
    BY <2>2, <2>3
<1>6. ASSUME hook'[h].smooth PROVE Alone(h)'
  BY <1>0, <1>1, <1>2, <1>3, <1>6 DEF Running, SpoolInv, SmoothIsAlone, Alone
<1>7. ASSUME NEW k \in Hooks \ {h}, hook'[k].smooth PROVE Alone(k)'
  BY <1>0, <1>2, <1>7, OthersStaySmooth DEF Running
<1>. QED
  BY <1>4, <1>5, <1>6, <1>7 DEF SpoolInv, SmoothIsAlone

LEMMA FlushLineKeeps ==
  ASSUME SpoolInv, NEW h \in Hooks, FlushLine(h)
  PROVE  SpoolInv'
<1> DEFINE first == Head(hook[h].lines)
           left == Tail(hook[h].lines)
<1>0. hook \in [Hooks -> HookTypes] /\ hook[h].pc = "flush" /\ hook[h].lines # << >>
      /\ hook[h].lines \in Seq(Hooks) /\ hook[h].kept \in Seq(Hooks)
  BY DEF FlushLine, SpoolInv, SpoolTyped, HookTypes
<1>1. first \in Hooks /\ left \in Seq(Hooks) /\ Range(hook[h].lines) \subseteq {first} \cup Range(left)
  BY <1>0, RangeHeadTail
<1>2. PICK ok \in BOOLEAN :
        /\ IF ok THEN Store(first) ELSE UNCHANGED <<held, taken>>
        /\ hook' = [hook EXCEPT ![h].lines = left, ![h].kept = Kept(h, ok), ![h].smooth = @ /\ ok,
                                ![h].pc = IF left = << >> THEN "rewrite" ELSE "flush"]
  BY DEF FlushLine
<1>3. UNCHANGED <<spool, appended, exposed, torn>>
  BY DEF FlushLine
<1>4. /\ Kept(h, ok) \in Seq(Hooks) /\ Range(hook[h].kept) \subseteq Range(Kept(h, ok))
      /\ ~ok => Range(Kept(h, ok)) = Range(hook[h].kept) \cup {first}
      /\ ok => Kept(h, ok) = hook[h].kept
  BY <1>0, <1>1, RangeAppend DEF Kept
<1> HIDE DEF first, left
<1>5. /\ hook'[h].lines = left /\ hook'[h].kept = Kept(h, ok)
      /\ hook'[h].smooth => hook[h].smooth /\ ok
      /\ \/ left = << >> /\ hook'[h].pc = "rewrite"
         \/ left # << >> /\ hook'[h].pc = "flush"
  BY <1>0, <1>2 DEF HookTypes
<1>6. \A g \in Hooks \ {h} : hook'[g] = hook[g]
  BY <1>0, <1>2 DEF HookTypes
<1>7. hook' \in [Hooks -> HookTypes]
  <2> DEFINE smooth == hook[h].smooth /\ ok
             pc == IF left = << >> THEN "rewrite" ELSE "flush"
  <2>1. smooth \in BOOLEAN
    OBVIOUS
  <2>2. pc \in Stages
    BY DEF Stages
  <2>3. hook' = [hook EXCEPT ![h].lines = left, ![h].kept = Kept(h, ok), ![h].smooth = smooth,
                             ![h].pc = pc]
    BY <1>2
  <2> HIDE DEF smooth, pc
  <2>4. hook' = [hook EXCEPT ![h] = [@ EXCEPT !.lines = left, !.kept = Kept(h, ok),
                                              !.smooth = smooth, !.pc = pc]]
    BY <2>3
  <2>5. [hook[h] EXCEPT !.lines = left, !.kept = Kept(h, ok), !.smooth = smooth, !.pc = pc] \in HookTypes
    BY <1>0, <1>1, <1>4, <2>1, <2>2 DEF HookTypes
  <2>. QED
    BY <1>0, <2>4, <2>5
<1>8. SpoolTyped'
  <2>0. held \in [SourceIds -> 0..MaxHook] /\ taken \subseteq Hooks /\ first \in 0..MaxHook
    BY <1>1, HookAssumption DEF SpoolInv, SpoolTyped, Hooks
  <2>1. held' \in [SourceIds -> 0..MaxHook] /\ taken' \subseteq Hooks
    BY <1>1, <1>2, <2>0 DEF Store
  <2>. QED
    BY <1>3, <1>5, <1>6, <1>7, <2>1 DEF SpoolInv, SpoolTyped
<1>9. OwedIsHeld'
  <2>1. taken' \subseteq taken \cup {first} /\ taken \subseteq taken' /\ (ok => first \in taken')
    BY <1>2 DEF Store
  <2>. SUFFICES ASSUME NEW e \in Owed', NEW g \in Hooks
                PROVE  /\ e \in Range(spool)
                       /\ hook'[g].pc = "flush" => e \in Range(hook'[g].lines) \cup Range(hook'[g].kept)
                       /\ hook'[g].pc = "rewrite" => e \in Range(hook'[g].kept)
    BY <1>3 DEF OwedIsHeld
  <2>2. e \in Owed /\ (ok => e # first)
    BY <1>3, <2>1 DEF Owed
  <2>3. CASE g # h
    BY <1>6, <2>2, <2>3 DEF SpoolInv, OwedIsHeld
  <2>4. CASE g = h
    <3>1. e \in Range(spool) /\ e \in Range(hook[h].lines) \cup Range(hook[h].kept)
      BY <1>0, <2>2 DEF SpoolInv, OwedIsHeld
    <3>2. e \in Range(left) \cup Range(Kept(h, ok))
      BY <1>1, <1>4, <2>2, <3>1
    <3>3. left = << >> => e \in Range(Kept(h, ok))
      BY <3>2, EmptyRange
    <3>. QED
      BY <1>5, <2>4, <3>1, <3>2, <3>3
  <2>. QED
    BY <2>3, <2>4
<1>10. ASSUME hook'[h].smooth PROVE Alone(h)'
  BY <1>0, <1>3, <1>4, <1>5, <1>6, <1>10 DEF Running, SpoolInv, SmoothIsAlone, Alone
<1>11. ASSUME NEW k \in Hooks \ {h}, hook'[k].smooth PROVE Alone(k)'
  BY <1>0, <1>6, <1>11, OthersStaySmooth DEF Running
<1>. QED
  BY <1>8, <1>9, <1>10, <1>11 DEF SpoolInv, SmoothIsAlone

LEMMA RewriteKeeps ==
  ASSUME SpoolInv, NEW h \in Hooks, Rewrite(h)
  PROVE  SpoolInv'
<1>0. hook \in [Hooks -> HookTypes] /\ hook[h].pc = "rewrite" /\ hook[h].kept \in Seq(Hooks)
  BY DEF Rewrite, SpoolInv, SpoolTyped, HookTypes
<1>1. /\ hook' \in [Hooks -> HookTypes] /\ hook'[h].pc = "capture" /\ hook'[h].smooth = hook[h].smooth
      /\ \A g \in Hooks \ {h} : hook'[g] = hook[g]
  BY <1>0 DEF Rewrite, At, HookTypes, Stages
<1>2. spool' = hook[h].kept /\ UNCHANGED <<held, taken, appended, exposed, torn>>
  BY DEF Rewrite
<1>3. SpoolTyped'
  BY <1>0, <1>1, <1>2 DEF SpoolInv, SpoolTyped
<1>4. OwedIsHeld'
  <2>. SUFFICES ASSUME NEW e \in Owed, NEW g \in Hooks
                PROVE  /\ e \in Range(hook[h].kept)
                       /\ hook'[g].pc = "flush" => e \in Range(hook'[g].lines) \cup Range(hook'[g].kept)
                       /\ hook'[g].pc = "rewrite" => e \in Range(hook'[g].kept)
    BY <1>2 DEF OwedIsHeld, Owed
  <2>1. e \in Range(hook[h].kept)
    BY <1>0 DEF SpoolInv, OwedIsHeld
  <2>2. CASE g = h
    BY <1>1, <2>1, <2>2
  <2>3. CASE g # h
    BY <1>1, <2>1, <2>3 DEF SpoolInv, OwedIsHeld
  <2>. QED
    BY <2>2, <2>3
<1>5. ASSUME hook'[h].smooth PROVE Alone(h)'
  BY <1>0, <1>1, <1>2, <1>5 DEF Running, SpoolInv, SmoothIsAlone, Alone
<1>6. ASSUME NEW k \in Hooks \ {h}, hook'[k].smooth PROVE Alone(k)'
  BY <1>0, <1>1, <1>6, OthersStaySmooth DEF Running
<1>. QED
  BY <1>3, <1>4, <1>5, <1>6 DEF SpoolInv, SmoothIsAlone

LEMMA CaptureKeeps ==
  ASSUME SpoolInv, NEW h \in Hooks, Capture(h)
  PROVE  SpoolInv'
<1>0. hook \in [Hooks -> HookTypes] /\ hook[h].pc = "capture"
  BY DEF Capture, SpoolInv, SpoolTyped
<1>1. /\ hook' \in [Hooks -> HookTypes] /\ hook'[h].smooth = hook[h].smooth
      /\ hook'[h].pc \in {"post", "done"} /\ hook'[h].kept = hook[h].kept
      /\ \A g \in Hooks \ {h} : hook'[g] = hook[g]
  BY <1>0 DEF Capture, At, HookTypes, Stages
<1>2. UNCHANGED <<spool, held, taken, appended, exposed, torn>>
  BY DEF Capture
<1>3. SpoolTyped'
  BY <1>1, <1>2 DEF SpoolInv, SpoolTyped
<1>4. OwedIsHeld'
  BY <1>1, <1>2 DEF SpoolInv, OwedIsHeld, Owed
<1>5. ASSUME hook'[h].smooth PROVE Alone(h)'
  BY <1>0, <1>1, <1>2, <1>5 DEF Running, SpoolInv, SmoothIsAlone, Alone
<1>6. ASSUME NEW k \in Hooks \ {h}, hook'[k].smooth PROVE Alone(k)'
  BY <1>0, <1>1, <1>6, OthersStaySmooth DEF Running
<1>. QED
  BY <1>3, <1>4, <1>5, <1>6 DEF SpoolInv, SmoothIsAlone

LEMMA PostOwnKeeps ==
  ASSUME SpoolInv, NEW h \in Hooks, PostOwn(h)
  PROVE  SpoolInv'
<1>0. hook \in [Hooks -> HookTypes] /\ hook[h].pc = "post"
  BY DEF PostOwn, SpoolInv, SpoolTyped
<1>1. /\ hook' \in [Hooks -> HookTypes]
      /\ hook'[h].pc = "done" \/ (hook'[h].pc = "append" /\ ~hook'[h].smooth)
      /\ \A g \in Hooks \ {h} : hook'[g] = hook[g]
  <2>1. CASE hook' = At(h, "done")
    <3>1. hook' \in [Hooks -> HookTypes] /\ hook'[h].pc = "done"
      BY <1>0, <2>1 DEF At, HookTypes, Stages
    <3>2. \A g \in Hooks \ {h} : hook'[g] = hook[g]
      BY <1>0, <2>1 DEF At
    <3>. QED
      BY <3>1, <3>2
  <2>2. CASE hook' = [hook EXCEPT ![h].pc = "append", ![h].smooth = FALSE]
    <3>1. hook' = [hook EXCEPT ![h] = [@ EXCEPT !.pc = "append", !.smooth = FALSE]]
      BY <2>2
    <3>2. [hook[h] EXCEPT !.pc = "append", !.smooth = FALSE] \in HookTypes
      BY <1>0 DEF HookTypes, Stages
    <3>3. hook'[h].pc = "append" /\ hook'[h].smooth = FALSE
      BY <1>0, <2>2 DEF HookTypes
    <3>. QED
      BY <1>0, <3>1, <3>2, <3>3
  <2>. QED
    BY <2>1, <2>2 DEF PostOwn
<1>2. UNCHANGED <<spool, appended, exposed, torn>> /\ taken \subseteq taken'
  BY DEF PostOwn, Store
<1>3. SpoolTyped'
  <2>0. held \in [SourceIds -> 0..MaxHook] /\ taken \subseteq Hooks /\ h \in 0..MaxHook
    BY HookAssumption DEF SpoolInv, SpoolTyped, Hooks
  <2>1. held' \in [SourceIds -> 0..MaxHook] /\ taken' \subseteq Hooks
    BY <2>0 DEF PostOwn, Store
  <2>. QED
    BY <1>1, <1>2, <2>1 DEF SpoolInv, SpoolTyped
<1>4. OwedIsHeld'
  BY <1>1, <1>2 DEF SpoolInv, OwedIsHeld, Owed
<1>5. ASSUME hook'[h].smooth PROVE Alone(h)'
  BY <1>1, <1>5 DEF Running, Alone
<1>6. ASSUME NEW k \in Hooks \ {h}, hook'[k].smooth PROVE Alone(k)'
  BY <1>0, <1>1, <1>6, OthersStaySmooth DEF Running
<1>. QED
  BY <1>3, <1>4, <1>5, <1>6 DEF SpoolInv, SmoothIsAlone

\* A line appended under the hands of another process counts as exposed at once.
LEMMA AppendOwnKeeps ==
  ASSUME SpoolInv, NEW h \in Hooks, AppendOwn(h)
  PROVE  SpoolInv'
<1>0. hook \in [Hooks -> HookTypes] /\ spool \in Seq(Hooks) /\ hook[h].pc = "append"
  BY DEF AppendOwn, SpoolInv, SpoolTyped
<1>1. /\ hook' \in [Hooks -> HookTypes] /\ hook'[h].pc = "done"
      /\ \A g \in Hooks \ {h} : hook'[g] = hook[g]
  BY <1>0 DEF AppendOwn, At, HookTypes, Stages
<1>2. spool' = Append(spool, h) /\ appended' = appended \cup {h} /\ UNCHANGED <<held, taken, torn>>
  BY DEF AppendOwn
<1>3. /\ exposed' \in {exposed, exposed \cup {h}}
      /\ h \in exposed' \/ \A g \in Hooks : hook[g].pc \notin {"flush", "rewrite"}
  BY DEF AppendOwn
<1>4. spool' \in Seq(Hooks) /\ Range(spool') = Range(spool) \cup {h}
  BY <1>0, <1>2, RangeAppend
<1>5. SpoolTyped'
  BY <1>1, <1>2, <1>3, <1>4 DEF SpoolInv, SpoolTyped
<1>6. OwedIsHeld'
  <2>. SUFFICES ASSUME NEW e \in Owed', NEW g \in Hooks
                PROVE  /\ e \in Range(spool')
                       /\ hook'[g].pc = "flush" => e \in Range(hook'[g].lines) \cup Range(hook'[g].kept)
                       /\ hook'[g].pc = "rewrite" => e \in Range(hook'[g].kept)
    BY DEF OwedIsHeld
  <2>1. e \in Owed \/ e = h
    BY <1>2, <1>3 DEF Owed
  <2>2. e = h => \A k \in Hooks : hook[k].pc \notin {"flush", "rewrite"}
    BY <1>3 DEF Owed
  <2>3. e \in Range(spool')
    BY <1>4, <2>1 DEF SpoolInv, OwedIsHeld
  <2>4. CASE e \in Owed
    BY <1>1, <2>3, <2>4 DEF SpoolInv, OwedIsHeld
  <2>5. CASE e = h
    BY <1>1, <2>2, <2>3, <2>5
  <2>. QED
    BY <2>1, <2>4, <2>5
<1>7. ASSUME hook'[h].smooth PROVE Alone(h)'
  BY <1>1, <1>7 DEF Running, Alone
<1>8. ASSUME NEW k \in Hooks \ {h}, hook'[k].smooth PROVE Alone(k)'
  BY <1>0, <1>1, <1>8, OthersStaySmooth DEF Running
<1>. QED
  BY <1>5, <1>6, <1>7, <1>8 DEF SpoolInv, SmoothIsAlone

\* Whatever a torn rewrite leaves in the file, every line that was owed is in the list the
\* process was writing, so it counts as torn.
LEMMA KillKeeps ==
  ASSUME SpoolInv, NEW h \in Hooks, Kill(h)
  PROVE  SpoolInv'
<1>0. hook \in [Hooks -> HookTypes] /\ hook[h].kept \in Seq(Hooks) /\ spool \in Seq(Hooks) /\ Running(h)
  BY DEF Kill, SpoolInv, SpoolTyped, HookTypes
<1>1. /\ hook' \in [Hooks -> HookTypes] /\ hook'[h].pc = "done"
      /\ \A g \in Hooks \ {h} : hook'[g] = hook[g]
  BY <1>0 DEF Kill, At, HookTypes, Stages
<1>2. UNCHANGED <<held, taken, appended, exposed>>
  BY DEF Kill
<1>3. \/ UNCHANGED <<spool, torn>>
      \/ /\ hook[h].pc = "rewrite"
         /\ \E n \in 0..Len(hook[h].kept) : spool' = SubSeq(hook[h].kept, 1, n)
         /\ torn' = torn \cup Range(hook[h].kept)
  BY DEF Kill
<1>4. spool' \in Seq(Hooks)
  BY <1>0, <1>3
<1>5. Range(hook[h].kept) \subseteq Hooks
  BY <1>0, RangeTyped
<1>6. SpoolTyped'
  <2>1. torn' \subseteq Hooks
    BY <1>3, <1>5 DEF SpoolInv, SpoolTyped
  <2>. QED
    BY <1>1, <1>2, <1>4, <2>1 DEF SpoolInv, SpoolTyped
<1>7. OwedIsHeld'
  <2>1. CASE UNCHANGED <<spool, torn>>
    BY <1>1, <1>2, <2>1 DEF SpoolInv, OwedIsHeld, Owed
  <2>2. CASE hook[h].pc = "rewrite" /\ torn' = torn \cup Range(hook[h].kept)
    <3>1. Owed' = {}
      BY <1>2, <2>2 DEF SpoolInv, OwedIsHeld, Owed
    <3>. QED
      BY <3>1 DEF OwedIsHeld
  <2>. QED
    BY <1>3, <2>1, <2>2
<1>8. ASSUME hook'[h].smooth PROVE Alone(h)'
  BY <1>1, <1>8 DEF Running, Alone
<1>9. ASSUME NEW k \in Hooks \ {h}, hook'[k].smooth PROVE Alone(k)'
  BY <1>0, <1>1, <1>9, OthersStaySmooth
<1>. QED
  BY <1>6, <1>7, <1>8, <1>9 DEF SpoolInv, SmoothIsAlone

LEMMA SpoolStutters ==
  ASSUME SpoolInv, UNCHANGED spoolVars
  PROVE  SpoolInv'
<1>1. SpoolTyped'
  BY DEF SpoolInv, SpoolTyped, spoolVars
<1>2. OwedIsHeld'
  BY DEF SpoolInv, OwedIsHeld, Owed, spoolVars
<1>3. SmoothIsAlone'
  BY DEF SpoolInv, SmoothIsAlone, Alone, Running, spoolVars
<1>. QED
  BY <1>1, <1>2, <1>3 DEF SpoolInv

LEMMA SpoolSteps == SpoolInv /\ [SpoolNext]_spoolVars => SpoolInv'
<1>1. ASSUME SpoolInv, NEW h \in Hooks, Run(h) \/ Kill(h) PROVE SpoolInv'
  BY <1>1, FireKeeps, ReadSpoolKeeps, FlushLineKeeps, RewriteKeeps, CaptureKeeps, PostOwnKeeps,
     AppendOwnKeeps, KillKeeps DEF Run
<1>. QED
  BY <1>1, SpoolStutters DEF SpoolNext

-----------------------------------------------------------------------------
\* However many hooks fire, overlap, fail and are killed: what one put in the spool is on
\* the server or still in the file, but for lines appended under the hands of another
\* process or torn by a kill (flushSpool and appendSpool of the hook connectors).
THEOREM SpoolLosesNothingElse == SpoolSpec => []OnlyOverlapLoses
<1>1. SpoolInit => SpoolInv
  BY SpoolStarts
<1>2. SpoolInv /\ [SpoolNext]_spoolVars => SpoolInv'
  BY SpoolSteps
<1>3. SpoolInv => OnlyOverlapLoses
  BY InvLosesNothing
<1>. QED
  BY <1>1, <1>2, <1>3, PTL DEF SpoolSpec

\* The types of the spool's state.
THEOREM SpoolTypesHold == SpoolSpec => []SpoolTypeOK
<1>1. SpoolInv => SpoolTypeOK
  BY SpoolInvTyped
<1>. QED
  BY <1>1, SpoolStarts, SpoolSteps, PTL DEF SpoolSpec

\* The number of kills only grows, so a step that leaves it as it is kills nobody.
KillsAreCounted == kills \in Nat
LEMMA KillsStart == SpoolInit => KillsAreCounted
BY DEF SpoolInit, KillsAreCounted

LEMMA KillsStep == KillsAreCounted /\ [SpoolNext]_spoolVars => KillsAreCounted'
<1> SUFFICES ASSUME KillsAreCounted, [SpoolNext]_spoolVars PROVE KillsAreCounted'
  OBVIOUS
<1>1. kills' = kills \/ kills' = kills + 1
  BY DEF SpoolNext, Run, Fire, ReadSpool, FlushLine, Rewrite, Capture, PostOwn, AppendOwn, Kill, spoolVars
<1>. QED
  BY <1>1 DEF KillsAreCounted

Settles ==
  \A h \in Hooks :
    hook[h].pc = "post" /\ hook[h].smooth /\ hook'[h].pc = "done" /\ kills' = kills
      => spool' = << >> /\ held'[SourceId[h]] = h

\* Of all steps only its own answered request takes a hook from post to done without a kill.
LEMMA OnlyThePostSettles ==
  SpoolInv /\ KillsAreCounted /\ [SpoolNext]_spoolVars => Settles
<1> SUFFICES ASSUME SpoolInv, KillsAreCounted, [SpoolNext]_spoolVars,
                    NEW h \in Hooks, hook[h].pc = "post", hook[h].smooth, hook'[h].pc = "done", kills' = kills
             PROVE  spool' = << >> /\ held'[SourceId[h]] = h
  BY DEF Settles
<1>0. hook \in [Hooks -> HookTypes] /\ held \in [SourceIds -> 0..MaxHook]
  BY DEF SpoolInv, SpoolTyped
<1>1. PICK k \in Hooks : Run(k)
  BY DEF SpoolNext, Kill, spoolVars, KillsAreCounted
<1>2. k = h
  <2>1. k # h => hook'[h].pc = hook[h].pc
    BY <1>0, <1>1 DEF Run, Fire, ReadSpool, FlushLine, Rewrite, Capture, PostOwn, AppendOwn, At, HookTypes
  <2>. QED
    BY <2>1
<1>3. PostOwn(h) /\ hook'[h].pc # "append"
  BY <1>1, <1>2 DEF Run, Fire, ReadSpool, FlushLine, Rewrite, Capture, AppendOwn
<1>4. spool' = spool /\ spool = << >>
  BY <1>3 DEF PostOwn, SpoolInv, SmoothIsAlone, Alone
<1>5. Store(h)
  BY <1>0, <1>3 DEF PostOwn, HookTypes
<1>6. SourceId[h] \in SourceIds
  BY HookAssumption DEF SourceIds, Range
<1>. QED
  BY <1>0, <1>4, <1>5, <1>6 DEF Store

\* A hook that ran alone and was never refused leaves an empty spool and its own payload on
\* the server, whatever hooks before it left behind (main of the hook connectors).
THEOREM SmoothHookSettles == SpoolSpec => SmoothRunSettles
<1>1. SpoolInv /\ KillsAreCounted /\ [SpoolNext]_spoolVars => Settles
  BY OnlyThePostSettles
<1>2. SpoolSpec => [][Settles]_spoolVars
  BY <1>1, SpoolStarts, SpoolSteps, KillsStart, KillsStep, PTL DEF SpoolSpec
<1>. QED
  BY <1>2 DEF SmoothRunSettles, Settles

-----------------------------------------------------------------------------
\* PhotoLibrary: the manifest lets the scan skip a file only when the server has its photo.

Programs == {"none", "scan", "caption", "face", "label"}
Phases == {"none", "walk", "ask", "send", "hear", "save"}
RunTypes == [who : Programs, pc : Phases, next : 1..(Len(Hash) + 1),
             batch : SUBSET (Photos \X Stats), mem : [Photos -> Stats]]
FaceTypes == [stat : Stats, sent : {Unsent} \cup (BOOLEAN \X BOOLEAN)]

FilesTyped ==
  /\ stat \in [Photos -> Stats \ {0}] /\ captions \subseteq Photos /\ labelled \in BOOLEAN
  /\ face \in [Photos -> FaceTypes] /\ photoFaults \in 0..MaxPhotoFaults
PhotoTyped ==
  /\ FilesTyped
  /\ artifact \in [Contents -> Artifacts] /\ skip \in [Photos -> Stats] /\ run \in RunTypes

Backed(manifest) == \A f \in Photos : manifest[f] # 0 => artifact[Hash[f]].stored

\* The manifest file is written from memory now and then, so what is in memory must be
\* backed as well, and what waits to be marked there too. SkippedIsStored alone is not
\* inductive: it does not know what the next write will put in the file.
PhotoInv ==
  /\ PhotoTyped
  /\ Backed(skip) /\ Backed(run.mem)
  /\ run.pc = "hear" => \A e \in run.batch : artifact[Hash[e[1]]].stored

LEMMA PhotoInvTyped == PhotoInv => PhotoTypeOK
BY DEF PhotoInv, PhotoTyped, FilesTyped, RunTypes, FaceTypes, Programs, PhotoTypeOK

LEMMA InvBacked == PhotoInv => SkippedIsStored
BY DEF PhotoInv, Backed, SkippedIsStored

LEMMA HashTyped ==
  /\ Len(Hash) \in Nat /\ Photos = 1..Len(Hash)
  /\ \A f \in Photos : Hash[f] \in Contents
BY PhotoAssumption DEF Photos, Contents

-----------------------------------------------------------------------------
(* The values of run. *)

LEMMA RunValues ==
  ASSUME PhotoTyped
  PROVE  /\ NoRun \in RunTypes /\ NoRun.mem = skip /\ NoRun.pc = "none"
         /\ \A f \in Photos, pc \in Phases :
              /\ Take(f, pc) \in RunTypes /\ Take(f, pc).mem = run.mem /\ Take(f, pc).pc = pc
              /\ Passed(f) \in RunTypes /\ Passed(f).mem = run.mem /\ Passed(f).pc = "walk"
<1>0. run \in RunTypes /\ skip \in [Photos -> Stats] /\ stat \in [Photos -> Stats \ {0}]
  BY DEF PhotoTyped, FilesTyped
<1>1. NoRun \in RunTypes /\ NoRun.mem = skip /\ NoRun.pc = "none"
  BY <1>0, HashTyped DEF NoRun, RunTypes, Programs, Phases
<1>2. ASSUME NEW f \in Photos, NEW pc \in Phases
      PROVE  Take(f, pc) \in RunTypes /\ Take(f, pc).mem = run.mem /\ Take(f, pc).pc = pc
  <2>1. {<<f, stat[f]>>} \in SUBSET (Photos \X Stats)
    BY <1>0
  <2>. QED
    BY <1>0, <2>1 DEF Take, RunTypes
<1>3. ASSUME NEW f \in Photos
      PROVE  Passed(f) \in RunTypes /\ Passed(f).mem = run.mem /\ Passed(f).pc = "walk"
  <2>1. f + 1 \in 1..(Len(Hash) + 1) /\ {} \in SUBSET (Photos \X Stats) /\ "walk" \in Phases
    BY HashTyped DEF Phases
  <2>. QED
    BY <1>0, <2>1 DEF Passed, RunTypes
<1>. QED
  BY <1>1, <1>2, <1>3

LEMMA StartValue ==
  ASSUME PhotoTyped, NEW who \in Programs, Start(who)
  PROVE  run' \in RunTypes /\ run'.mem = skip /\ run'.pc = "walk"
BY RunValues DEF Start, RunTypes, Phases

LEMMA MarkBacked ==
  ASSUME PhotoTyped, Backed(run.mem), NEW entries \in SUBSET (Photos \X Stats),
         \A e \in entries : artifact[Hash[e[1]]].stored
  PROVE  Mark(entries) \in [Photos -> Stats] /\ Backed(Mark(entries))
<1>0. run.mem \in [Photos -> Stats]
  BY DEF PhotoTyped, RunTypes
<1>1. ASSUME NEW f \in Photos, \E e \in entries : e[1] = f
      PROVE  Mark(entries)[f] \in Stats /\ artifact[Hash[f]].stored
  <2>1. (CHOOSE e \in entries : e[1] = f) \in entries
    BY <1>1
  <2>. QED
    BY <1>1, <2>1 DEF Mark
<1>2. ASSUME NEW f \in Photos, ~\E e \in entries : e[1] = f
      PROVE  Mark(entries)[f] = run.mem[f]
  BY <1>2 DEF Mark
<1>3. \A f \in Photos : Mark(entries)[f] \in Stats
  BY <1>0, <1>1, <1>2
<1>4. Mark(entries) \in [Photos -> Stats]
  <2>1. Mark(entries) = [f \in Photos |-> Mark(entries)[f]]
    BY DEF Mark
  <2>. QED
    BY <1>3, <2>1
<1>5. Backed(Mark(entries))
  BY <1>1, <1>2 DEF Backed
<1>. QED
  BY <1>4, <1>5

LEMMA WithTextTyped ==
  ASSUME NEW caption \in BOOLEAN, NEW named \in BOOLEAN
  PROVE  WithText(caption, named) \in Artifacts /\ WithText(caption, named).stored
BY DEF WithText, Artifacts

LEMMA SignatureTyped ==
  ASSUME PhotoTyped, NEW f \in Photos
  PROVE  Signature(f) \in BOOLEAN \X BOOLEAN
<1>1. (f \in captions) \in BOOLEAN /\ labelled \in BOOLEAN
  BY DEF PhotoTyped, FilesTyped
<1>. QED
  BY <1>1 DEF Signature

\* What the server has stored it keeps.
Keeps == artifact' \in [Contents -> Artifacts] /\ \A c \in Contents : artifact[c].stored => artifact'[c].stored

LEMMA KeepsOne ==
  ASSUME PhotoTyped, NEW f \in Photos, NEW caption \in BOOLEAN, NEW named \in BOOLEAN,
         artifact' = [artifact EXCEPT ![Hash[f]] = WithText(caption, named)]
  PROVE  Keeps
BY HashTyped, WithTextTyped DEF Keeps, PhotoTyped

\* A step after which nothing waits to be marked and whose manifests are among those there
\* were keeps the invariant.
LEMMA NothingMarked ==
  ASSUME PhotoInv, FilesTyped', Keeps, run' \in RunTypes, run'.pc # "hear",
         run'.mem \in {run.mem, skip}, skip' \in {skip, run.mem}
  PROVE  PhotoInv'
<1>1. PhotoTyped'
  BY DEF PhotoInv, PhotoTyped, Keeps, RunTypes
<1>2. Backed(skip)' /\ Backed(run.mem)'
  BY HashTyped DEF PhotoInv, Backed, Keeps
<1>. QED
  BY <1>1, <1>2 DEF PhotoInv
-----------------------------------------------------------------------------
LEMMA PhotoStarts == PhotoInit => PhotoInv
<1> SUFFICES ASSUME PhotoInit PROVE PhotoInv
  OBVIOUS
<1>1. FilesTyped
  <2>1. 1 \in Stats \ {0} /\ 0 \in Stats /\ 0 \in 0..MaxPhotoFaults
    BY PhotoAssumption DEF Stats
  <2>2. face \in [Photos -> FaceTypes]
    BY <2>1 DEF PhotoInit, FaceTypes
  <2>. QED
    BY <2>1, <2>2 DEF PhotoInit, FilesTyped
<1>2. skip \in [Photos -> Stats]
  BY PhotoAssumption DEF PhotoInit, Stats
<1>3. run \in RunTypes /\ run.mem = skip /\ run.pc = "none"
  BY <1>2, HashTyped DEF PhotoInit, NoRun, RunTypes, Programs, Phases
<1>4. artifact \in [Contents -> Artifacts]
  BY DEF PhotoInit, Nothing, Artifacts
<1>5. Backed(skip)
  BY DEF PhotoInit, Backed
<1>. QED
  BY <1>1, <1>2, <1>3, <1>4, <1>5 DEF PhotoInv, PhotoTyped

LEMMA TouchKeeps ==
  ASSUME PhotoInv, NEW f \in Photos, Touch(f)
  PROVE  PhotoInv'
<1>1. stat' \in [Photos -> Stats \ {0}]
  <2>1. stat \in [Photos -> Stats \ {0}] /\ stat[f] < MaxStat
    BY DEF Touch, PhotoInv, PhotoTyped, FilesTyped
  <2>2. stat[f] + 1 \in Stats \ {0}
    BY <2>1, PhotoAssumption DEF Stats
  <2>. QED
    BY <2>1, <2>2 DEF Touch
<1>2. UNCHANGED <<artifact, skip, captions, face, labelled, run, photoFaults>>
  BY DEF Touch, disk
<1>. QED
  BY <1>1, <1>2 DEF PhotoInv, PhotoTyped, FilesTyped, Backed

LEMMA StartsKeep ==
  ASSUME PhotoInv, StartScan \/ StartCaption \/ StartFaces \/ Label
  PROVE  PhotoInv'
<1>1. PICK who \in Programs : Start(who)
  BY DEF StartScan, StartCaption, StartFaces, Label, Programs
<1>2. run' \in RunTypes /\ run'.mem = skip /\ run'.pc = "walk"
  BY <1>1, StartValue DEF PhotoInv
<1>3. UNCHANGED <<stat, artifact, skip, captions, face, photoFaults>> /\ labelled' \in BOOLEAN
  BY DEF StartScan, StartCaption, StartFaces, Label, disk, PhotoInv, PhotoTyped, FilesTyped
<1>4. FilesTyped' /\ Keeps
  BY <1>3 DEF PhotoInv, PhotoTyped, FilesTyped, Keeps
<1>. QED
  BY <1>2, <1>3, <1>4, NothingMarked

LEMMA WalkKeeps ==
  ASSUME PhotoInv, Walk
  PROVE  PhotoInv'
<1>0. run \in RunTypes /\ skip \in [Photos -> Stats] /\ stat \in [Photos -> Stats \ {0}]
  BY DEF PhotoInv, PhotoTyped, FilesTyped
<1>1. FilesTyped' /\ Keeps
  BY DEF Walk, disk, PhotoInv, PhotoTyped, FilesTyped, Keeps
<1>2. CASE skip' = run.mem /\ run' = [NoRun EXCEPT !.mem = skip']
  <2>1. run' \in RunTypes /\ run'.mem = run.mem /\ run'.pc = "none"
    BY <1>0, <1>2, RunValues DEF RunTypes, PhotoInv
  <2>. QED
    BY <1>1, <1>2, <2>1, NothingMarked
<1> DEFINE Changed(to) == {f \in run.next..to : run.mem[f] # stat[f]}
<1>3. ASSUME NEW to \in run.next..Len(Hash), skip' \in {skip, run.mem},
             run' = [run EXCEPT !.pc = "ask", !.next = to + 1, !.batch = {<<f, stat[f]>> : f \in Changed(to)}]
      PROVE  PhotoInv'
  <2> DEFINE S == Changed(to)
  <2>1. to + 1 \in 1..(Len(Hash) + 1) /\ S \subseteq Photos
    BY <1>0, <1>3, HashTyped DEF RunTypes
  <2>2. {<<f, stat[f]>> : f \in S} \in SUBSET (Photos \X Stats)
    BY <1>0, <2>1
  <2> HIDE DEF Changed
  <2>3. run' \in RunTypes /\ run'.mem = run.mem /\ run'.pc = "ask"
    BY <1>0, <1>3, <2>1, <2>2 DEF RunTypes, Phases
  <2>. QED
    BY <1>1, <1>3, <2>3, NothingMarked
<1>. QED
  BY <1>2, <1>3 DEF Walk

LEMMA AskKeeps ==
  ASSUME PhotoInv, Ask
  PROVE  PhotoInv'
<1> DEFINE known == {e \in run.batch : artifact[Hash[e[1]]].stored}
           new == run.batch \ known
           next == IF new = {} THEN "walk" ELSE "send"
<1>0. run \in RunTypes /\ run.batch \in SUBSET (Photos \X Stats)
  BY DEF PhotoInv, PhotoTyped, RunTypes
<1>1. known \in SUBSET (Photos \X Stats) /\ new \in SUBSET (Photos \X Stats)
      /\ \A e \in known : artifact[Hash[e[1]]].stored
  BY <1>0
<1>2. run' = [run EXCEPT !.mem = Mark(known), !.batch = new, !.pc = next]
  BY DEF Ask
<1>3. next \in Phases /\ next # "hear"
  BY DEF Phases
<1>4. UNCHANGED <<stat, artifact, skip, captions, face, labelled, photoFaults>>
  BY DEF Ask, disk
<1> HIDE DEF known, new, next
<1>5. Mark(known) \in [Photos -> Stats] /\ Backed(Mark(known))
  BY <1>1, MarkBacked DEF PhotoInv
<1>6. run' \in RunTypes /\ run'.mem = Mark(known) /\ run'.pc # "hear"
  BY <1>0, <1>1, <1>2, <1>3, <1>5 DEF RunTypes
<1>7. PhotoTyped'
  BY <1>4, <1>6 DEF PhotoInv, PhotoTyped, FilesTyped
<1>8. Backed(skip)' /\ Backed(run.mem)'
  BY <1>4, <1>5, <1>6 DEF PhotoInv, Backed
<1>. QED
  BY <1>6, <1>7, <1>8 DEF PhotoInv

\* What waits to be marked after a batch was sent is what the server confirmed.
LEMMA SendBatchKeeps ==
  ASSUME PhotoInv, SendBatch
  PROVE  PhotoInv'
<1>0. run \in RunTypes /\ run.batch \in SUBSET (Photos \X Stats) /\ artifact \in [Contents -> Artifacts]
  BY DEF PhotoInv, PhotoTyped, RunTypes
<1>1. PICK stored \in SUBSET {Hash[e[1]] : e \in run.batch} :
        /\ artifact' = [c \in Contents |-> IF c \in stored THEN WithText(FALSE, FALSE) ELSE artifact[c]]
        /\ run' = [run EXCEPT !.pc = "hear", !.batch = ConfirmedBy(stored)]
        /\ photoFaults' = photoFaults \/ Fault
  BY DEF SendBatch
<1>2. ConfirmedBy(stored) \in SUBSET (Photos \X Stats)
      /\ \A e \in ConfirmedBy(stored) : Hash[e[1]] \in stored /\ Hash[e[1]] \in Contents
  BY <1>0, HashTyped DEF ConfirmedBy
<1>3. Keeps /\ \A c \in Contents : c \in stored => artifact'[c].stored
  BY <1>0, <1>1, WithTextTyped DEF Keeps
<1>4. run' \in RunTypes /\ run'.mem = run.mem /\ run'.batch = ConfirmedBy(stored)
  BY <1>0, <1>1, <1>2 DEF RunTypes, Phases
<1>5. UNCHANGED <<stat, skip, captions, face, labelled>>
  BY DEF SendBatch, disk
<1>6. photoFaults' \in 0..MaxPhotoFaults
  BY <1>1, PhotoAssumption DEF Fault, PhotoInv, PhotoTyped, FilesTyped
<1>7. PhotoTyped'
  BY <1>3, <1>4, <1>5, <1>6 DEF PhotoInv, PhotoTyped, FilesTyped, Keeps
<1>8. Backed(skip)' /\ Backed(run.mem)'
  BY <1>3, <1>4, <1>5, HashTyped DEF PhotoInv, Backed, Keeps
<1>9. \A e \in run'.batch : artifact'[Hash[e[1]]].stored
  BY <1>2, <1>3, <1>4
<1>. QED
  BY <1>7, <1>8, <1>9 DEF PhotoInv

LEMMA MarkedKeeps ==
  ASSUME PhotoInv, Marked
  PROVE  PhotoInv'
<1>0. run \in RunTypes /\ run.batch \in SUBSET (Photos \X Stats) /\ run.pc = "hear"
  BY DEF PhotoInv, PhotoTyped, RunTypes, Marked, Doing
<1>1. Mark(run.batch) \in [Photos -> Stats] /\ Backed(Mark(run.batch))
  BY <1>0, MarkBacked DEF PhotoInv
<1>2. UNCHANGED <<stat, artifact, skip, captions, face, labelled, photoFaults>>
  BY DEF Marked, disk
<1>3. run' = [run EXCEPT !.pc = "walk", !.mem = Mark(run.batch), !.batch = {}]
  BY DEF Marked
<1>4. run' \in RunTypes /\ run'.mem = Mark(run.batch) /\ run'.pc = "walk"
  <2>1. {} \in SUBSET (Photos \X Stats) /\ "walk" \in Phases
    BY DEF Phases
  <2>. QED
    BY <1>0, <1>1, <1>3, <2>1 DEF RunTypes
<1>5. PhotoTyped'
  BY <1>2, <1>4 DEF PhotoInv, PhotoTyped, FilesTyped
<1>6. Backed(skip)' /\ Backed(run.mem)'
  BY <1>1, <1>2, <1>4 DEF PhotoInv, Backed
<1>. QED
  BY <1>4, <1>5, <1>6 DEF PhotoInv
LEMMA FaultTyped ==
  ASSUME PhotoTyped, Fault \/ UNCHANGED photoFaults
  PROVE  photoFaults' \in 0..MaxPhotoFaults
BY PhotoAssumption DEF Fault, PhotoTyped, FilesTyped

LEMMA CaptionKeeps ==
  ASSUME PhotoInv, NEW f \in Photos, Caption(f)
  PROVE  PhotoInv'
<1>0. PhotoTyped
  BY DEF PhotoInv
<1>1. /\ UNCHANGED <<stat, skip, captions, face, labelled>> /\ (Fault \/ UNCHANGED photoFaults)
      /\ run' \in {Passed(f), NoRun, Take(f, "save")}
      /\ UNCHANGED artifact \/ artifact' = [artifact EXCEPT ![Hash[f]] = WithText(TRUE, FALSE)]
  BY DEF Caption, SendCaption, disk
<1>2. FilesTyped'
  BY <1>0, <1>1, FaultTyped DEF PhotoTyped, FilesTyped
<1>3. Keeps
  <2>1. UNCHANGED artifact => Keeps
    BY <1>0 DEF PhotoTyped, Keeps
  <2>2. TRUE \in BOOLEAN /\ FALSE \in BOOLEAN
    OBVIOUS
  <2>. QED
    BY <1>0, <1>1, <2>1, <2>2, KeepsOne
<1>4. run' \in RunTypes /\ run'.mem \in {run.mem, skip} /\ run'.pc # "hear"
  <2>1. "save" \in Phases
    BY DEF Phases
  <2>. QED
    BY <1>0, <1>1, <2>1, RunValues
<1>. QED
  BY <1>1, <1>2, <1>3, <1>4, NothingMarked

LEMMA SaveCaptionKeeps ==
  ASSUME PhotoInv, NEW f \in Photos, SaveCaption(f)
  PROVE  PhotoInv'
<1>1. FilesTyped' /\ Keeps /\ skip' = skip
  BY DEF SaveCaption, PhotoInv, PhotoTyped, FilesTyped, Keeps
<1>2. run' \in RunTypes /\ run'.mem = run.mem /\ run'.pc = "walk"
  BY RunValues DEF SaveCaption, PhotoInv, Phases
<1>. QED
  BY <1>1, <1>2, NothingMarked

LEMMA DetectKeeps ==
  ASSUME PhotoInv, NEW f \in Photos, Detect(f)
  PROVE  PhotoInv'
<1>0. stat \in [Photos -> Stats \ {0}] /\ face \in [Photos -> FaceTypes]
  BY DEF PhotoInv, PhotoTyped, FilesTyped
<1>1. [stat |-> stat[f], sent |-> Unsent] \in FaceTypes
  BY <1>0 DEF FaceTypes
<1>2. face' \in [Photos -> FaceTypes]
  BY <1>0, <1>1 DEF Detect
<1>3. FilesTyped' /\ Keeps /\ skip' = skip
  BY <1>2 DEF Detect, PhotoInv, PhotoTyped, FilesTyped, Keeps
<1>4. run' \in RunTypes /\ run'.mem = run.mem /\ run'.pc = "send"
  BY RunValues DEF Detect, PhotoInv, Phases
<1>. QED
  BY <1>3, <1>4, NothingMarked

LEMMA SendFacesKeeps ==
  ASSUME PhotoInv, NEW f \in Photos, SendFaces(f)
  PROVE  PhotoInv'
<1>0. PhotoTyped
  BY DEF PhotoInv
<1>1. /\ UNCHANGED <<stat, skip, captions, face, labelled>> /\ (Fault \/ UNCHANGED photoFaults)
      /\ run' \in {Passed(f), Take(f, "save")}
      /\ UNCHANGED artifact \/ artifact' = [artifact EXCEPT ![Hash[f]] = WithText(f \in captions, labelled)]
  BY DEF SendFaces, disk
<1>2. FilesTyped'
  BY <1>0, <1>1, FaultTyped DEF PhotoTyped, FilesTyped
<1>3. Keeps
  <2>1. UNCHANGED artifact => Keeps
    BY <1>0 DEF PhotoTyped, Keeps
  <2>2. (f \in captions) \in BOOLEAN /\ labelled \in BOOLEAN
    BY <1>0 DEF PhotoTyped, FilesTyped
  <2>3. artifact' = [artifact EXCEPT ![Hash[f]] = WithText(f \in captions, labelled)] => Keeps
    BY <1>0, <2>2, KeepsOne
  <2>. QED
    BY <1>1, <2>1, <2>3
<1>4. run' \in RunTypes /\ run'.mem \in {run.mem, skip} /\ run'.pc # "hear"
  <2>1. "save" \in Phases
    BY DEF Phases
  <2>. QED
    BY <1>0, <1>1, <2>1, RunValues
<1>. QED
  BY <1>1, <1>2, <1>3, <1>4, NothingMarked

LEMMA SaveFacesKeeps ==
  ASSUME PhotoInv, NEW f \in Photos, SaveFaces(f)
  PROVE  PhotoInv'
<1>0. face \in [Photos -> FaceTypes] /\ Signature(f) \in BOOLEAN \X BOOLEAN
  BY SignatureTyped DEF PhotoInv, PhotoTyped, FilesTyped
<1>1. face' \in [Photos -> FaceTypes]
  <2>1. [face[f] EXCEPT !.sent = Signature(f)] \in FaceTypes
    BY <1>0 DEF FaceTypes
  <2>2. face' = [face EXCEPT ![f] = [@ EXCEPT !.sent = Signature(f)]]
    BY DEF SaveFaces
  <2>. QED
    BY <1>0, <2>1, <2>2
<1>2. FilesTyped' /\ Keeps /\ skip' = skip
  BY <1>1 DEF SaveFaces, PhotoInv, PhotoTyped, FilesTyped, Keeps
<1>3. run' \in RunTypes /\ run'.mem = run.mem /\ run'.pc = "walk"
  BY RunValues DEF SaveFaces, PhotoInv, Phases
<1>. QED
  BY <1>2, <1>3, NothingMarked

\* A run that ends, or is ended, forgets what it had not written.
LEMMA EndsKeep ==
  ASSUME PhotoInv, EndWalk \/ Abort
  PROVE  PhotoInv'
<1>1. UNCHANGED <<stat, artifact, skip, captions, face, labelled>> /\ (Fault \/ UNCHANGED photoFaults)
  BY DEF EndWalk, Abort, disk
<1>2. FilesTyped' /\ Keeps
  BY <1>1, FaultTyped DEF PhotoInv, PhotoTyped, FilesTyped, Keeps
<1>3. run' \in RunTypes /\ run'.mem = skip /\ run'.pc = "none"
  BY RunValues DEF EndWalk, Abort, PhotoInv
<1>. QED
  BY <1>1, <1>2, <1>3, NothingMarked

LEMMA PhotoSteps == PhotoInv /\ [PhotoNext]_photoVars => PhotoInv'
<1>1. ASSUME PhotoInv, UNCHANGED photoVars PROVE PhotoInv'
  BY <1>1 DEF photoVars, disk, PhotoInv, PhotoTyped, FilesTyped, Backed
<1>2. ASSUME PhotoInv, Work PROVE PhotoInv'
  BY <1>2, WalkKeeps, AskKeeps, SendBatchKeeps, MarkedKeeps, EndsKeep, CaptionKeeps, SaveCaptionKeeps,
     DetectKeeps, SendFacesKeeps, SaveFacesKeeps DEF Work
<1>. QED
  BY <1>1, <1>2, StartsKeep, EndsKeep, TouchKeeps DEF PhotoNext

-----------------------------------------------------------------------------
\* The types of the photo programs' files and memory.
THEOREM PhotoTypesHold == PhotoSpec => []PhotoTypeOK
<1>1. PhotoInv => PhotoTypeOK
  BY PhotoInvTyped
<1>. QED
  BY <1>1, PhotoStarts, PhotoSteps, PTL DEF PhotoSpec

\* In a library of any size, with any batch bound, copies and failures: a file the manifest
\* lets the scan skip has its photo on the server (main and flush of scan.js).
THEOREM TheScanSkipsWhatIsStored == PhotoSpec => []SkippedIsStored
<1>1. PhotoInv => SkippedIsStored
  BY InvBacked
<1>. QED
  BY <1>1, PhotoStarts, PhotoSteps, PTL DEF PhotoSpec

\* The server loses no photo, and gets none in the step that writes the manifest.
LEMMA PhotosKept ==
  ASSUME PhotoInv, [PhotoNext]_photoVars
  PROVE  /\ \A c \in Contents : artifact[c].stored => artifact'[c].stored
         /\ UNCHANGED artifact \/ UNCHANGED skip
<1>1. ASSUME SendBatch PROVE Keeps /\ UNCHANGED skip
  BY <1>1, WithTextTyped DEF SendBatch, Keeps, PhotoInv, PhotoTyped
<1>2. ASSUME NEW f \in Photos, NEW caption \in BOOLEAN, NEW named \in BOOLEAN,
             artifact' = [artifact EXCEPT ![Hash[f]] = WithText(caption, named)]
      PROVE  Keeps
  BY <1>2, KeepsOne DEF PhotoInv
<1>3. ASSUME NEW f \in Photos, Caption(f)
      PROVE  UNCHANGED artifact \/ (Keeps /\ UNCHANGED skip)
  BY <1>2, <1>3 DEF Caption, SendCaption
<1>4. ASSUME NEW f \in Photos, SendFaces(f)
      PROVE  UNCHANGED artifact \/ (Keeps /\ UNCHANGED skip)
  <2>1. (f \in captions) \in BOOLEAN /\ labelled \in BOOLEAN
    BY DEF PhotoInv, PhotoTyped, FilesTyped
  <2>. QED
    BY <1>2, <1>4, <2>1 DEF SendFaces
<1>5. UNCHANGED artifact \/ (Keeps /\ UNCHANGED skip)
  BY <1>1, <1>3, <1>4
     DEF PhotoNext, Work, StartScan, StartCaption, StartFaces, Label, Walk, Ask, Marked, EndWalk,
         SaveCaption, Detect, SaveFaces, Abort, Touch, photoVars
<1>. QED
  BY <1>5 DEF Keeps

LEMMA PhotoDelivery ==
  ASSUME PhotoInv, PhotoInv', [PhotoNext]_photoVars
  PROVE  [PhotoPromise!Next]_<<StoredPhotos, SkippedPhotos>>
<1>1. CASE UNCHANGED skip
  <2>1. StoredPhotos \subseteq StoredPhotos' /\ StoredPhotos' \subseteq Contents
    BY PhotosKept DEF StoredPhotos
  <2>2. SkippedPhotos' = SkippedPhotos
    BY <1>1 DEF SkippedPhotos
  <2>. QED
    BY <2>1, <2>2 DEF PhotoPromise!Next, PhotoPromise!Deliver
<1>2. CASE UNCHANGED artifact
  <2>1. StoredPhotos' = StoredPhotos
    BY <1>2 DEF StoredPhotos
  <2>2. SkippedPhotos' \subseteq StoredPhotos
    BY <1>2, HashTyped DEF PhotoInv, Backed, StoredPhotos, SkippedPhotos
  <2>. QED
    BY <2>1, <2>2 DEF PhotoPromise!Next, PhotoPromise!Pass
<1>. QED
  BY <1>1, <1>2, PhotosKept

\* The photo connector implements Delivery: no program that rewrites an artifact loses it,
\* and no write of the manifest names a photo that failed.
THEOREM PhotosAreDelivery == PhotoSpec => PhotosDeliver
<1>1. PhotoInit => PhotoPromise!Init
  BY DEF PhotoInit, PhotoPromise!Init, StoredPhotos, SkippedPhotos, Nothing
<1>2. PhotoInv /\ PhotoInv' /\ [PhotoNext]_photoVars
        => [PhotoPromise!Next]_<<StoredPhotos, SkippedPhotos>>
  BY PhotoDelivery
<1>. QED
  BY PhotoStarts, PhotoSteps, <1>1, <1>2, PTL DEF PhotoSpec, PhotosDeliver, PhotoPromise!Spec
=============================================================================
