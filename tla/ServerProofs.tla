----------------------------- MODULE ServerProofs -----------------------------
(***************************************************************************)
(* The server and the page it serves. For every number of requests, days   *)
(* and signals: a clean exit leaves every line of the access log on disk.  *)
(* For any number of contacts, photos and requests under way: what is done *)
(* in a form reaches the contact the form shows, and only an upload        *)
(* changes a photo.                                                        *)
(***************************************************************************)
EXTENDS ServerLife, ContactsPage, FiniteSetTheorems, TLAPS

-----------------------------------------------------------------------------
\* ServerLife. The invariant says which stream took the last line: the open one until
\* closeAccessLog is called, and from then on the one it ends, for nothing is written any
\* more.

\* The access log: a line bears a date between the start and now, its file is there
\* (the cutoff of the pruning is no later than the start), and so is its request's end.
Dated ==
  /\ date >= BootDate /\ streamOf <= date
  /\ \A r \in Requests :
       lineIn[r] <= date /\ (lineIn[r] # NoDate => lineIn[r] >= BootDate /\ lineIn[r] \in files)

NoLines == \A r \in Requests : lineIn[r] = NoDate
\* Stream d took the last line, and none after it was written.
LastIn(d) == (\A r \in Requests : lineIn[r] <= d) /\ \E r \in Requests : lineIn[r] = d

\* closeAccessLog has not been called: the open stream is the one of the last line.
Quiet == \A k \in Signals : closing[k] \notin {"flushing", "ready"}
OpenHasLast == Quiet => IF streamOf = NoDate THEN NoLines ELSE LastIn(streamOf)

\* Once it was called nothing writes any more, and the stream it ended is that of the
\* last line.
SignalCloses == (\E k \in Signals : closing[k] # "none") => ~listening
EndedHasLast == ~Quiet => /\ Drained /\ streamOf = NoDate
                          /\ NoLines \/ LastIn(ending)

\* A shutdown that is ready has waited for the flush, or there was another signal.
ReadyWaited ==
  \A k \in Signals : closing[k] = "ready" =>
    NoLines \/ Flushed \/ \E j \in Signals \ {k} : closing[j] # "none"

ExitIsReady == exited = "0" => \E k \in Signals : closing[k] = "ready"

LifeInv ==
  /\ LifeTypeOK /\ Dated /\ OpenHasLast /\ SignalCloses /\ EndedHasLast
  /\ ReadyWaited /\ ExitIsReady

-----------------------------------------------------------------------------
LEMMA LifeInitSafe == LifeInit => LifeInv
<1> SUFFICES ASSUME LifeInit PROVE LifeInv
  OBVIOUS
<1>1. LifeTypeOK
  <2>1. files \subseteq Dates /\ date \in Dates
    BY ServerAssumption DEF LifeInit, Dates
  <2>. QED
    BY <2>1 DEF LifeInit, LifeTypeOK
<1>2. Dated
  BY ServerAssumption DEF LifeInit, Dated, Dates, NoDate
<1>3. NoLines /\ Quiet /\ streamOf = NoDate
  BY DEF LifeInit, NoLines, Quiet
<1>4. SignalCloses /\ ReadyWaited /\ ExitIsReady
  BY DEF LifeInit, SignalCloses, ReadyWaited, ExitIsReady
<1>. QED
  BY <1>1, <1>2, <1>3, <1>4 DEF LifeInv, OpenHasLast, EndedHasLast

\* Lines that are written today come after those that were.
LEMMA FinishKeepsOrder ==
  ASSUME LifeTypeOK, Dated, NEW R \in SUBSET Requests, Finish(R), UNCHANGED date
  PROVE  /\ streamOf' \in Dates \cup {NoDate} /\ lineIn' \in [Requests -> Dates \cup {NoDate}]
         /\ files' \subseteq Dates /\ Dated'
         /\ (IF streamOf = NoDate THEN NoLines ELSE LastIn(streamOf))
              => (IF streamOf' = NoDate THEN NoLines' ELSE LastIn(streamOf)')
<1>1. date \in Dates /\ date \in Nat /\ BootDate \in Nat /\ date >= BootDate /\ date # NoDate
  BY ServerAssumption DEF LifeTypeOK, Dated, Dates, NoDate
<1>2. CASE R = {}
  BY <1>2 DEF Finish, logVars, LifeTypeOK, Dated, NoLines, LastIn
<1>3. CASE R # {}
  <2>1. /\ streamOf' = date /\ files' = files \cup {date}
        /\ lineIn' = [r \in Requests |-> IF r \in R THEN date ELSE lineIn[r]]
    BY <1>3 DEF Finish
  <2>2. \A r \in Requests : lineIn'[r] = IF r \in R THEN date ELSE lineIn[r]
    BY <2>1
  <2>3. /\ streamOf' \in Dates \cup {NoDate} /\ lineIn' \in [Requests -> Dates \cup {NoDate}]
        /\ files' \subseteq Dates
    BY <1>1, <2>1 DEF LifeTypeOK
  <2>4. Dated'
    BY <1>1, <2>1, <2>2 DEF Dated
  <2>5. LastIn(streamOf)'
    <3>1. \A r \in Requests : lineIn'[r] <= streamOf'
      BY <1>1, <2>1, <2>2 DEF Dated
    <3>2. PICK r \in R : TRUE
      BY <1>3
    <3>3. lineIn'[r] = streamOf'
      BY <2>1, <2>2, <3>2
    <3>. QED
      BY <3>1, <3>3 DEF LastIn
  <2>. QED
    BY <1>1, <2>1, <2>3, <2>4, <2>5
<1>. QED
  BY <1>2, <1>3

\* Requests move, signals may come, and the requests in R write their lines.
LEMMA RequestsMove ==
  ASSUME LifeInv, NEW R \in SUBSET Requests, Finish(R),
         request' \in [Requests -> {"unsent", "accepted", "open", "ended"}],
         sessions' \subseteq Requests, listening' \in BOOLEAN,
         closing' \in [Signals -> {"none", "draining", "flushing", "ready"}],
         UNCHANGED <<date, onDisk, failed, pruned, ending, exited>>,
         \A k \in Signals : \/ closing'[k] = closing[k]
                            \/ closing[k] = "none" /\ closing'[k] = "draining",
         SignalCloses',
         ~Quiet => R = {} /\ Drained'
  PROVE  LifeInv'
<1>1. LifeTypeOK'
  BY FinishKeepsOrder DEF LifeInv, LifeTypeOK
<1>2. Dated'
  BY FinishKeepsOrder DEF LifeInv
<1>3. Quiet' <=> Quiet
  BY DEF Quiet
<1>4. OpenHasLast'
  BY <1>3, FinishKeepsOrder DEF LifeInv, OpenHasLast
<1>5. ~Quiet => UNCHANGED logVars
  BY DEF Finish
<1>6. EndedHasLast'
  BY <1>3, <1>5 DEF LifeInv, EndedHasLast, NoLines, LastIn, logVars
<1>7. ReadyWaited'
  <2> SUFFICES ASSUME NEW k \in Signals, closing'[k] = "ready"
               PROVE  NoLines' \/ Flushed' \/ \E j \in Signals \ {k} : closing'[j] # "none"
    BY DEF ReadyWaited
  <2>1. closing[k] = "ready" /\ UNCHANGED logVars
    BY <1>5 DEF Quiet
  <2>2. NoLines \/ Flushed \/ \E j \in Signals \ {k} : closing[j] # "none"
    BY <2>1 DEF LifeInv, ReadyWaited
  <2>. QED
    BY <2>1, <2>2 DEF NoLines, Flushed, logVars
<1>8. ExitIsReady'
  BY DEF LifeInv, ExitIsReady
<1>. QED
  BY <1>1, <1>2, <1>4, <1>6, <1>7, <1>8 DEF LifeInv

\* Nothing is open any more when the log is being closed, and nothing gets in.
LEMMA NothingOpen ==
  ASSUME LifeInv, ~Quiet
  PROVE  /\ ~listening
         /\ \A r \in Requests : request[r] \in {"unsent", "ended"}
BY DEF LifeInv, EndedHasLast, SignalCloses, Quiet, Drained

LEMMA AcceptSafe == ASSUME LifeInv, NEW r \in Requests, Accept(r) PROVE LifeInv'
<1>1. Quiet
  BY NothingOpen DEF Accept
<1>2. Finish({})
  BY DEF Finish, Accept
<1>3. /\ request' \in [Requests -> {"unsent", "accepted", "open", "ended"}]
      /\ sessions' \subseteq Requests /\ listening' \in BOOLEAN
      /\ closing' \in [Signals -> {"none", "draining", "flushing", "ready"}]
  BY DEF LifeInv, LifeTypeOK, Accept
<1>4. UNCHANGED <<listening, closing>> /\ UNCHANGED <<date, onDisk, failed, pruned, ending, exited>>
  BY DEF Accept
<1>5. SignalCloses'
  BY <1>4 DEF LifeInv, SignalCloses
<1>. QED
  BY <1>1, <1>2, <1>3, <1>4, <1>5, RequestsMove

\* The requests in R end, and the sessions in S.
LEMMA EndOnSafe ==
  ASSUME LifeInv, Quiet, NEW S, NEW R \in SUBSET Requests, EndOn(S, R),
         UNCHANGED <<listening, closing>>, UNCHANGED <<date, onDisk, failed, pruned, ending, exited>>
  PROVE  LifeInv'
<1>1. /\ request' \in [Requests -> {"unsent", "accepted", "open", "ended"}]
      /\ sessions' \subseteq Requests /\ Finish(R)
  BY DEF LifeInv, LifeTypeOK, EndOn
<1>2. listening' \in BOOLEAN /\ closing' \in [Signals -> {"none", "draining", "flushing", "ready"}]
  BY DEF LifeInv, LifeTypeOK
<1>3. SignalCloses'
  BY DEF LifeInv, SignalCloses
<1>. QED
  BY <1>1, <1>2, <1>3, RequestsMove

LEMMA HandleSafe == ASSUME LifeInv, NEW r \in Requests, Handle(r) PROVE LifeInv'
<1>1. Quiet
  BY NothingOpen DEF Handle
<1>2. UNCHANGED <<listening, closing>> /\ UNCHANGED <<date, onDisk, failed, pruned, ending, exited>>
  BY DEF Handle
<1>3. CASE /\ request' = [request EXCEPT ![r] = "open"] /\ UNCHANGED logVars
           /\ sessions' \subseteq Requests
  <2>1. Finish({})
    BY <1>3 DEF Finish
  <2>2. /\ request' \in [Requests -> {"unsent", "accepted", "open", "ended"}]
        /\ listening' \in BOOLEAN
        /\ closing' \in [Signals -> {"none", "draining", "flushing", "ready"}]
    BY <1>2, <1>3 DEF LifeInv, LifeTypeOK
  <2>3. SignalCloses'
    BY <1>2 DEF LifeInv, SignalCloses
  <2>. QED
    BY <1>1, <1>2, <1>3, <2>1, <2>2, <2>3, RequestsMove
<1>4. CASE EndOn({Of[r]}, {r} \cup Answering({Of[r]}))
  <2>1. {r} \cup Answering({Of[r]}) \in SUBSET Requests
    BY DEF Answering
  <2>. QED
    BY <1>1, <1>2, <1>4, <2>1, EndOnSafe
<1>5. CASE EndOn({}, {r})
  BY <1>1, <1>2, <1>5, EndOnSafe
<1>. QED
  BY <1>3, <1>4, <1>5 DEF Handle, LifeInv, LifeTypeOK

LEMMA AnswerSafe == ASSUME LifeInv, NEW r \in Requests, Answer(r) PROVE LifeInv'
<1>1. Quiet
  BY NothingOpen DEF Answer
<1>. QED
  BY <1>1, EndOnSafe DEF Answer

LEMMA HangUpSafe == ASSUME LifeInv, NEW r \in Requests, HangUp(r) PROVE LifeInv'
<1>1. Quiet
  BY NothingOpen DEF HangUp
<1>2. Finish({})
  BY DEF Finish, HangUp
<1>3. /\ request' \in [Requests -> {"unsent", "accepted", "open", "ended"}]
      /\ sessions' \subseteq Requests /\ listening' \in BOOLEAN
      /\ closing' \in [Signals -> {"none", "draining", "flushing", "ready"}]
  BY DEF LifeInv, LifeTypeOK, HangUp
<1>4. UNCHANGED <<listening, closing>> /\ UNCHANGED <<date, onDisk, failed, pruned, ending, exited>>
  BY DEF HangUp
<1>5. SignalCloses'
  BY <1>4 DEF LifeInv, SignalCloses
<1>. QED
  BY <1>1, <1>2, <1>3, <1>4, <1>5, RequestsMove

\* A later signal finds no response to end once the first one closes the log.
LEMMA SignalSafe == ASSUME LifeInv, NEW k \in Signals, Signal(k) PROVE LifeInv'
<1>1. Answering(HungUp) \in SUBSET Requests /\ EndOn(HungUp, Answering(HungUp))
  BY DEF Answering, Signal
<1>2. /\ request' = [r \in Requests |-> IF r \in Answering(HungUp) THEN "ended" ELSE request[r]]
      /\ sessions' = sessions \ HungUp /\ Finish(Answering(HungUp))
  BY <1>1 DEF EndOn
<1>3. /\ request' \in [Requests -> {"unsent", "accepted", "open", "ended"}]
      /\ sessions' \subseteq Requests
  BY <1>2 DEF LifeInv, LifeTypeOK
<1>4. /\ listening' = FALSE /\ closing[k] = "none"
      /\ closing' = [closing EXCEPT ![k] = "draining"]
      /\ closing' \in [Signals -> {"none", "draining", "flushing", "ready"}]
      /\ \A j \in Signals : closing'[j] = IF j = k THEN "draining" ELSE closing[j]
  BY DEF Signal, LifeInv, LifeTypeOK
<1>5. UNCHANGED <<date, onDisk, failed, pruned, ending, exited>>
  BY DEF Signal
<1>6. SignalCloses'
  BY <1>4 DEF SignalCloses
<1>7. ~Quiet => Answering(HungUp) = {} /\ Drained'
  BY <1>2, NothingOpen DEF Answering, Drained
<1>8. \A j \in Signals : \/ closing'[j] = closing[j]
                         \/ closing[j] = "none" /\ closing'[j] = "draining"
  BY <1>4
<1>. QED
  BY <1>1, <1>2, <1>3, <1>4, <1>5, <1>6, <1>7, <1>8, RequestsMove

-----------------------------------------------------------------------------
\* The disk and the clock leave the lines and the signals alone; what was flushed, or
\* failed, stays so.
LEMMA DiskMoves ==
  ASSUME LifeInv, UNCHANGED <<request, sessions, listening, streamOf, lineIn, ending, closing, exited>>,
         onDisk \subseteq onDisk', onDisk' \subseteq Requests,
         failed \subseteq failed', failed' \subseteq Dates,
         pruned' \in BOOLEAN, date' \in Dates, date' >= date, files' \subseteq Dates,
         \A r \in Requests : lineIn[r] # NoDate => lineIn[r] \in files'
  PROVE  LifeInv'
<1>1. LifeTypeOK'
  BY DEF LifeInv, LifeTypeOK
<1>2. Dated'
  <2>1. date \in Nat /\ date' \in Nat /\ BootDate \in Nat /\ streamOf \in Nat
        /\ \A r \in Requests : lineIn[r] \in Nat
    BY ServerAssumption DEF LifeInv, LifeTypeOK, Dates, NoDate
  <2>. QED
    BY <2>1 DEF LifeInv, Dated
<1>3. OpenHasLast' /\ EndedHasLast'
  BY DEF LifeInv, OpenHasLast, EndedHasLast, Quiet, NoLines, LastIn, Drained
<1>4. SignalCloses' /\ ExitIsReady'
  BY DEF LifeInv, SignalCloses, ExitIsReady
<1>5. ReadyWaited'
  <2>1. Flushed => Flushed'
    BY DEF Flushed
  <2>. QED
    BY <2>1 DEF LifeInv, ReadyWaited, NoLines
<1>. QED
  BY <1>1, <1>2, <1>3, <1>4, <1>5 DEF LifeInv

LEMMA FlushSafe == ASSUME LifeInv, NEW d \in Dates, Flush(d) PROVE LifeInv'
<1>1. onDisk \subseteq onDisk' /\ onDisk' \subseteq Requests
  BY DEF Flush, LifeInv, LifeTypeOK
<1>2. UNCHANGED <<request, sessions, listening, streamOf, lineIn, ending, closing, exited>>
      /\ UNCHANGED <<failed, pruned, date, files>>
  BY DEF Flush, logVars
<1>3. date \in Nat
  BY DEF LifeInv, LifeTypeOK, Dates
<1>. QED
  BY <1>1, <1>2, <1>3, DiskMoves DEF LifeInv, LifeTypeOK, Dated

LEMMA TearSafe == ASSUME LifeInv, Tear PROVE LifeInv'
<1>1. failed \subseteq failed' /\ failed' \subseteq Dates
  BY DEF Tear, LifeInv, LifeTypeOK
<1>2. UNCHANGED <<request, sessions, listening, streamOf, lineIn, ending, closing, exited>>
      /\ UNCHANGED <<onDisk, pruned, date, files>>
  BY DEF Tear, logVars
<1>3. date \in Nat
  BY DEF LifeInv, LifeTypeOK, Dates
<1>. QED
  BY <1>1, <1>2, <1>3, DiskMoves DEF LifeInv, LifeTypeOK, Dated

LEMMA MidnightSafe == ASSUME LifeInv, Midnight PROVE LifeInv'
<1>1. date' \in Dates /\ date' >= date
  BY ServerAssumption DEF Midnight, LifeInv, LifeTypeOK, Dates
<1>2. UNCHANGED <<request, sessions, listening, streamOf, lineIn, ending, closing, exited>>
      /\ UNCHANGED <<onDisk, failed, pruned, files>>
  BY DEF Midnight, logVars
<1>. QED
  BY <1>1, <1>2, DiskMoves DEF LifeInv, LifeTypeOK, Dated

\* The cutoff is no later than the start, and no line is older than that.
LEMMA PruneSafe == ASSUME LifeInv, Prune PROVE LifeInv'
<1>1. \A r \in Requests : lineIn[r] # NoDate => lineIn[r] \in files'
  <2>1. Cutoff <= BootDate
    BY ServerAssumption DEF Cutoff, Dates
  <2>2. ASSUME NEW r \in Requests, lineIn[r] # NoDate PROVE lineIn[r] \in files /\ lineIn[r] >= Cutoff
    <3>1. lineIn[r] \in Nat /\ lineIn[r] >= BootDate /\ lineIn[r] \in files
      BY <2>2 DEF LifeInv, LifeTypeOK, Dated, Dates, NoDate
    <3>2. Cutoff \in Int /\ BootDate \in Nat
      BY ServerAssumption DEF Cutoff, Dates
    <3>. QED
      BY <2>1, <3>1, <3>2
  <2>. QED
    BY <2>2 DEF Prune
<1>2. UNCHANGED <<request, sessions, listening, streamOf, lineIn, ending, closing, exited>>
      /\ UNCHANGED <<onDisk, failed, date>> /\ pruned' \in BOOLEAN /\ files' \subseteq Dates
  BY DEF Prune, LifeInv, LifeTypeOK
<1>3. date \in Nat
  BY DEF LifeInv, LifeTypeOK, Dates
<1>. QED
  BY <1>1, <1>2, <1>3, DiskMoves DEF LifeInv, LifeTypeOK

-----------------------------------------------------------------------------
\* The first call ends the stream of the last line; a later one finds none, and its
\* signal is not the only one.
LEMMA CloseLogSafe == ASSUME LifeInv, NEW k \in Signals, CloseLog(k) PROVE LifeInv'
<1>1. /\ closing[k] = "draining" /\ Drained
      /\ closing' = [closing EXCEPT ![k] = IF streamOf # NoDate THEN "flushing" ELSE "ready"]
      /\ streamOf' = NoDate
      /\ ending' = IF streamOf # NoDate THEN streamOf ELSE ending
      /\ UNCHANGED <<request, sessions, listening, date, lineIn, onDisk, files, failed, pruned, exited>>
  BY DEF CloseLog, Awaited
<1>2. /\ closing' \in [Signals -> {"none", "draining", "flushing", "ready"}]
      /\ \A j \in Signals : closing'[j] = IF j = k THEN IF streamOf # NoDate THEN "flushing" ELSE "ready"
                                          ELSE closing[j]
  BY <1>1 DEF LifeInv, LifeTypeOK
<1>3. LifeTypeOK'
  BY <1>1, <1>2 DEF LifeInv, LifeTypeOK
<1>4. Dated'
  <2>1. date \in Nat
    BY DEF LifeInv, LifeTypeOK, Dates
  <2>. QED
    BY <1>1, <2>1 DEF LifeInv, Dated, NoDate
<1>5. ~Quiet'
  BY <1>2 DEF Quiet
<1>6. SignalCloses' /\ ExitIsReady'
  BY <1>1, <1>2 DEF LifeInv, SignalCloses, ExitIsReady
<1>7. NoLines \/ LastIn(ending')
  <2>1. CASE Quiet
    BY <2>1, <1>1 DEF LifeInv, OpenHasLast
  <2>2. CASE ~Quiet
    BY <2>2, <1>1 DEF LifeInv, EndedHasLast
  <2>. QED
    BY <2>1, <2>2
<1>8. OpenHasLast' /\ EndedHasLast'
  BY <1>1, <1>5, <1>7 DEF OpenHasLast, EndedHasLast, Drained, NoLines, LastIn
<1>9. ReadyWaited'
  <2> SUFFICES ASSUME NEW j \in Signals, closing'[j] = "ready"
               PROVE  NoLines' \/ Flushed' \/ \E i \in Signals \ {j} : closing'[i] # "none"
    BY DEF ReadyWaited
  <2>1. CASE j # k
    BY <2>1, <1>2
  <2>2. CASE j = k /\ Quiet
    <3>1. streamOf = NoDate
      BY <2>2, <1>2
    <3>. QED
      BY <2>2, <3>1, <1>1 DEF LifeInv, OpenHasLast, NoLines
  <2>3. CASE j = k /\ ~Quiet
    <3>1. PICK i \in Signals : closing[i] \in {"flushing", "ready"}
      BY <2>3 DEF Quiet
    <3>2. i # k /\ closing'[i] # "none"
      BY <1>1, <1>2, <3>1
    <3>. QED
      BY <2>3, <3>2
  <2>. QED
    BY <2>1, <2>2, <2>3
<1>. QED
  BY <1>3, <1>4, <1>6, <1>8, <1>9 DEF LifeInv

LEMMA LogClosedSafe == ASSUME LifeInv, NEW k \in Signals, LogClosed(k) PROVE LifeInv'
<1>1. /\ closing[k] = "flushing" /\ Flushed /\ closing' = [closing EXCEPT ![k] = "ready"]
      /\ UNCHANGED <<request, sessions, listening, date, streamOf, lineIn, files, onDisk, failed, pruned,
                     ending, exited>>
  BY DEF LogClosed, logVars
<1>2. /\ closing' \in [Signals -> {"none", "draining", "flushing", "ready"}]
      /\ \A j \in Signals : closing'[j] = IF j = k THEN "ready" ELSE closing[j]
  BY <1>1 DEF LifeInv, LifeTypeOK
<1>3. LifeTypeOK' /\ Dated'
  BY <1>1, <1>2 DEF LifeInv, LifeTypeOK, Dated
<1>4. ~Quiet /\ ~Quiet'
  BY <1>1, <1>2 DEF Quiet
<1>5. OpenHasLast' /\ EndedHasLast'
  BY <1>1, <1>4 DEF LifeInv, OpenHasLast, EndedHasLast, Drained, NoLines, LastIn
<1>6. SignalCloses' /\ ExitIsReady'
  BY <1>1, <1>2 DEF LifeInv, SignalCloses, ExitIsReady
<1>7. ReadyWaited'
  BY <1>1 DEF ReadyWaited, Flushed
<1>. QED
  BY <1>3, <1>5, <1>6, <1>7 DEF LifeInv

LEMMA ExitSafe == LifeInv /\ (ExitClean \/ ExitForced) => LifeInv'
<1> SUFFICES ASSUME LifeInv, ExitClean \/ ExitForced PROVE LifeInv'
  OBVIOUS
<1>1. /\ UNCHANGED <<request, sessions, listening, date, streamOf, lineIn, files, onDisk, failed, pruned,
                     ending, closing>>
      /\ exited' = "1" \/ (exited' = "0" /\ \E k \in Signals : closing[k] = "ready")
  BY DEF ExitClean, ExitForced, logVars
<1>2. LifeTypeOK' /\ Dated' /\ ExitIsReady' /\ SignalCloses'
  BY <1>1 DEF LifeInv, LifeTypeOK, Dated, ExitIsReady, SignalCloses
<1>3. OpenHasLast' /\ EndedHasLast'
  BY <1>1 DEF LifeInv, OpenHasLast, EndedHasLast, Quiet, Drained, NoLines, LastIn
<1>4. ReadyWaited'
  BY <1>1 DEF LifeInv, ReadyWaited, NoLines, Flushed
<1>. QED
  BY <1>2, <1>3, <1>4 DEF LifeInv

LEMMA LifeStep == LifeInv /\ [LifeNext]_lifeVars => LifeInv'
<1>1. LifeInv /\ UNCHANGED lifeVars => LifeInv'
  BY DEF LifeInv, LifeTypeOK, Dated, OpenHasLast, SignalCloses, EndedHasLast, ReadyWaited, ExitIsReady,
         Quiet, Drained, NoLines, LastIn, Flushed, lifeVars
<1>. QED
  BY <1>1, AcceptSafe, HandleSafe, AnswerSafe, HangUpSafe, SignalSafe, FlushSafe, TearSafe, MidnightSafe,
     PruneSafe, CloseLogSafe, LogClosedSafe, ExitSafe
     DEF LifeNext, Writes, Shut, ServerGone

\* With one signal, the shutdown that is ready is its own.
LEMMA CleanExitFollows == LifeInv => CleanExitKeepsLog
<1> SUFFICES ASSUME LifeInv, exited = "0", Cardinality({k \in Signals : closing[k] # "none"}) = 1,
                    NEW r \in LastLines
             PROVE  lineIn[r] \in failed \/ (r \in onDisk /\ lineIn[r] \in files)
  BY DEF CleanExitKeepsLog
<1>1. PICK k \in Signals : closing[k] = "ready"
  BY DEF LifeInv, ExitIsReady
<1>2. \A j \in Signals \ {k} : closing[j] = "none"
  <2> DEFINE came == {j \in Signals : closing[j] # "none"}
  <2>1. IsFiniteSet(Signals)
    BY FS_Interval, ServerAssumption DEF Signals
  <2>2. IsFiniteSet(came)
    BY <2>1, FS_Subset
  <2>3. PICK x : came = {x}
    BY <2>2, FS_Singleton
  <2>4. k \in came
    BY <1>1
  <2>. QED
    BY <2>3, <2>4
<1>3. r \in Requests /\ lineIn[r] # NoDate /\ \A q \in Requests : lineIn[q] <= lineIn[r]
  BY DEF LastLines
<1>4. Flushed
  BY <1>1, <1>2, <1>3 DEF LifeInv, ReadyWaited, NoLines
<1>5. LastIn(ending)
  BY <1>1, <1>3 DEF LifeInv, EndedHasLast, Quiet, NoLines
<1>6. lineIn[r] = ending
  <2>1. lineIn[r] \in Nat /\ ending \in Nat
    BY <1>3 DEF LifeInv, LifeTypeOK, Dates, NoDate
  <2>. QED
    BY <1>3, <1>5, <2>1 DEF LastIn
<1>7. lineIn[r] \in files
  BY <1>3 DEF LifeInv, Dated
<1>. QED
  BY <1>3, <1>4, <1>6, <1>7 DEF Flushed

-----------------------------------------------------------------------------
\* For any number of requests, sessions, days and signals: when a server that one
\* signal stopped exits with 0, the lines of the last stream are in their file, or that
\* stream had failed (shutdown, closeAccessLog, pruneOldLogs). It rests on LifeInv: no
\* line is written after closeAccessLog has taken the stream.
THEOREM CleanExitLeavesLog == LifeSpec => []CleanExitKeepsLog
BY LifeInitSafe, LifeStep, CleanExitFollows, PTL DEF LifeSpec

\* Everything the server process keeps is of its type.
THEOREM LifeTypesHold == LifeSpec => []LifeTypeOK
<1>1. LifeInv => LifeTypeOK
  BY DEF LifeInv
<1>. QED
  BY LifeInitSafe, LifeStep, <1>1, PTL DEF LifeSpec

-----------------------------------------------------------------------------
\* ContactsPage.

Someone == PageIds \cup {NoId}
FlightTypes ==
  [op : {"none", "get", "save", "photo", "tell", "merge", "new"}, id : Someone, other : Someone,
   from : Someone, photo : 0..MaxPhoto, at : {"page", "server", "back"}]

\* What is known of a request x while `current` is the current contact. One that carries an
\* edit goes to the contact whose form was shown when it was sent: this is what
\* EditsGoWhereShown lacks to be inductive, since what lands was aimed long before, and
\* the form may have been built anew. And every request names a contact by the
\* time somebody looks at it, as does the page once one was loaded or a photo sent.
FlightSound(x, current) ==
  /\ x \in FlightTypes
  /\ x.op \in {"save", "tell"} /\ x.at = "server" => x.id = x.from
  /\ x.op # "none" /\ (x.op = "new" => x.at # "server") => x.id # NoId
  /\ x.op \in {"get", "photo"} => current # NoId

PartsTyped ==
  /\ photo \in [PageIds -> 0..MaxPhoto] /\ there \subseteq PageIds /\ tombstone \subseteq there
  /\ currentId \in Someone /\ form \in [of : Someone, photo : 0..MaxPhoto] /\ uploads \in 0..MaxPhoto
  /\ form.of # NoId => currentId # NoId

FlightsSound ==
  /\ flight \in [Flights -> FlightTypes]
  /\ \A i \in Flights : FlightSound(flight[i], currentId)

PageInv == PartsTyped /\ FlightsSound /\ EditsGoWhereShown

LEMMA PageInvTyped == PageInv => PageTypeOK
BY DEF PageInv, PartsTyped, FlightsSound, PageTypeOK, Someone, FlightTypes

LEMMA FreeTyped == Free \in FlightTypes
BY PageAssumption DEF Free, FlightTypes, Someone

LEMMA FreeSound == ASSUME NEW c PROVE FlightSound(Free, c)
BY FreeTyped DEF FlightSound, Free

LEMMA GetSound ==
  ASSUME NEW e \in PageIds, NEW f \in Someone
  PROVE  FlightSound(Get(e), e) /\ FlightSound([Get(e) EXCEPT !.from = f, !.at = "server"], e)
<1> DEFINE g == Get(e)
<1>1. Free \in FlightTypes /\ e \in Someone /\ e # NoId
  BY FreeTyped, PageAssumption DEF Someone
<1>2. g \in FlightTypes
  BY <1>1 DEF Get, FlightTypes
<1>3. g.op = "get" /\ g.id = e /\ g.at = "server"
  BY <1>1 DEF Get, FlightTypes
<1> HIDE DEF g
<1>4. FlightSound(g, e)
  BY <1>1, <1>2, <1>3 DEF FlightSound
<1>5. FlightSound([g EXCEPT !.from = f, !.at = "server"], e)
  BY <1>1, <1>2, <1>3 DEF FlightSound, FlightTypes
<1>. QED
  BY <1>4, <1>5 DEF g

\* One request changes, the page may turn to another contact, and the other requests are as
\* sound as before.
LEMMA OneFlight ==
  ASSUME FlightsSound, NEW i \in Flights, NEW y, FlightSound(y, currentId'),
         flight' = [flight EXCEPT ![i] = y], currentId # NoId => currentId' # NoId
  PROVE  FlightsSound'
<1>1. flight' \in [Flights -> FlightTypes]
  BY DEF FlightsSound, FlightSound
<1>2. ASSUME NEW j \in Flights
      PROVE  FlightSound(flight'[j], currentId')
  <2>1. CASE j = i
    BY <2>1 DEF FlightsSound
  <2>2. CASE j # i
    <3>1. flight'[j] = flight[j] /\ FlightSound(flight[j], currentId)
      BY <2>2 DEF FlightsSound
    <3>. QED
      BY <3>1 DEF FlightSound
  <2>. QED
    BY <2>1, <2>2
<1>. QED
  BY <1>1, <1>2 DEF FlightsSound

\* A request the page sends: an edit has to name the contact of the form.
LEMMA SendSound ==
  ASSUME PageInv, NEW i \in Flights, NEW x \in FlightTypes, Send(i, x), currentId' = currentId,
         x.op \notin {"none", "get"},
         x.op \in {"save", "tell"} => x.id = form.of,
         x.op # "new" => x.id # NoId,
         x.op = "photo" => currentId # NoId,
         uploads' \in 0..MaxPhoto
  PROVE  PageInv'
<1> DEFINE y == [x EXCEPT !.from = form.of, !.at = "server"]
<1>1. flight' = [flight EXCEPT ![i] = y]
  BY DEF Send
<1>2. FlightSound(y, currentId')
  BY DEF PageInv, PartsTyped, FlightTypes, FlightSound
<1> HIDE DEF y
<1>3. FlightsSound'
  BY <1>1, <1>2, OneFlight DEF PageInv
<1>4. PartsTyped'
  BY DEF PageInv, PartsTyped, Send
<1>. QED
  BY <1>3, <1>4 DEF PageInv, EditsGoWhereShown, Send

\* What the server or a failure does to a request, with the page left alone.
LEMMA AnswerSound ==
  ASSUME PageInv, NEW i \in Flights, NEW y, FlightSound(y, currentId),
         flight' = [flight EXCEPT ![i] = y], AtServer
  PROVE  FlightsSound'
BY OneFlight DEF PageInv, AtServer

\* An answer on its way back is about the request it answers.
LEMMA BackSound ==
  ASSUME NEW x \in FlightTypes, NEW c, FlightSound(x, c), x.op # "new" \/ x.id # NoId
  PROVE  FlightSound([x EXCEPT !.at = "back"], c)
BY DEF FlightTypes, FlightSound

LEMMA PageStarts == PageInit => PageInv
<1> SUFFICES ASSUME PageInit PROVE PageInv
  OBVIOUS
<1>1. FlightsSound
  BY FreeTyped, FreeSound DEF PageInit, FlightsSound
<1>2. PartsTyped
  BY PageAssumption DEF PageInit, NoForm, Someone, PartsTyped
<1>. QED
  BY <1>1, <1>2 DEF PageInv, EditsGoWhereShown, PageInit

LEMMA UserSteps ==
  ASSUME PageInv, NEW i \in Flights,
         \/ \E e \in PageIds : SelectContact(i, e)
         \/ SaveContact(i) \/ UploadPhoto(i) \/ TellOf(i) \/ NewContact(i)
         \/ \E keep, absorb \in PageIds : MergePair(i, keep, absorb)
  PROVE  PageInv'
<1>1. Free \in FlightTypes /\ form.of \in Someone /\ currentId \in Someone /\ form.photo \in 0..MaxPhoto
      /\ PageIds \subseteq Someone /\ uploads \in 0..MaxPhoto
  BY FreeTyped DEF PageInv, PartsTyped, Someone
<1>2. ASSUME NEW e \in PageIds, SelectContact(i, e)
      PROVE  PageInv'
  <2>1. e # NoId /\ currentId' = e
    BY <1>2, PageAssumption DEF SelectContact
  <2>2. flight' = [flight EXCEPT ![i] = [Get(e) EXCEPT !.from = form.of, !.at = "server"]]
    BY <1>2 DEF SelectContact, Send
  <2>3. FlightsSound'
    BY <1>1, <2>1, <2>2, GetSound, OneFlight DEF PageInv
  <2>4. PartsTyped'
    BY <1>1, <1>2, <2>1 DEF PageInv, PartsTyped, SelectContact, Send
  <2>. QED
    BY <1>2, <2>3, <2>4 DEF PageInv, EditsGoWhereShown, SelectContact, Send
<1>3. ASSUME SaveContact(i)
      PROVE  PageInv'
  <2> DEFINE x == [Free EXCEPT !.op = "save", !.id = SaveTarget, !.photo = form.photo]
  <2>1. x \in FlightTypes /\ x.op = "save" /\ x.id = form.of
    BY <1>1 DEF Free, SaveTarget, FlightTypes
  <2>2. Send(i, x) /\ currentId' = currentId /\ uploads' = uploads /\ form.of # NoId
    BY <1>3 DEF SaveContact
  <2> HIDE DEF x
  <2>. QED
    BY <1>1, <2>1, <2>2, SendSound
<1>4. ASSUME UploadPhoto(i)
      PROVE  PageInv'
  <2> DEFINE x == [Free EXCEPT !.op = "photo", !.id = UploadTarget, !.photo = uploads']
  <2>1. uploads' \in 0..MaxPhoto /\ form.of # NoId /\ currentId # NoId
    BY <1>1, <1>4, PageAssumption DEF UploadPhoto, PageInv, PartsTyped
  <2>2. x \in FlightTypes /\ x.op = "photo" /\ x.id = currentId
    BY <1>1, <2>1 DEF Free, UploadTarget, FlightTypes
  <2>3. Send(i, x) /\ currentId' = currentId
    BY <1>4 DEF UploadPhoto
  <2> HIDE DEF x
  <2>. QED
    BY <2>1, <2>2, <2>3, SendSound
<1>5. ASSUME TellOf(i)
      PROVE  PageInv'
  <2> DEFINE x == [Free EXCEPT !.op = "tell", !.id = form.of]
  <2>1. x \in FlightTypes /\ x.op = "tell" /\ x.id = form.of
    BY <1>1 DEF Free, FlightTypes
  <2>2. Send(i, x) /\ currentId' = currentId /\ uploads' = uploads /\ form.of # NoId
    BY <1>5 DEF TellOf
  <2> HIDE DEF x
  <2>. QED
    BY <1>1, <2>1, <2>2, SendSound
<1>6. ASSUME NewContact(i)
      PROVE  PageInv'
  <2> DEFINE x == [Free EXCEPT !.op = "new"]
  <2>1. x \in FlightTypes /\ x.op = "new"
    BY <1>1 DEF Free, FlightTypes
  <2>2. Send(i, x) /\ currentId' = currentId /\ uploads' = uploads
    BY <1>6 DEF NewContact
  <2> HIDE DEF x
  <2>. QED
    BY <1>1, <2>1, <2>2, SendSound
<1>7. ASSUME NEW keep \in PageIds, NEW absorb \in PageIds, MergePair(i, keep, absorb)
      PROVE  PageInv'
  <2> DEFINE x == [Free EXCEPT !.op = "merge", !.id = keep, !.other = absorb]
  <2>1. x \in FlightTypes /\ x.op = "merge" /\ x.id # NoId
    BY <1>1, PageAssumption DEF Free, FlightTypes
  <2>2. Send(i, x) /\ currentId' = currentId /\ uploads' = uploads
    BY <1>7 DEF MergePair
  <2> HIDE DEF x
  <2>. QED
    BY <1>1, <2>1, <2>2, SendSound
<1>. QED
  BY <1>2, <1>3, <1>4, <1>5, <1>6, <1>7

LEMMA ServerSteps ==
  ASSUME PageInv, NEW i \in Flights,
         ServeProfile(i) \/ ServeEdit(i) \/ ServeMerge(i) \/ ServeNew(i) \/ Fails(i)
  PROVE  PageInv'
<1> DEFINE x == flight[i]
<1>1. x \in FlightTypes /\ FlightSound(x, currentId) /\ PartsTyped /\ EditsGoWhereShown
  BY DEF PageInv, FlightsSound
<1>2. x.id \in Someone /\ x.other \in Someone /\ x.photo \in 0..MaxPhoto
  BY <1>1 DEF FlightTypes
<1>3. ASSUME ServeProfile(i)
      PROVE  PageInv'
  <2> DEFINE y == [x EXCEPT !.photo = photo[x.id]]
  <2>1. x.op = "get" /\ x.id # NoId
    BY <1>1, <1>3 DEF ServeProfile, Sent, FlightSound
  <2>2. photo[x.id] \in 0..MaxPhoto
    BY <1>1, <1>2, <2>1 DEF PartsTyped, Someone
  <2>3. y \in FlightTypes /\ y.op = "get" /\ FlightSound(y, currentId)
    BY <1>1, <2>1, <2>2 DEF FlightSound, FlightTypes
  <2>4. flight' = [flight EXCEPT ![i] = [y EXCEPT !.at = "back"]] /\ AtServer
    BY <1>3 DEF ServeProfile, Back
  <2> HIDE DEF x, y
  <2>5. FlightsSound'
    BY <2>3, <2>4, BackSound, AnswerSound
  <2>6. PartsTyped' /\ EditsGoWhereShown'
    BY <1>1, <1>3 DEF PartsTyped, EditsGoWhereShown, ServeProfile, AtServer
  <2>. QED
    BY <2>5, <2>6 DEF PageInv
<1>4. ASSUME ServeEdit(i)
      PROVE  PageInv'
  <2>1. x.op \in {"save", "photo", "tell"} /\ x.at = "server" /\ x.id \in PageIds
    BY <1>1, <1>4 DEF ServeEdit, Sent, Unfolded, PartsTyped
  <2>2. flight' = [flight EXCEPT ![i] = [x EXCEPT !.at = "back"]] /\ AtServer
    BY <1>4 DEF ServeEdit, Back
  <2>3. FlightsSound'
    BY <1>1, <2>1, <2>2, BackSound, AnswerSound
  <2>4. photo[x.id] \in 0..MaxPhoto
    BY <1>1, <2>1 DEF PartsTyped
  <2>5. photo' \in [PageIds -> 0..MaxPhoto]
    BY <1>1, <1>2, <1>4, <2>1, <2>4 DEF ServeEdit, Patched, PartsTyped
  <2>6. PartsTyped'
    BY <1>1, <1>4, <2>5 DEF PartsTyped, ServeEdit, AtServer
  <2>7. EditsGoWhereShown'
    <3>1. CASE x.op = "photo"
      BY <1>1, <1>4, <3>1 DEF ServeEdit, Land, EditsGoWhereShown
    <3>2. CASE x.op # "photo"
      <4>1. x.id = x.from
        BY <1>1, <2>1, <3>2 DEF FlightSound
      <4>. QED
        BY <1>1, <1>4, <4>1 DEF ServeEdit, Land, EditsGoWhereShown
    <3>. QED
      BY <3>1, <3>2
  <2>. QED
    BY <2>3, <2>6, <2>7 DEF PageInv
<1>5. ASSUME ServeMerge(i)
      PROVE  PageInv'
  <2>1. x.op = "merge" /\ x.other \in there
    BY <1>5 DEF ServeMerge, Sent, Unfolded
  <2>2. flight' = [flight EXCEPT ![i] = [x EXCEPT !.at = "back"]] /\ AtServer
    BY <1>5 DEF ServeMerge, Back
  <2>3. FlightsSound'
    BY <1>1, <2>1, <2>2, BackSound, AnswerSound
  <2>4. PartsTyped' /\ EditsGoWhereShown'
    BY <1>1, <1>5, <2>1 DEF PartsTyped, EditsGoWhereShown, ServeMerge, AtServer
  <2>. QED
    BY <2>3, <2>4 DEF PageInv
<1>6. ASSUME ServeNew(i)
      PROVE  PageInv'
  <2>1. PICK e \in PageIds \ there :
          /\ Sent(i, {"new"}) /\ there' = there \cup {e}
          /\ Back(i, [x EXCEPT !.id = e])
          /\ AtServer /\ UNCHANGED <<photo, tombstone, strayed>>
    BY <1>6 DEF ServeNew
  <2> DEFINE y == [[x EXCEPT !.id = e] EXCEPT !.at = "back"]
  <2>2. x.op = "new" /\ e # NoId
    BY <2>1, PageAssumption DEF Sent
  <2>3. FlightSound(y, currentId)
    BY <1>1, <2>2 DEF FlightSound, FlightTypes, Someone
  <2>4. flight' = [flight EXCEPT ![i] = y]
    BY <2>1 DEF Back
  <2> HIDE DEF x, y
  <2>5. FlightsSound'
    BY <2>1, <2>3, <2>4, AnswerSound
  <2>6. PartsTyped' /\ EditsGoWhereShown'
    BY <1>1, <2>1 DEF PartsTyped, EditsGoWhereShown, AtServer
  <2>. QED
    BY <2>5, <2>6 DEF PageInv
<1>7. ASSUME Fails(i)
      PROVE  PageInv'
  <2>1. FlightsSound'
    BY <1>7, FreeSound, AnswerSound DEF Fails
  <2>2. PartsTyped' /\ EditsGoWhereShown'
    BY <1>1, <1>7 DEF PartsTyped, EditsGoWhereShown, Fails, AtServer
  <2>. QED
    BY <2>1, <2>2 DEF PageInv
<1>. QED
  BY <1>3, <1>4, <1>5, <1>6, <1>7

LEMMA AnswerSteps ==
  ASSUME PageInv, NEW i \in Flights, ShowProfile(i) \/ GoOn(i)
  PROVE  PageInv'
<1> DEFINE x == flight[i]
<1>1. x \in FlightTypes /\ FlightSound(x, currentId) /\ PartsTyped /\ EditsGoWhereShown
  BY DEF PageInv, FlightsSound
<1>2. x.id \in Someone /\ x.photo \in 0..MaxPhoto
  BY <1>1 DEF FlightTypes
<1>3. ASSUME ShowProfile(i)
      PROVE  PageInv'
  <2>1. FlightsSound'
    BY <1>3, FreeSound, OneFlight DEF ShowProfile, PageInv
  <2>2. x.op = "get" /\ currentId # NoId
    BY <1>1, <1>3 DEF ShowProfile, FlightSound
  <2>3. PartsTyped' /\ EditsGoWhereShown'
    BY <1>1, <1>2, <1>3, <2>2 DEF PartsTyped, EditsGoWhereShown, ShowProfile
  <2>. QED
    BY <2>1, <2>3 DEF PageInv
<1>4. ASSUME GoOn(i)
      PROVE  PageInv'
  <2> DEFINE to == IF x.op = "photo" THEN currentId ELSE x.id
  <2>1. x.at = "back" /\ x.op \notin {"none", "get"}
    BY <1>4 DEF GoOn
  <2>2. x.id # NoId /\ (x.op = "photo" => currentId # NoId)
    BY <1>1, <2>1 DEF FlightSound
  <2>3. to \in PageIds /\ to # NoId
    BY <1>1, <1>2, <2>2 DEF PartsTyped, Someone
  <2>4. FlightsSound' /\ currentId' \in {currentId, to}
    <3>1. CASE x.op = "merge" /\ currentId # x.other
      <4>1. flight' = [flight EXCEPT ![i] = Free] /\ currentId' = currentId
        BY <1>4, <3>1 DEF GoOn
      <4>. QED
        BY <4>1, FreeSound, OneFlight DEF PageInv
    <3>2. CASE ~(x.op = "merge" /\ currentId # x.other)
      <4>1. flight' = [flight EXCEPT ![i] = Get(to)] /\ currentId' = to
        BY <1>4, <3>2 DEF GoOn
      <4>2. FlightSound(Get(to), to)
        BY <2>3, GetSound DEF Someone
      <4> HIDE DEF to
      <4>. QED
        BY <2>3, <4>1, <4>2, OneFlight DEF PageInv
    <3>. QED
      BY <3>1, <3>2
  <2>5. PartsTyped' /\ EditsGoWhereShown'
    BY <1>1, <1>4, <2>3, <2>4 DEF PartsTyped, EditsGoWhereShown, GoOn, Someone
  <2>. QED
    BY <2>4, <2>5 DEF PageInv
<1>. QED
  BY <1>3, <1>4

LEMMA PageSteps == PageInv /\ [PageNext]_pageVars => PageInv'
<1> SUFFICES ASSUME PageInv, [PageNext]_pageVars PROVE PageInv'
  OBVIOUS
<1>1. CASE PageNext
  BY <1>1, UserSteps, ServerSteps, AnswerSteps DEF PageNext
<1>2. CASE UNCHANGED pageVars
  BY <1>2 DEF pageVars, PageInv, PartsTyped, FlightsSound, EditsGoWhereShown
<1>. QED
  BY <1>1, <1>2

LEMMA PageInvHolds == PageSpec => []PageInv
BY PageStarts, PageSteps, PTL DEF PageSpec

\* The page's variables and every request under way keep their types.
THEOREM PageTyped == PageSpec => []PageTypeOK
BY PageInvHolds, PageInvTyped, PTL

\* What is typed into a form, or told of the contact it shows, is stored with that contact,
\* for any number of requests under way and however their answers overtake each
\* other (src/public/app.js: saveContact, addAlias, removeAlias, addRelation, removeRelation).
THEOREM EditsLandWhereShown == PageSpec => []EditsGoWhereShown
<1>1. PageInv => EditsGoWhereShown
  BY DEF PageInv
<1>. QED
  BY <1>1, PageInvHolds, PTL

\* Only the route that takes an upload changes a contact's photo (updateEntityAttrs,
\* setEntityPhotoFile): no save, from however old a form, takes it back.
LEMMA UploadsChange ==
  ASSUME PageInv, PageNext, NEW e \in PageIds, photo'[e] # photo[e]
  PROVE  \E i \in Flights : flight[i].op = "photo" /\ flight[i].id = e /\ photo'[e] = flight[i].photo
<1>1. PICK i \in Flights : ServeEdit(i)
  BY DEF PageNext, SelectContact, SaveContact, UploadPhoto, TellOf, NewContact, MergePair, Send,
         ServeProfile, ServeMerge, ServeNew, Fails, ShowProfile, GoOn
<1>2. photo \in [PageIds -> 0..MaxPhoto]
  BY DEF PageInv, PartsTyped
<1>3. flight[i].id = e
  BY <1>1, <1>2 DEF ServeEdit
<1>4. flight[i].op = "photo" /\ photo'[e] = flight[i].photo
  BY <1>1, <1>2, <1>3 DEF ServeEdit, Patched
<1>. QED
  BY <1>3, <1>4

\* A contact's photo changes only by an upload that arrives for that contact, and to the
\* photo that was uploaded, whatever saves from older forms cross it (updateEntityAttrs
\* writes every attribute but the photo, setEntityPhotoFile only the photo).
THEOREM UploadsOnly == PageSpec => SaveKeepsPhoto
<1> DEFINE Kept == \A e \in PageIds : photo'[e] # photo[e] =>
             \E i \in Flights : flight[i].op = "photo" /\ flight[i].id = e /\ photo'[e] = flight[i].photo
<1>1. PageInv /\ [PageNext]_pageVars => [Kept]_pageVars
  BY UploadsChange
<1>. QED
  BY <1>1, PageInvHolds, PTL DEF PageSpec, SaveKeepsPhoto
=============================================================================
