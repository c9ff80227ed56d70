------------------------------ MODULE ServerLife ------------------------------
(***************************************************************************)
(* The life of the server process (src/src/server.js): MCP sessions, the   *)
(* responses that are open when a signal comes, and the access log         *)
(* (src/src/access-log.js), a write stream per day whose last lines must   *)
(* be on disk before the process exits.                                    *)
(*                                                                         *)
(* A request is a connection of its own. It is accepted, waits in          *)
(* asynchronous middleware, is handled, and ends; its log line is written  *)
(* when the response has ended. Lines are named by their requests.         *)
(***************************************************************************)
EXTENDS Naturals, FiniteSets

CONSTANTS
  Requests,
  Kind,        \* Kind[r]: what request r asks for
  Of,          \* Of[r]: the initialize request that opened the session r names
  KeepDays,    \* ACCESS_LOG_RETENTION_DAYS, at least one
  MaxDate,     \* bound: UTC dates
  BootDate,    \* the date the process starts on
  MaxSignals   \* bound: SIGINT and SIGTERM

Dates == 1..MaxDate
NoDate == 0
Signals == 1..MaxSignals
Sessionless == {"rest", "initialize"}

ASSUME ServerAssumption ==
  /\ Kind \in [Requests -> Sessionless \cup {"call", "listen", "delete"}]
  /\ Of \in [Requests -> Requests]
  /\ KeepDays \in Nat \ {0} /\ MaxDate \in Nat /\ MaxSignals \in Nat /\ BootDate \in Dates

VARIABLES
  request,   \* request[r]: how far r is
  sessions,  \* activeMcpTransports, by the request that opened them
  listening, \* the listener is open
  date,      \* the clock
  streamOf,  \* streamDate of the open stream, NoDate without one
  lineIn,    \* lineIn[r]: the date of the stream that took r's line
  onDisk,    \* lines that have reached their file
  files,     \* dates of the log files
  failed,      \* dates whose stream has failed
  pruned,    \* pruneOldLogs has run
  ending,    \* date of the stream closeAccessLog ends
  closing,   \* closing[k]: how far the shutdown of the k-th signal is
  exited     \* exit code

lifeVars == <<request, sessions, listening, date, streamOf, lineIn, onDisk, files, failed, pruned, ending,
             closing, exited>>
logVars == <<streamOf, lineIn, files>>

LifeInit ==
  /\ request = [r \in Requests |-> "unsent"] /\ sessions = {} /\ listening = TRUE
  /\ date = BootDate /\ streamOf = NoDate /\ lineIn = [r \in Requests |-> NoDate] /\ onDisk = {}
  /\ files = 1..BootDate /\ failed = {} /\ pruned = FALSE /\ ending = NoDate
  /\ closing = [k \in Signals |-> "none"] /\ exited = "no"

Alive == exited = "no"

-----------------------------------------------------------------------------
\* The `finish` handlers of the requests in R: streamForToday, then write.
Finish(R) ==
  IF R = {} THEN UNCHANGED logVars
  ELSE /\ streamOf' = date
       /\ lineIn' = [r \in Requests |-> IF r \in R THEN date ELSE lineIn[r]]
       /\ files' = files \cup {date}

Answering(S) == {r \in Requests : request[r] = "open" /\ Kind[r] \in {"call", "listen"} /\ Of[r] \in S}

Accept(r) ==
  /\ Alive /\ listening /\ request[r] = "unsent"
  /\ Kind[r] \in Sessionless \/ request[Of[r]] = "ended"
  /\ request' = [request EXCEPT ![r] = "accepted"]
  /\ UNCHANGED <<sessions, listening, date, logVars, onDisk, failed, pruned, ending, closing, exited>>

\* transport.close() on the sessions in S ends what is open on them.
EndOn(S, R) ==
  /\ sessions' = sessions \ S
  /\ request' = [r \in Requests |-> IF r \in R THEN "ended" ELSE request[r]]
  /\ Finish(R)

\* handleMcpPost and handleExistingSession; a session nobody knows is a 400.
Handle(r) ==
  /\ Alive /\ request[r] = "accepted"
  /\ UNCHANGED <<listening, date, onDisk, failed, pruned, ending, closing, exited>>
  /\ \/ /\ Kind[r] \in Sessionless
        /\ request' = [request EXCEPT ![r] = "open"]
        /\ sessions' = sessions \cup {s \in {r} : Kind[s] = "initialize"}
        /\ UNCHANGED logVars
     \/ /\ Kind[r] \in {"call", "listen"} /\ Of[r] \in sessions
        /\ request' = [request EXCEPT ![r] = "open"]
        /\ UNCHANGED <<sessions, logVars>>
     \/ Kind[r] = "delete" /\ Of[r] \in sessions /\ EndOn({Of[r]}, {r} \cup Answering({Of[r]}))
     \/ Kind[r] \notin Sessionless /\ Of[r] \notin sessions /\ EndOn({}, {r})

\* An answer is complete; a notification stream never is.
Answer(r) ==
  /\ Alive /\ request[r] = "open" /\ Kind[r] # "listen"
  /\ EndOn({}, {r})
  /\ UNCHANGED <<listening, date, onDisk, failed, pruned, ending, closing, exited>>

\* The client goes away: no `finish`, and no line.
HangUp(r) ==
  /\ Alive /\ request[r] = "open"
  /\ request' = [request EXCEPT ![r] = "ended"]
  /\ UNCHANGED <<sessions, listening, date, logVars, onDisk, failed, pruned, ending, closing, exited>>

-----------------------------------------------------------------------------
\* A stream flushes what it took; its failure loses what it had not flushed, and all
\* it takes until the day is over, for streamForToday keeps it.
Flush(d) ==
  /\ Alive /\ d \notin failed
  /\ {r \in Requests : lineIn[r] = d} \ onDisk # {}
  /\ onDisk' = onDisk \cup {r \in Requests : lineIn[r] = d}
  /\ UNCHANGED <<request, sessions, listening, date, logVars, failed, pruned, ending, closing, exited>>

Tear ==
  /\ Alive /\ streamOf \notin {NoDate} \cup failed
  /\ failed' = failed \cup {streamOf}
  /\ UNCHANGED <<request, sessions, listening, date, logVars, onDisk, pruned, ending, closing, exited>>

Midnight ==
  /\ Alive /\ date < MaxDate
  /\ date' = date + 1
  /\ UNCHANGED <<request, sessions, listening, logVars, onDisk, failed, pruned, ending, closing, exited>>

\* pruneOldLogs at boot: the cutoff is taken first, the directory is read later.
BadCutoff == BootDate - KeepDays + 2   \* one day too few is kept
Cutoff == BootDate - KeepDays + 1
Prune ==
  /\ Alive /\ ~pruned
  /\ pruned' = TRUE
  /\ files' = {d \in files : d >= Cutoff}
  /\ UNCHANGED <<request, sessions, listening, date, streamOf, lineIn, onDisk, failed, ending, closing, exited>>

-----------------------------------------------------------------------------
\* Definitions named Bad... are faults the code could have had in the definition that
\* follows; they serve to show that a property notices.
BadHungUp == {}   \* open transports are left alone
HungUp == sessions

\* shutdown
Signal(k) ==
  /\ Alive /\ closing[k] = "none" /\ \A j \in Signals : j < k => closing[j] # "none"
  /\ listening' = FALSE
  /\ closing' = [closing EXCEPT ![k] = "draining"]
  /\ EndOn(HungUp, Answering(HungUp))
  /\ UNCHANGED <<date, onDisk, failed, pruned, ending, exited>>

Drained == \A r \in Requests : request[r] \in {"unsent", "ended"}

\* server.close calls back once every connection has ended: closeAccessLog. Only the
\* first call finds a stream to wait for.
BadAwaited(k) == FALSE   \* closeAccessLog() without await
Awaited(k) == streamOf # NoDate
CloseLog(k) ==
  /\ Alive /\ closing[k] = "draining" /\ Drained
  /\ \A j \in Signals : j < k => closing[j] # "draining"
  /\ closing' = [closing EXCEPT ![k] = IF Awaited(k) THEN "flushing" ELSE "ready"]
  /\ streamOf' = NoDate
  /\ ending' = IF streamOf # NoDate THEN streamOf ELSE ending
  /\ UNCHANGED <<request, sessions, listening, date, lineIn, onDisk, files, failed, pruned, exited>>

Flushed == ending \in failed \/ {r \in Requests : lineIn[r] = ending} \subseteq onDisk
LogClosed(k) ==
  /\ Alive /\ closing[k] = "flushing" /\ Flushed
  /\ closing' = [closing EXCEPT ![k] = "ready"]
  /\ UNCHANGED <<request, sessions, listening, date, logVars, onDisk, failed, pruned, ending, exited>>

ExitClean ==
  /\ Alive /\ \E k \in Signals : closing[k] = "ready"
  /\ exited' = "0"
  /\ UNCHANGED <<request, sessions, listening, date, logVars, onDisk, failed, pruned, ending, closing>>

\* The 10 s timer.
ExitForced ==
  /\ Alive /\ \E k \in Signals : closing[k] # "none"
  /\ exited' = "1"
  /\ UNCHANGED <<request, sessions, listening, date, logVars, onDisk, failed, pruned, ending, closing>>

ServerGone == ~Alive /\ UNCHANGED lifeVars

Shut == \E k \in Signals : CloseLog(k) \/ LogClosed(k)
Serve == \E r \in Requests : Handle(r) \/ Answer(r)
Writes == \E d \in Dates : Flush(d)

LifeNext ==
  \/ \E r \in Requests : Accept(r) \/ Handle(r) \/ Answer(r) \/ HangUp(r)
  \/ Writes \/ Tear \/ Midnight \/ Prune
  \/ \E k \in Signals : Signal(k)
  \/ Shut \/ ExitClean \/ ExitForced \/ ServerGone
\* Handlers, disk and callbacks make progress; clients, the clock, signals and the
\* timer promise nothing.
LifeFairness == WF_lifeVars(Serve) /\ WF_lifeVars(Writes) /\ WF_lifeVars(Shut) /\ WF_lifeVars(ExitClean)
LifeSpec == LifeInit /\ [][LifeNext]_lifeVars /\ LifeFairness

-----------------------------------------------------------------------------
LifeTypeOK ==
  /\ request \in [Requests -> {"unsent", "accepted", "open", "ended"}]
  /\ sessions \subseteq Requests /\ listening \in BOOLEAN /\ date \in Dates
  /\ streamOf \in Dates \cup {NoDate} /\ lineIn \in [Requests -> Dates \cup {NoDate}]
  /\ onDisk \subseteq Requests /\ files \subseteq Dates /\ failed \subseteq Dates /\ pruned \in BOOLEAN
  /\ ending \in Dates \cup {NoDate}
  /\ closing \in [Signals -> {"none", "draining", "flushing", "ready"}]
  /\ exited \in {"no", "0", "1"}

LastLines == {r \in Requests : lineIn[r] # NoDate /\ \A q \in Requests : lineIn[q] <= lineIn[r]}
\* After a shutdown by one signal every request that ended has its line in a log file,
\* up to those it hung up on, a stream that failed, and a line written just before
\* midnight: ending the old day's stream is waited for by nobody (shutdown,
\* closeAccessLog, pruneOldLogs). A second signal finds no stream any more and exits
\* before the first one's flush is done.
CleanExitKeepsLog ==
  exited = "0" /\ Cardinality({k \in Signals : closing[k] # "none"}) = 1 =>
    \A r \in LastLines : lineIn[r] \in failed \/ (r \in onDisk /\ lineIn[r] \in files)

\* A signal ends the process by itself, however many notification streams are open and
\* whatever requests are under way: the timer is never needed (shutdown).
ShutdownEnds == closing[1] # "none" ~> exited # "no"
=============================================================================
