------------------------------ MODULE HookSpool ------------------------------
(***************************************************************************)
(* The Claude Code hooks (src/connectors/gh-event-claude,                  *)
(* src/connectors/devsession-claude). Each event starts a process of its   *)
(* own, which sends what earlier processes left in the spool file, then    *)
(* its own event, and leaves that in the spool when the server cannot be   *)
(* reached. The spool is read, sent line by line and rewritten with awaits *)
(* in between, and the harness may run two hooks at a time or kill one.    *)
(*                                                                         *)
(* Hooks are numbered in the order in which they fire, and a number also   *)
(* stands for the payload of its event. A file is read or written in one   *)
(* step, but for a kill in the middle of writeFile.                        *)
(***************************************************************************)
EXTENDS Naturals, Sequences, SequencesExt, FiniteSets

CONSTANTS
  MaxHook,        \* bound: hooks that fire
  SourceId,       \* SourceId[h]: the source_id of the payload of hook h
  MaxKills        \* bound: hooks that are killed

Hooks == 1..MaxHook
SourceIds == Range(SourceId)

ASSUME HookAssumption ==
  /\ MaxHook \in Nat /\ MaxKills \in Nat
  /\ DOMAIN SourceId = Hooks

VARIABLES
  spool,      \* the lines of the spool file
  hook,       \* hook[h]: the memory of process h
  held,       \* held[s]: the payload the server keeps for source_id s, 0 if none
  taken,      \* the payloads the server stored at some time
  appended,   \* those put in the spool at some time
  exposed,    \* those put there while another process had read it and not yet rewritten it
  torn,       \* those in the file while a kill tore it
  kills

spoolVars == <<spool, hook, held, taken, appended, exposed, torn, kills>>

Stages == {"off", "read", "flush", "rewrite", "capture", "post", "append", "done"}
Running(h) == hook[h].pc \notin {"off", "done"}
At(h, pc) == [hook EXCEPT ![h].pc = pc]

SpoolInit ==
  /\ spool = << >> /\ taken = {} /\ appended = {} /\ exposed = {} /\ torn = {} /\ kills = 0
  /\ hook = [h \in Hooks |-> [pc |-> "off", lines |-> << >>, kept |-> << >>, smooth |-> TRUE]]
  /\ held = [s \in SourceIds |-> 0]

\* Ingest is an upsert: the server keeps the payload that came last.
Store(h) ==
  /\ held' = [held EXCEPT ![SourceId[h]] = h]
  /\ taken' = taken \cup {h}

BadFirstStage == "capture"     \* the hook's own event first, the spool another time
FirstStage == "read"

\* A hook that finds another one running has company; so has the other.
Fire(h) ==
  LET company == {g \in Hooks : Running(g)} IN
  /\ hook[h].pc = "off" /\ \A g \in 1..(h - 1) : hook[g].pc # "off"
  /\ hook' = [g \in Hooks |->
                IF g = h THEN [hook[g] EXCEPT !.pc = FirstStage, !.smooth = company = {}]
                ELSE IF g \in company THEN [hook[g] EXCEPT !.smooth = FALSE]
                ELSE hook[g]]
  /\ UNCHANGED <<spool, held, taken, appended, exposed, torn, kills>>

\* flushSpool: without a file there is nothing to send, and nothing to rewrite.
ReadSpool(h) ==
  /\ hook[h].pc = "read"
  /\ hook' = [hook EXCEPT ![h].lines = spool,
                          ![h].pc = IF spool = << >> THEN "capture" ELSE "flush"]
  /\ UNCHANGED <<spool, held, taken, appended, exposed, torn, kills>>

\* Definitions named Bad... are faults the code could have had in the definition that
\* follows; they serve to show that a property notices.
BadKept(h, ok) == hook[h].kept   \* a line that was tried is gone, sent or not
Kept(h, ok) == IF ok THEN hook[h].kept ELSE Append(hook[h].kept, Head(hook[h].lines))

FlushLine(h) ==
  LET left == Tail(hook[h].lines) IN
  /\ hook[h].pc = "flush"
  /\ \E ok \in BOOLEAN :
       /\ IF ok THEN Store(Head(hook[h].lines)) ELSE UNCHANGED <<held, taken>>
       /\ hook' = [hook EXCEPT ![h].lines = left, ![h].kept = Kept(h, ok),
                               ![h].smooth = @ /\ ok,
                               ![h].pc = IF left = << >> THEN "rewrite" ELSE "flush"]
  /\ UNCHANGED <<spool, appended, exposed, torn, kills>>

\* The lines that failed are written back over the file, or the file is removed.
Rewrite(h) ==
  /\ hook[h].pc = "rewrite"
  /\ spool' = hook[h].kept
  /\ hook' = At(h, "capture")
  /\ UNCHANGED <<held, taken, appended, exposed, torn, kills>>

\* The session is summarised, or the preview stands in for a summary; a session
\* without a user turn has nothing to remember.
Capture(h) ==
  /\ hook[h].pc = "capture"
  /\ \E pc \in {"post", "done"} : hook' = At(h, pc)
  /\ UNCHANGED <<spool, held, taken, appended, exposed, torn, kills>>

PostOwn(h) ==
  /\ hook[h].pc = "post"
  /\ \/ /\ Store(h)
        /\ hook' = At(h, "done")
     \/ /\ hook' = [hook EXCEPT ![h].pc = "append", ![h].smooth = FALSE]
        /\ UNCHANGED <<held, taken>>
  /\ UNCHANGED <<spool, appended, exposed, torn, kills>>

AppendOwn(h) ==
  /\ hook[h].pc = "append"
  /\ spool' = Append(spool, h)
  /\ appended' = appended \cup {h}
  /\ hook' = At(h, "done")
  /\ exposed' = IF \E g \in Hooks : hook[g].pc \in {"flush", "rewrite"}
                THEN exposed \cup {h} ELSE exposed
  /\ UNCHANGED <<held, taken, torn, kills>>

\* The harness does not wait for a hook. Inside writeFile a kill leaves what was
\* written so far.
Kill(h) ==
  /\ Running(h) /\ kills < MaxKills
  /\ kills' = kills + 1
  /\ hook' = At(h, "done")
  /\ \/ UNCHANGED <<spool, torn>>
     \/ /\ hook[h].pc = "rewrite"
        /\ \E n \in 0..Len(hook[h].kept) : spool' = SubSeq(hook[h].kept, 1, n)
        /\ torn' = torn \cup Range(hook[h].kept)
  /\ UNCHANGED <<held, taken, appended, exposed>>

Run(h) ==
  \/ Fire(h) \/ ReadSpool(h) \/ FlushLine(h) \/ Rewrite(h)
  \/ Capture(h) \/ PostOwn(h) \/ AppendOwn(h)
SpoolNext == \E h \in Hooks : Run(h) \/ Kill(h)
SpoolSpec == SpoolInit /\ [][SpoolNext]_spoolVars
-----------------------------------------------------------------------------
SpoolTypeOK ==
  /\ spool \in Seq(Hooks)
  /\ \A h \in Hooks :
       /\ hook[h].pc \in Stages /\ hook[h].smooth \in BOOLEAN
       /\ hook[h].lines \in Seq(Hooks) /\ hook[h].kept \in Seq(Hooks)
  /\ held \in [SourceIds -> 0..MaxHook]
  /\ taken \subseteq Hooks /\ appended \subseteq Hooks /\ exposed \subseteq Hooks /\ torn \subseteq Hooks

\* What was put in the spool reached the server or is still in the file, unless the
\* process that put it there did so between another's read and rewrite, or a kill tore
\* the rewrite: whatever requests fail, in whatever order several hooks read, send and
\* rewrite one file, no line is dropped unsent and none is lost to a hook that only ended.
OnlyOverlapLoses ==
  \A h \in appended : h \in taken \cup Range(spool) \cup exposed \cup torn

\* A hook that ran alone and was never refused leaves nothing behind and its own payload
\* on the server, after every older one for the same source_id: old lines go first
\* (main: flushSpool, then postIngest).
SmoothRunSettles ==
  [][\A h \in Hooks :
       hook[h].pc = "post" /\ hook[h].smooth /\ hook'[h].pc = "done" /\ kills' = kills
         => spool' = << >> /\ held'[SourceId[h]] = h]_spoolVars
=============================================================================
