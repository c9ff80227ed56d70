------------------------------- MODULE Periphery -------------------------------
(***************************************************************************)
(* The parts around the store that share no state with one another: each   *)
(* keeps files, a process, a page or tables of its own. A behaviour of     *)
(* this model is one of the part that is `inFocus`, with the others put.   *)
(***************************************************************************)
EXTENDS MessageFeed, HookSpool, PhotoLibrary, SearchSession, RelationGraph, Consolidation,
        ServerLife, ContactsPage

VARIABLE inFocus

connectorVars == <<feedVars, spoolVars, photoVars>>
serverVars == <<searchVars, relVars, digestVars, lifeVars, pageVars>>
allVars == <<inFocus, connectorVars, serverVars>>

Init ==
  /\ inFocus \in {"imessage", "hooks", "photos", "search", "relations", "digests", "server", "page"}
  /\ FeedInit /\ SpoolInit /\ PhotoInit
  /\ SearchInit /\ RelInit /\ DigestInit /\ LifeInit /\ PageInit

\* Hooks fire only so often in a bounded model; that is an end, no deadlock.
HooksOver == \A h \in Hooks : hook[h].pc = "done"

InFeed(A) == inFocus = "imessage" /\ A /\ UNCHANGED <<inFocus, spoolVars, photoVars, serverVars>>
InHooks(A) == inFocus = "hooks" /\ A /\ UNCHANGED <<inFocus, feedVars, photoVars, serverVars>>
InLibrary(A) == inFocus = "photos" /\ A /\ UNCHANGED <<inFocus, feedVars, spoolVars, serverVars>>
InSearch(A) ==
  inFocus = "search" /\ A /\ UNCHANGED <<inFocus, connectorVars, relVars, digestVars, lifeVars, pageVars>>
InGraph(A) ==
  inFocus = "relations" /\ A /\ UNCHANGED <<inFocus, connectorVars, searchVars, digestVars, lifeVars, pageVars>>
InDigests(A) ==
  inFocus = "digests" /\ A /\ UNCHANGED <<inFocus, connectorVars, searchVars, relVars, lifeVars, pageVars>>
InServer(A) ==
  inFocus = "server" /\ A /\ UNCHANGED <<inFocus, connectorVars, searchVars, relVars, digestVars, pageVars>>
InPage(A) ==
  inFocus = "page" /\ A /\ UNCHANGED <<inFocus, connectorVars, searchVars, relVars, digestVars, lifeVars>>

Next ==
  \/ InFeed(FeedNext) \/ InLibrary(PhotoNext)
  \/ InHooks(SpoolNext) \/ InHooks(HooksOver /\ UNCHANGED spoolVars)
  \/ InSearch(SearchNext) \/ InGraph(RelNext) \/ InDigests(DigestNext)
  \/ InServer(LifeNext) \/ InPage(PageNext)

\* FeedFairness, PhotoFairness and LifeFairness, for the part that is in focus.
Fairness ==
  /\ \A p \in Readers : WF_allVars(InFeed(Pass(p)))
  /\ WF_allVars(InLibrary(Work))
  /\ SF_allVars(InLibrary(StartCaption)) /\ SF_allVars(InLibrary(StartFaces))
  /\ WF_allVars(InServer(Serve)) /\ WF_allVars(InServer(Writes))
  /\ WF_allVars(InServer(Shut)) /\ WF_allVars(InServer(ExitClean))

Spec == Init /\ [][Next]_allVars /\ Fairness
-----------------------------------------------------------------------------
\* Everything the parts keep is of its type.
TypeOK ==
  /\ FeedTypeOK /\ SpoolTypeOK /\ PhotoTypeOK
  /\ SearchTypeOK /\ RelTypeOK /\ DigestTypeOK /\ LifeTypeOK /\ PageTypeOK
=============================================================================
