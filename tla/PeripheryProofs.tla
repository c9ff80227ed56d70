---------------------------- MODULE PeripheryProofs ----------------------------
(***************************************************************************)
(* The whole of the periphery. A step of it is a step of the part in focus *)
(* and leaves the others alone, so every part keeps its own specification, *)
(* and what was proved of the part alone holds in the composition.         *)
(***************************************************************************)
EXTENDS Periphery, ConnectorProofs, SearchProofs, RelationGraphProofs, ServerProofs

-----------------------------------------------------------------------------
\* Each part's variables change by steps of that part only.
LEMMA ConnectorsStepAlone ==
  [Next]_allVars => [FeedNext]_feedVars /\ [SpoolNext]_spoolVars /\ [PhotoNext]_photoVars
BY DEF Next, allVars, connectorVars, InFeed, InHooks, InLibrary, InSearch, InGraph, InDigests, InServer, InPage

LEMMA AnswersStepAlone ==
  [Next]_allVars => [SearchNext]_searchVars /\ [RelNext]_relVars /\ [DigestNext]_digestVars
BY DEF Next, allVars, serverVars, InFeed, InHooks, InLibrary, InSearch, InGraph, InDigests, InServer, InPage

LEMMA ServerStepsAlone ==
  [Next]_allVars => [LifeNext]_lifeVars /\ [PageNext]_pageVars
BY DEF Next, allVars, serverVars, InFeed, InHooks, InLibrary, InSearch, InGraph, InDigests, InServer, InPage

-----------------------------------------------------------------------------
\* What is left of each part's specification when fairness is left out, which no safety
\* property needs.
PartSpecs ==
  /\ FeedInit /\ [][FeedNext]_feedVars
  /\ SpoolInit /\ [][SpoolNext]_spoolVars
  /\ PhotoInit /\ [][PhotoNext]_photoVars
  /\ SearchSpec /\ RelSpec /\ DigestSpec
  /\ LifeInit /\ [][LifeNext]_lifeVars
  /\ PageSpec

\* The composition implements each of its parts: putting the others aside takes nothing
\* away from a part and adds nothing to it.
THEOREM PartsAreImplemented == Spec => PartSpecs
<1>1. Init => /\ FeedInit /\ SpoolInit /\ PhotoInit
              /\ SearchInit /\ RelInit /\ DigestInit /\ LifeInit /\ PageInit
  BY DEF Init
<1>. QED
  BY <1>1, ConnectorsStepAlone, AnswersStepAlone, ServerStepsAlone, PTL
     DEF Spec, PartSpecs, SearchSpec, RelSpec, DigestSpec, PageSpec

\* The invariants the parts were proved with hold side by side.
PeripheryInv ==
  /\ FeedInv /\ SpoolInv /\ KillsAreCounted /\ PhotoInv
  /\ SearchInv /\ RelInv /\ ToldInv /\ DigestInv /\ LifeInv /\ PageInv

LEMMA PeripheryStarts == Init => PeripheryInv
BY FeedStarts, SpoolStarts, PhotoStarts, SearchStarts, RelStarts, ToldStarts, DigestStarts, LifeInitSafe,
   PageStarts, KillsStart DEF Init, PeripheryInv

LEMMA PeripherySteps == PeripheryInv /\ [Next]_allVars => PeripheryInv'
<1> SUFFICES ASSUME PeripheryInv, [Next]_allVars PROVE PeripheryInv'
  OBVIOUS
<1>1. (FeedInv /\ SpoolInv /\ KillsAreCounted /\ PhotoInv)'
  BY ConnectorsStepAlone, FeedSteps, SpoolSteps, KillsStep, PhotoSteps DEF PeripheryInv
<1>2. (SearchInv /\ RelInv /\ ToldInv /\ DigestInv)'
  BY AnswersStepAlone, SearchSteps, RelSteps, ToldSteps, DigestSteps DEF PeripheryInv
<1>3. (LifeInv /\ PageInv)'
  BY ServerStepsAlone, LifeStep, PageSteps DEF PeripheryInv
<1>. QED
  BY <1>1, <1>2, <1>3 DEF PeripheryInv

LEMMA PeripheryInvHolds == Spec => []PeripheryInv
BY PeripheryStarts, PeripherySteps, PTL DEF Spec

\* Everything the eight parts keep is of its type, in the composition as in each alone.
THEOREM PeripheryTypesHold == Spec => []TypeOK
<1>1. PeripheryInv => TypeOK
  BY FeedInvTyped, SpoolInvTyped, PhotoInvTyped, SearchInvTyped, RelInvTyped, DigestInvTyped, PageInvTyped
     DEF PeripheryInv, LifeInv, TypeOK
<1>. QED
  BY <1>1, PeripheryInvHolds, PTL

PartsSafe ==
  /\ CursorSafe /\ OnlyOverlapLoses /\ SkippedIsStored
  /\ AnswersOwnQuestion /\ EmptyIsHonest /\ FusionKeepsOrder
  /\ EdgesJoinTheLiving /\ ToldIsLinked /\ FoldedIsTold
  /\ CleanExitKeepsLog /\ EditsGoWhereShown

\* Whichever part moves: no cursor runs ahead, no line is lost but by an overlap, no
\* answer is mixed up, no edge ends nowhere, no row is folded untold, no log is cut short
\* and no edit goes astray.
THEOREM PeripheryStaysSafe == Spec => []PartsSafe
<1>1. FeedInv /\ SpoolInv /\ PhotoInv => CursorSafe /\ OnlyOverlapLoses /\ SkippedIsStored
  BY InvLosesNothing, InvBacked DEF FeedInv
<1>2. SearchInv => AnswersOwnQuestion /\ EmptyIsHonest /\ FusionKeepsOrder
  BY AnswersAreOwn, EmptyFollows, FusionInOrder
<1>3. RelInv /\ ToldInv /\ DigestInv => EdgesJoinTheLiving /\ ToldIsLinked /\ FoldedIsTold
  BY InvLiving, InvTold DEF ToldInv
<1>4. LifeInv /\ PageInv => CleanExitKeepsLog /\ EditsGoWhereShown
  BY CleanExitFollows DEF PageInv
<1>5. PeripheryInv => PartsSafe
  BY <1>1, <1>2, <1>3, <1>4 DEF PeripheryInv, PartsSafe
<1>. QED
  BY <1>5, PeripheryInvHolds, PTL

\* What a step of a part may never do, no step of the whole does, and the photo connector
\* delivers at least once in it.
THEOREM PeripheryKeepsPromises ==
  Spec => PhotosDeliver /\ SmoothRunSettles /\ SaveKeepsPhoto
<1>1. PhotoInit => PhotoPromise!Init
  BY DEF PhotoInit, PhotoPromise!Init, StoredPhotos, SkippedPhotos, Nothing
<1>2. PhotoInit /\ [][PhotoNext]_photoVars => PhotosDeliver
  BY PhotoStarts, PhotoSteps, PhotoDelivery, <1>1, PTL DEF PhotosDeliver, PhotoPromise!Spec
<1>3. SpoolInit /\ [][SpoolNext]_spoolVars => SmoothRunSettles
  BY SmoothHookSettles DEF SpoolSpec
<1>. QED
  BY PartsAreImplemented, <1>2, <1>3, UploadsOnly, PTL DEF PartSpecs
=============================================================================
