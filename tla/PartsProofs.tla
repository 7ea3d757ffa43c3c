---------------------------- MODULE PartsProofs ----------------------------
(***************************************************************************)
(* The specification the run parts checks implements the specification of  *)
(* each component, of which AdProofs and ServiceProofs prove the theorems:  *)
(* whatever those say of a component holds of it inside MCParts.            *)
(***************************************************************************)
EXTENDS MCParts, AdProofs, ServiceProofs

\* A step of one component leaves the others as they are.
LEMMA OnePartMoves ==
    [MCNext]_partsVars =>
        /\ [BannerNext]_bannerVars
        /\ [InterstitialNext]_interstitialVars
        /\ [NativeNext]_nativeVars
        /\ [MediaNext]_mediaVars
        /\ [AgentNext]_agentVars
        /\ [LogNext]_logVars
        /\ [UrlNext]_urlVars
BY DEF MCNext, partsVars

\* A behaviour of MCParts is a behaviour of every component, the steps of the others
\* being stutters of it.
THEOREM PartsImplementComponents ==
    MCSpec => /\ BannerSpec
              /\ InterstitialSpec
              /\ NativeSpec
              /\ MediaSpec
              /\ AgentSpec
              /\ LogSpec
              /\ UrlSpec
BY OnePartMoves, PTL
   DEF MCSpec, MCInit, BannerSpec, InterstitialSpec, NativeSpec, MediaSpec, AgentSpec, LogSpec,
       UrlSpec

\* The variables of every component keep their types (PartsTypeOK).
THEOREM PartsTypeCorrect == MCSpec => []PartsTypeOK
<1>1. /\ BannerTypeOK /\ InterstitialTypeOK /\ NativeTypeOK /\ MediaTypeOK /\ AgentTypeOK
      /\ LogTypeOK /\ UrlTypeOK
      => PartsTypeOK
  BY DEF PartsTypeOK
<1> QED
  BY <1>1, PartsImplementComponents, BannerTypeCorrect, InterstitialTypeCorrect,
     NativeTypeCorrect, MediaTypeCorrect, AgentTypeCorrect, LogTypeCorrect, UrlTypeCorrect, PTL

\* What the run checks holds for any bounds: every invariant of its components, each of
\* which is a theorem of AdProofs or ServiceProofs about that component.
THEOREM PartsAreSafe ==
    MCSpec => [](/\ StateMatchesView /\ ClosingIsBacked
                 /\ LoadedAdHasWebView /\ CanAlwaysClose /\ LoadingIsBacked
                 /\ ImpressedAtMostOnce /\ DetectsWhileNeeded
                 /\ ImageIsOfContent
                 /\ WaitingIsBacked /\ RunsOnce
                 /\ RecordsAreKept /\ QueueIsBounded
                 /\ OpenedOnce /\ StoreOnScreenIsKnown)
BY PartsImplementComponents, StateTellsTheView, ClosingIsCompleted, LoadedIsThere, CloseButtonWorks,
   NothingLoadsForEver, BilledOnce, DetectionFollowsTheAd, RightImage, NoLostWakeUp,
   BlocksRunOnce, NoRecordForgotten, QueueStaysBounded, ClickOpensOnce, StoreIsKnown, PTL

=============================================================================
