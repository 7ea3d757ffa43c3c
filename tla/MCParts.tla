------------------------------ MODULE MCParts ------------------------------
(***************************************************************************)
(* The components the user sees and the small services, each alone: a        *)
(* behaviour is one of the component picked at the start, the others stay as *)
(* they are.  The fairness of a component that was not picked asks nothing:  *)
(* none of its actions under fairness is enabled initially.                  *)
(***************************************************************************)
EXTENDS BannerAd, InterstitialAd, NativeAd, MediaView, UserAgent, RemoteLogs, UrlOpening

VARIABLE part  \* the component picked

Parts == {"banner", "interstitial", "native", "media", "agent", "logs", "url"}

partsVars == << part, bannerVars, interstitialVars, nativeVars, mediaVars, agentVars,
                logVars, urlVars >>

MCInit ==
    /\ part \in Parts
    /\ BannerInit /\ InterstitialInit /\ NativeInit /\ MediaInit /\ AgentInit /\ LogInit /\ UrlInit

MCNext ==
    /\ UNCHANGED part
    /\ \/ /\ part = "banner"
          /\ BannerNext
          /\ UNCHANGED << interstitialVars, nativeVars, mediaVars, agentVars, logVars, urlVars >>
       \/ /\ part = "interstitial"
          /\ InterstitialNext
          /\ UNCHANGED << bannerVars, nativeVars, mediaVars, agentVars, logVars, urlVars >>
       \/ /\ part = "native"
          /\ NativeNext
          /\ UNCHANGED << bannerVars, interstitialVars, mediaVars, agentVars, logVars, urlVars >>
       \/ /\ part = "media"
          /\ MediaNext
          /\ UNCHANGED << bannerVars, interstitialVars, nativeVars, agentVars, logVars, urlVars >>
       \/ /\ part = "agent"
          /\ AgentNext
          /\ UNCHANGED << bannerVars, interstitialVars, nativeVars, mediaVars, logVars, urlVars >>
       \/ /\ part = "logs"
          /\ LogNext
          /\ UNCHANGED << bannerVars, interstitialVars, nativeVars, mediaVars, agentVars, urlVars >>
       \/ /\ part = "url"
          /\ UrlNext
          /\ UNCHANGED << bannerVars, interstitialVars, nativeVars, mediaVars, agentVars, logVars >>

MCSpec ==
    /\ MCInit
    /\ [][MCNext]_partsVars
    /\ BannerFairness
    /\ InterstitialFairness
    /\ NativeFairness
    /\ AgentFairness

\* One large record, the others small.
MCSizeOf == [r \in LogRecords |-> IF r = CHOOSE s \in LogRecords : TRUE THEN 2 ELSE 1]

\* The variables of every component have their types.
PartsTypeOK ==
    /\ BannerTypeOK
    /\ InterstitialTypeOK
    /\ NativeTypeOK
    /\ MediaTypeOK
    /\ AgentTypeOK
    /\ LogTypeOK
    /\ UrlTypeOK
=============================================================================
