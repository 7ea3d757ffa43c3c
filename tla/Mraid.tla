------------------------------- MODULE Mraid -------------------------------
(***************************************************************************)
(* CRMRAIDHandler: the state the native side keeps of an MRAID ad, and the *)
(* blocks it posts with a delay.  A banner (BannerAd) extends this module, an   *)
(* interstitial (InterstitialAd) instantiates it for a handler of its own.  *)
(*                                                                         *)
(* Everything here runs on the main thread: one callback is one step.  The *)
(* script of the ad may post any message at any time, for the handler is    *)
(* what decides; whatever mraid.js refuses on its side is outside src/.     *)
(***************************************************************************)
EXTENDS Integers, Sequences

CONSTANT MaxBlocks  \* bound: delayed blocks of one kind

ASSUME MraidBounds == MaxBlocks \in Nat

VARIABLES
    state,        \* CRMRAIDHandler.state
    loadBlocks,   \* blocks onAdLoad posted for 0.2 s later, not run yet
    expandBlocks  \* blocks didReceive(expand) posted for 0.05 s later, not run yet

mraidVars == << state, loadBlocks, expandBlocks >>

MRAIDState == {"loading", "default", "expanded", "resized", "hidden"}

MraidTypeOK ==
    /\ state \in MRAIDState
    /\ loadBlocks \in Nat
    /\ expandBlocks \in Nat

MraidInit ==
    /\ state = "loading"
    /\ loadBlocks = 0
    /\ expandBlocks = 0

\* onAdLoad posts a block that calls the ad ready, whatever happens meanwhile.
OnAdLoad ==
    /\ loadBlocks < MaxBlocks
    /\ loadBlocks' = loadBlocks + 1

\* What onSuccessClose makes of the state s.
ClosedIfResized(s) == IF s = "resized" THEN "default" ELSE s
ClosedIfExpanded(s) == IF s = "expanded" THEN "default" ELSE "hidden"
OnSuccessClose(s) == IF s \in {"expanded", "resized"} THEN "default" ELSE "hidden"

CanLoadAd == state # "expanded"

IsExpanded == state = "expanded"

\* didReceiveCloseAction's guard.
MayClose == state \in {"default", "expanded"}

\* The block of onAdLoad: the state is default from now on, whatever it was.
OnAdLoadBlock ==
    /\ loadBlocks > 0
    /\ loadBlocks' = loadBlocks - 1
    /\ state' = "default"
    /\ UNCHANGED expandBlocks

\* The block of didReceive(expand).
ExpandBlock ==
    /\ expandBlocks > 0
    /\ expandBlocks' = expandBlocks - 1
    /\ state' = "expanded"
    /\ UNCHANGED loadBlocks
=============================================================================
