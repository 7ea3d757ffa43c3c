------------------------------ MODULE NativeAd ------------------------------
(***************************************************************************)
(* Native advertising: a CRNativeLoader that asks for ads and hands them to *)
(* its delegate, and the CRNativeAdViews the application shows them in, each *)
(* with a CR_ImpressionDetector whose timer looks for the first moment the   *)
(* ad is visible.  An application recycles its views: one view shows many    *)
(* ads, and one ad is shown in several views.                                *)
(*                                                                         *)
(* Views live on the main thread: a callback is one step.                    *)
(***************************************************************************)
EXTENDS Naturals

CONSTANTS NativeAds, NativeViews, NoAd

ASSUME NoAdIsNoAd == NoAd \notin NativeAds

VARIABLES
    delegateSet,  \* the weak delegate of the loader is there and implements didReceiveAd
    ad,           \* how far each ad got: the load that asked for it, the block that hands it over
    impressed,    \* CRNativeAd.isImpressed
    pixels,       \* history: times the impression pixels of the ad were sent
    alive,        \* the view has not been deallocated
    nativeAd,     \* CRNativeAdView.nativeAd
    visible,      \* isViewVisible
    ticking       \* the timer of the view's detector is scheduled

nativeVars == << delegateSet, ad, impressed, pixels, alive, nativeAd, visible, ticking >>

NativeTypeOK ==
    /\ delegateSet \in BOOLEAN
    /\ ad \in [NativeAds -> {"none", "asked", "posted", "received", "lost"}]
    /\ impressed \in [NativeAds -> BOOLEAN]
    /\ pixels \in [NativeAds -> Nat]
    /\ alive \in [NativeViews -> BOOLEAN]
    /\ nativeAd \in [NativeViews -> NativeAds \cup {NoAd}]
    /\ visible \in [NativeViews -> BOOLEAN]
    /\ ticking \in [NativeViews -> BOOLEAN]

NativeInit ==
    /\ delegateSet = FALSE
    /\ ad = [a \in NativeAds |-> "none"]
    /\ impressed = [a \in NativeAds |-> FALSE]
    /\ pixels = [a \in NativeAds |-> 0]
    /\ alive = [v \in NativeViews |-> TRUE]
    /\ nativeAd = [v \in NativeViews |-> NoAd]
    /\ visible = [v \in NativeViews |-> FALSE]
    /\ ticking = [v \in NativeViews |-> FALSE]

(***************************************************************************)
(* The loader.                                                             *)
(***************************************************************************)

\* The application sets the delegate, or lets it go.
DelegateChanges ==
    /\ delegateSet' = ~delegateSet
    /\ UNCHANGED << ad, impressed, pixels, alive, nativeAd, visible, ticking >>

\* unsafeLoadAdWithContext: no bid is consumed for a loader nobody listens to.
LoadNative(a) ==
    /\ delegateSet
    /\ ad[a] = "none"
    /\ ad' = [ad EXCEPT ![a] = "asked"]
    /\ UNCHANGED << delegateSet, impressed, pixels, alive, nativeAd, visible, ticking >>

\* loadAdWithCdbBid: a bid with native assets becomes an ad, anything else a failure.
NativeBidArrives(a) ==
    /\ ad[a] = "asked"
    /\ \E outcome \in {"posted", "lost"} : ad' = [ad EXCEPT ![a] = outcome]
    /\ UNCHANGED << delegateSet, impressed, pixels, alive, nativeAd, visible, ticking >>

\* unsafeLoadAdWithBid: the bid is there already, or was consumed before.
LoadNativeWithBid(a) ==
    /\ delegateSet
    /\ ad[a] = "none"
    /\ \E outcome \in {"posted", "lost"} : ad' = [ad EXCEPT ![a] = outcome]
    /\ UNCHANGED << delegateSet, impressed, pixels, alive, nativeAd, visible, ticking >>

\* The block of notifyDidReceiveAd looks for the delegate again.
NotifyDidReceiveAd(a) ==
    /\ ad[a] = "posted"
    /\ ad' = [ad EXCEPT ![a] = IF delegateSet THEN "received" ELSE "lost"]
    /\ UNCHANGED << delegateSet, impressed, pixels, alive, nativeAd, visible, ticking >>

(***************************************************************************)
(* The views and their detectors.                                          *)
(***************************************************************************)

\* Whether a detector is started for the ad; a nil ad is not impressed either.
UnlessImpressed(a) == a # NoAd => ~impressed[a]
NeedsDetection(a) == a # NoAd /\ ~impressed[a]

\* setNativeAd: detection starts for an ad that needs it and stops for any other.
SetNativeAd(v, a) ==
    /\ alive[v]
    /\ a # NoAd => ad[a] = "received"
    /\ a # nativeAd[v]
    /\ nativeAd' = [nativeAd EXCEPT ![v] = a]
    /\ ticking' = [ticking EXCEPT ![v] = NeedsDetection(a)]
    /\ UNCHANGED << delegateSet, ad, impressed, pixels, alive, visible >>

VisibilityChanges(v) ==
    /\ alive[v]
    /\ visible' = [visible EXCEPT ![v] = ~visible[v]]
    /\ UNCHANGED << delegateSet, ad, impressed, pixels, alive, nativeAd, ticking >>

\* The timer retains the detector, not the view.
ViewDeallocated(v) ==
    /\ alive[v]
    /\ alive' = [alive EXCEPT ![v] = FALSE]
    /\ UNCHANGED << delegateSet, ad, impressed, pixels, nativeAd, visible, ticking >>

\* handleImpressionOnNativeAd, of the ad the view shows by now.
HandleAnyImpression(a) ==
    IF a = NoAd THEN UNCHANGED << impressed, pixels >>
    ELSE /\ impressed' = [impressed EXCEPT ![a] = TRUE]
         /\ pixels' = [pixels EXCEPT ![a] = pixels[a] + 1]

SendPixels(a) ==
    IF a = NoAd \/ impressed[a] THEN UNCHANGED << impressed, pixels >>
    ELSE /\ pixels' = [pixels EXCEPT ![a] = pixels[a] + 1]
         /\ UNCHANGED impressed

HandleImpression(a) ==
    IF a = NoAd \/ impressed[a]
    THEN UNCHANGED << impressed, pixels >>
    ELSE /\ impressed' = [impressed EXCEPT ![a] = TRUE]
         /\ pixels' = [pixels EXCEPT ![a] = pixels[a] + 1]

OnTimerTick(v) ==
    /\ ticking[v]
    /\ IF alive[v] THEN visible[v] /\ HandleImpression(nativeAd[v])
                   ELSE UNCHANGED << impressed, pixels >>
    /\ ticking' = [ticking EXCEPT ![v] = FALSE]
    /\ UNCHANGED << delegateSet, ad, alive, nativeAd, visible >>

NativeNext ==
    \/ DelegateChanges
    \/ \E a \in NativeAds : LoadNative(a) \/ NativeBidArrives(a) \/ LoadNativeWithBid(a)
                              \/ NotifyDidReceiveAd(a)
    \/ \E v \in NativeViews : VisibilityChanges(v) \/ ViewDeallocated(v) \/ OnTimerTick(v)
    \/ \E v \in NativeViews, a \in NativeAds \cup {NoAd} : SetNativeAd(v, a)

NativeSpec == NativeInit /\ [][NativeNext]_nativeVars

\* Timers tick.
NativeFairness == \A v \in NativeViews : WF_nativeVars(OnTimerTick(v))

(***************************************************************************)
(* Properties.                                                             *)
(***************************************************************************)

\* The advertiser pays an impression once, in however many views the ad was shown and
\* however often; and only of an ad the application received.
ImpressedAtMostOnce ==
    \A a \in NativeAds :
        /\ pixels[a] <= 1
        /\ pixels[a] = 1 => impressed[a] /\ ad[a] = "received"

\* The detector of a view works as long as the view shows an ad without an impression,
\* whatever the view showed before, and not for a view that shows none.
DetectsWhileNeeded ==
    \A v \in NativeViews : alive[v] =>
        IF nativeAd[v] = NoAd THEN ~ticking[v]
        ELSE ~impressed[nativeAd[v]] => ticking[v]

\* An ad that stays in a visible view has its impression.
VisibleAdIsImpressed ==
    \A v \in NativeViews, a \in NativeAds :
        [](nativeAd[v] = a /\ visible[v] /\ alive[v] => <>(impressed[a]
              \/ nativeAd[v] # a \/ ~visible[v] \/ ~alive[v]))
=============================================================================
