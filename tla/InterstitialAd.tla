--------------------------- MODULE InterstitialAd ---------------------------
(***************************************************************************)
(* CRInterstitial and CR_InterstitialViewController, with their MRAID       *)
(* handler: loading an ad, presenting it, and the ways it is dismissed.     *)
(*                                                                         *)
(* Everything but the arrival of a bid runs on the main thread, one callback *)
(* per step; blocks posted on the main queue are counted until they run.     *)
(* The handler is bound to the first web view for good: an ad shown in a     *)
(* later one has no bridge to it.  It keeps the first web view alive, too:   *)
(* before iOS 14.5 nothing takes the bridge away when the view controller    *)
(* drops it, so a dropped page may go on calling.                            *)
(***************************************************************************)
EXTENDS Integers

CONSTANTS
    MaxRequests,  \* bound: bids awaited
    MaxPosted     \* bound: of each, pages to load, clicks, failures and delayed blocks on their way

ASSUME InterstitialBounds ==
    /\ MaxRequests \in Nat
    /\ MaxPosted \in Nat

VARIABLES
    mraidState, readyBlocks, growBlocks,  \* of the handler of this ad: see Handler
    isAdLoading,
    isAdLoaded,
    webView,           \* of the view controller: the first one, a later one, none
    waiting,           \* loads whose bid has not come
    dispatched,        \* loadWebViewWithDisplayURL blocks on the main queue
    pageLoading,       \* the web view is navigating
    cancelled,         \* failures to come for navigations a later one replaced
    presentation,      \* of the view controller: see Presentations
    hasBeenDismissed,
    clicks,            \* click blocks on the main queue
    deadEnd,           \* history: a load gave up and left isAdLoading set
    wasCovered         \* history: a video covered the interstitial since it was presented

Handler == INSTANCE Mraid WITH
    MaxBlocks <- MaxPosted,
    state <- mraidState, loadBlocks <- readyBlocks, expandBlocks <- growBlocks

handlerVars == << mraidState, readyBlocks, growBlocks >>
flags == << isAdLoading, isAdLoaded, deadEnd >>
pageVars == << webView, waiting, dispatched, pageLoading, cancelled >>
screenVars == << presentation, wasCovered, hasBeenDismissed, clicks >>
interstitialVars ==
    << mraidState, readyBlocks, growBlocks, isAdLoading, isAdLoaded, deadEnd, webView, waiting,
       dispatched, pageLoading, cancelled, presentation, wasCovered, hasBeenDismissed, clicks >>

\* covering: a video player is being presented over it; covered: it has disappeared
\* below the player; folding: both are being dismissed together.
Presentations == {"none", "appearing", "shown", "leaving", "covering", "covered", "folding"}

InterstitialTypeOK ==
    /\ Handler!MraidTypeOK
    /\ isAdLoading \in BOOLEAN
    /\ isAdLoaded \in BOOLEAN
    /\ webView \in {"first", "later", "none"}
    /\ waiting \in Nat
    /\ dispatched \in Nat
    /\ pageLoading \in BOOLEAN
    /\ cancelled \in Nat
    /\ presentation \in Presentations
    /\ hasBeenDismissed \in BOOLEAN
    /\ clicks \in Nat
    /\ deadEnd \in BOOLEAN
    /\ wasCovered \in BOOLEAN

InterstitialInit ==
    /\ Handler!MraidInit
    /\ isAdLoading = FALSE
    /\ isAdLoaded = FALSE
    /\ webView = "first"
    /\ waiting = 0
    /\ dispatched = 0
    /\ pageLoading = FALSE
    /\ cancelled = 0
    /\ presentation = "none"
    /\ hasBeenDismissed = FALSE
    /\ clicks = 0
    /\ deadEnd = FALSE
    /\ wasCovered = FALSE

(***************************************************************************)
(* Loading.                                                                *)
(***************************************************************************)

\* checkSafeToLoad: a refused load is reported and changes nothing.
NotLoading == ~isAdLoading
SafeToLoad == ~isAdLoading /\ presentation = "none"

\* loadAdWithDisplayData: without an URL the failure is reported and nothing else
\* is done; with one a web view is made if the last one was dropped.
LoadDisplayData(loading) ==
    \/ /\ deadEnd' = (deadEnd \/ loading)
       /\ UNCHANGED pageVars
    \/ /\ dispatched < MaxPosted
       /\ dispatched' = dispatched + 1
       /\ webView' = IF webView = "none" THEN "later" ELSE webView
       /\ UNCHANGED << waiting, pageLoading, cancelled, deadEnd >>

\* loadAdWithContext.  Without an ad unit the failure is reported and isAdLoading stays.
LoadInterstitial ==
    /\ SafeToLoad
    /\ isAdLoading' = TRUE
    /\ isAdLoaded' = FALSE
    /\ \/ /\ waiting < MaxRequests
          /\ waiting' = waiting + 1
          /\ UNCHANGED deadEnd
       \/ deadEnd' = TRUE /\ UNCHANGED waiting
    /\ UNCHANGED << webView, dispatched, pageLoading, cancelled, screenVars, handlerVars >>

\* The response handler.
InterstitialBidArrives ==
    /\ waiting > 0
    /\ \/ /\ isAdLoading' = FALSE
          /\ waiting' = waiting - 1
          /\ UNCHANGED << webView, dispatched, pageLoading, cancelled, deadEnd >>
       \/ /\ deadEnd' = (deadEnd \/ isAdLoading)
          /\ waiting' = waiting - 1
          /\ UNCHANGED << isAdLoading, webView, dispatched, pageLoading, cancelled >>
       \/ /\ dispatched < MaxPosted
          /\ dispatched' = dispatched + 1
          /\ webView' = IF webView = "none" THEN "later" ELSE webView
          /\ waiting' = waiting - 1
          /\ UNCHANGED << isAdLoading, pageLoading, cancelled, deadEnd >>
    /\ UNCHANGED << isAdLoaded, screenVars, handlerVars >>

\* loadAdWithBid: no bid, or one that was consumed already, ends the load at once.
LoadInterstitialWithBid ==
    /\ SafeToLoad
    /\ isAdLoaded' = FALSE
    /\ \/ isAdLoading' = FALSE /\ UNCHANGED << deadEnd, pageVars >>
       \/ isAdLoading' = TRUE /\ LoadDisplayData(TRUE)
    /\ UNCHANGED << screenVars, handlerVars >>

\* The application calls loadAdWithDisplayData, which is public and checks nothing.
LoadDisplayDataDirectly ==
    /\ LoadDisplayData(FALSE)
    /\ UNCHANGED << isAdLoading, isAdLoaded, screenVars, handlerVars >>

\* loadWebViewWithDisplayURL: a message to the web view there is by now.
LoadWebView ==
    /\ dispatched > 0
    /\ dispatched' = dispatched - 1
    /\ IF webView = "none"
       THEN UNCHANGED << pageLoading, cancelled >>
       ELSE /\ pageLoading => cancelled < MaxPosted
            /\ pageLoading' = TRUE
            /\ cancelled' = cancelled + (IF pageLoading THEN 1 ELSE 0)
    /\ UNCHANGED << flags, webView, waiting, screenVars, handlerVars >>

\* The creative navigates by itself; the policy allows what is not a tapped link.
CreativeNavigates ==
    /\ webView # "none"
    /\ ~pageLoading
    /\ pageLoading' = TRUE
    /\ UNCHANGED << flags, webView, waiting, dispatched, cancelled, screenVars, handlerVars >>

DidFinishNavigation ==
    /\ pageLoading
    /\ pageLoading' = FALSE
    /\ isAdLoading' = FALSE
    /\ isAdLoaded' = TRUE
    /\ Handler!OnAdLoad
    /\ UNCHANGED << deadEnd, webView, waiting, dispatched, cancelled, screenVars, mraidState, growBlocks >>

\* The failure of the navigation under way or of one that was replaced.
NavigationFails ==
    \/ pageLoading /\ pageLoading' = FALSE /\ UNCHANGED cancelled
    \/ cancelled > 0 /\ cancelled' = cancelled - 1 /\ UNCHANGED pageLoading

\* didFailNavigation, didFailProvisionalNavigation.
FailureIgnored == NavigationFails /\ UNCHANGED isAdLoading
FailureEndsLoading == NavigationFails /\ isAdLoading' = FALSE

DidFailNavigation ==
    /\ FailureEndsLoading
    /\ UNCHANGED << isAdLoaded, deadEnd, webView, waiting, dispatched, screenVars, handlerVars >>

(***************************************************************************)
(* Presentation and dismissal.                                             *)
(***************************************************************************)

Present ==
    /\ presentation = "none"
    /\ isAdLoaded
    /\ presentation' = "appearing"
    /\ wasCovered' = FALSE
    /\ UNCHANGED << flags, pageVars, hasBeenDismissed, clicks, handlerVars >>

ViewAppears ==
    /\ presentation \in {"appearing", "covered"}
    /\ presentation' = "shown"
    /\ UNCHANGED << flags, pageVars, wasCovered, hasBeenDismissed, clicks, handlerVars >>

\* At the end of the presentation, and again when the video over it is dismissed.  The
\* view is then laid out with the web view there is by now, which may be none.
ViewDidAppear ==
    /\ presentation \in {"appearing", "covered"}
    /\ presentation' = "shown"
    /\ hasBeenDismissed' = FALSE
    /\ UNCHANGED << flags, pageVars, wasCovered, clicks, handlerVars >>

\* dismissViewController: the completion is called, and UIKit asked to dismiss, once
\* until the view appears again.  UIKit ignores the request while it presents, and
\* there is no presenter to ask when nothing is presented.  Asked for an interstitial
\* below a video, it removes both, and only what is on top is told that it disappears.
Dismiss ==
    /\ hasBeenDismissed' = TRUE
    /\ mraidState' = IF hasBeenDismissed THEN mraidState ELSE Handler!OnSuccessClose(mraidState)
    /\ presentation' = CASE ~hasBeenDismissed /\ presentation = "shown"   -> "leaving"
                         [] ~hasBeenDismissed /\ presentation = "covered" -> "folding"
                         [] OTHER -> presentation
    /\ UNCHANGED wasCovered

CloseButtonPressed ==
    /\ presentation = "shown"
    /\ Dismiss
    /\ UNCHANGED << flags, pageVars, clicks, readyBlocks, growBlocks >>

MraidClose ==
    /\ Handler!MayClose
    /\ Dismiss
    /\ UNCHANGED << flags, pageVars, clicks, readyBlocks, growBlocks >>

\* didReceive(expand): an interstitial has no delegate method for it, the state changes
\* nevertheless.
MraidExpand ==
    /\ ~Handler!IsExpanded
    /\ growBlocks < MaxPosted
    /\ growBlocks' = growBlocks + 1
    /\ UNCHANGED << flags, pageVars, screenVars, mraidState, readyBlocks >>

\* didReceivePlayVideoAction: the player is presented from the controller that shows the
\* handler's web view, the first one.
PlayVideo ==
    /\ presentation = "shown"
    /\ webView = "first"
    /\ presentation' = "covering"
    /\ UNCHANGED << flags, pageVars, wasCovered, hasBeenDismissed, clicks, handlerVars >>

\* A tapped link, or window.open in the page of the first web view.
Click ==
    /\ clicks < MaxPosted
    /\ clicks' = clicks + 1
    /\ UNCHANGED << flags, pageVars, presentation, wasCovered, hasBeenDismissed, handlerVars >>

\* The block of a click opens the URL and dismisses.
ClickBlock ==
    /\ clicks > 0
    /\ clicks' = clicks - 1
    /\ Dismiss
    /\ UNCHANGED << flags, pageVars, readyBlocks, growBlocks >>

\* The interstitial is dismissed or a player covers it: the web view is dropped either
\* way, and with it the callbacks of its navigations.
ViewDidDisappear ==
    /\ \/ presentation = "leaving" /\ presentation' = "none" /\ UNCHANGED wasCovered
       \/ presentation = "covering" /\ presentation' = "covered" /\ wasCovered' = TRUE
    /\ webView' = "none"
    /\ pageLoading' = FALSE
    /\ cancelled' = 0
    /\ isAdLoaded' = FALSE
    /\ UNCHANGED << isAdLoading, deadEnd, waiting, dispatched, hasBeenDismissed, clicks, handlerVars >>

\* The interstitial and the player over it are gone.
StackDismissed ==
    /\ presentation = "folding"
    /\ presentation' = "none"
    /\ UNCHANGED << flags, pageVars, wasCovered, hasBeenDismissed, clicks, handlerVars >>

HandlerBlock ==
    /\ Handler!OnAdLoadBlock \/ Handler!ExpandBlock
    /\ UNCHANGED << flags, pageVars, screenVars >>

(***************************************************************************)
(* The specification.  Bids are answered (BidContract), the main queue runs *)
(* its blocks, navigations and transitions end.                             *)
(***************************************************************************)

InterstitialNext ==
    \/ LoadInterstitial \/ InterstitialBidArrives \/ LoadInterstitialWithBid
    \/ LoadDisplayDataDirectly \/ LoadWebView \/ CreativeNavigates
    \/ DidFinishNavigation \/ DidFailNavigation
    \/ Present \/ ViewDidAppear \/ ViewDidDisappear \/ StackDismissed
    \/ CloseButtonPressed \/ MraidClose \/ MraidExpand \/ PlayVideo \/ Click \/ ClickBlock
    \/ HandlerBlock

InterstitialSpec == InterstitialInit /\ [][InterstitialNext]_interstitialVars

NavigationCallback == DidFinishNavigation \/ DidFailNavigation

InterstitialFairness ==
    /\ WF_interstitialVars(InterstitialBidArrives)
    /\ WF_interstitialVars(LoadWebView)
    /\ WF_interstitialVars(NavigationCallback)
    /\ WF_interstitialVars(HandlerBlock)

(***************************************************************************)
(* Properties.                                                             *)
(***************************************************************************)

\* What is said to be loaded has a web view; an interstitial that is presented keeps its
\* web view unless a video covered it, which makes viewDidDisappear drop it while the
\* interstitial is still there; and nothing loads from the presentation to its end, so
\* that no load finds its web view dropped.
LoadedAdHasWebView ==
    /\ isAdLoaded => webView # "none"
    /\ presentation # "none" => ~isAdLoading /\ (webView # "none" \/ wasCovered)

\* The close button of an interstitial on screen works: the flag that makes the second
\* of two dismissals do nothing is never left over from an earlier one.
CanAlwaysClose == presentation = "shown" => ~hasBeenDismissed

\* isAdLoading refuses every other load, so something must be under way that will
\* clear it: a bid, a block, a page or the failure of one.  A load without an ad unit or
\* with an empty URL is the exception.
LoadingIsBacked ==
    isAdLoading =>
        \/ waiting + cancelled > 0
        \/ dispatched > 0 /\ webView # "none"
        \/ pageLoading
        \/ deadEnd

\* Every load ends, the exception apart.
LoadingEnds == isAdLoading ~> (~isAdLoading \/ deadEnd)
=============================================================================
