------------------------------ MODULE BannerAd ------------------------------
(***************************************************************************)
(* CRBannerView with its MRAID handler: where the one web view of a banner *)
(* is while its script expands, resizes and closes it, the user taps close *)
(* buttons, the application loads other ads, and animations and delayed    *)
(* blocks end later.                                                       *)
(*                                                                         *)
(* A container is a CRFulllScreenContainer (kind full) or an               *)
(* MRAIDResizeContainerView (kind resized).  It remembers the view it took *)
(* the web view from (home) and puts it back there when it closes.         *)
(***************************************************************************)
EXTENDS Mraid

CONSTANTS
    MaxContainers,  \* bound: containers ever created
    MaxLoads        \* bound: loads that wait for their bid

ASSUME BannerBounds ==
    /\ MaxContainers \in Nat
    /\ MaxLoads \in Nat

VARIABLES
    superview,         \* webView.superview
    containers,        \* the containers, in the order of their creation
    webViewContainer,  \* CRMRAIDHandler.webViewContainer
    resizedContainer,  \* MRAIDResizeHandler.resizedContainer
    asked,             \* loads whose bid has not come yet
    navigating,        \* the web view is loading a page
    crashed,           \* an unrecognized selector was sent
    parted             \* history: one of the four windows below was hit

viewVars == << superview, containers, webViewContainer, resizedContainer >>
bannerVars == << state, loadBlocks, expandBlocks, superview, containers,
                 webViewContainer, resizedContainer, asked, navigating, crashed, parted >>

App == 0        \* the banner, in a view controller of the application
Nowhere == -1   \* no view

Views == {Nowhere, App} \cup (Nat \ {0})

\* up: on screen; leaving: being dismissed; stuck: presented, its close button
\* hidden and its dismissal swallowed; gone: off the screen.
Container == [kind : {"full", "resized"}, home : Views, under : Views,
              shown : {"up", "leaving", "stuck", "gone"}]

BannerTypeOK ==
    /\ MraidTypeOK
    /\ containers \in Seq(Container)
    /\ superview \in {Nowhere, App} \cup DOMAIN containers
    /\ webViewContainer \in {Nowhere, App} \cup DOMAIN containers
    /\ resizedContainer \in {Nowhere} \cup DOMAIN containers
    /\ asked \in Nat
    /\ navigating \in BOOLEAN
    /\ crashed \in BOOLEAN
    /\ parted \in BOOLEAN

BannerInit ==
    /\ MraidInit
    /\ superview = App
    /\ containers = << >>
    /\ webViewContainer = Nowhere
    /\ resizedContainer = Nowhere
    /\ asked = 0
    /\ navigating = FALSE
    /\ crashed = FALSE
    /\ parted = FALSE

IsFull(v) == v > 0 /\ containers[v].kind = "full"

\* A home is a weak reference; the handlers hold two views strongly.
Exists(v) ==
    \/ v = App
    \/ v > 0 /\ (containers[v].shown # "gone" \/ v \in {webViewContainer, resizedContainer})

\* cr_rootViewController of a web view whose superview is v: the application's
\* (App), a full screen container, or none.
FullRoot(v) ==
    IF v = App THEN App
    ELSE IF v > 0 /\ containers[v].shown # "gone" THEN v ELSE Nowhere

Root(v) ==
    IF v <= 0 \/ IsFull(v) THEN FullRoot(v)
    ELSE IF containers[v].shown = "up" THEN FullRoot(containers[v].under) ELSE Nowhere

\* The full screen containers the view controller r presents.
Presented(r) ==
    {c \in DOMAIN containers : IsFull(c) /\ containers[c].under = r /\ containers[c].shown # "gone"}

\* UIKit ignores a presentation by a controller that presents already or leaves.
CanPresent(r) ==
    /\ r # Nowhere
    /\ Presented(r) = {}
    /\ r = App \/ containers[r].shown = "up"

OnScreen(c) ==
    /\ containers[c].shown = "up"
    /\ FullRoot(containers[c].under) # Nowhere

(***************************************************************************)
(* Loading.                                                                *)
(***************************************************************************)

\* loadAdWithContext: refused while expanded; the check is not made again.
LoadAd ==
    /\ CanLoadAd
    /\ asked < MaxLoads
    /\ asked' = asked + 1
    /\ UNCHANGED << mraidVars, viewVars, navigating, crashed, parted >>

\* The response handler: no bid and a bid without display URL are reported and
\* change nothing here, any other bid loads its page.
BidArrives ==
    /\ asked > 0
    /\ asked' = asked - 1
    /\ navigating' \in {navigating, TRUE}
    /\ UNCHANGED << mraidVars, viewVars, crashed, parted >>

\* didFinishNavigation, or one of the failures the banner ignores.
NavigationEnds ==
    /\ navigating
    /\ navigating' = FALSE
    /\ \/ OnAdLoad
       \/ UNCHANGED loadBlocks
    /\ UNCHANGED << state, expandBlocks, viewVars, asked, crashed, parted >>

\* Window 1: the ad became ready 0.2 s after its page was loaded, and it, or the
\* ad it replaces, is larger than the banner by now.
BannerOnAdLoadBlock ==
    /\ OnAdLoadBlock
    /\ parted' = (parted \/ state \in {"expanded", "resized"})
    /\ UNCHANGED << viewVars, asked, navigating, crashed >>

(***************************************************************************)
(* Expansion.                                                              *)
(***************************************************************************)

\* didReceive(expand) and CRBannerView.expandWithWidth: a resized ad is closed
\* first; the web view moves into a new container, presented by its root view
\* controller.  A container UIKit does not present is released at once, and the
\* web view with it loses its superview.
\* Window 2: the script expands again before the block of its expansion ran.
Expand ==
    /\ state # "expanded"
    /\ Len(containers) < MaxContainers
    /\ expandBlocks < MaxBlocks
    /\ LET closing == state = "resized" /\ Exists(containers[resizedContainer].home)
           from == IF closing THEN containers[resizedContainer].home ELSE superview
           root == Root(from)
           shown == IF CanPresent(root) THEN "up" ELSE "gone"
       IN  /\ containers' =
                Append(IF closing
                       THEN [containers EXCEPT ![resizedContainer].shown = "gone"]
                       ELSE containers,
                       [kind |-> "full", home |-> from, under |-> root, shown |-> shown])
           /\ superview' = IF shown = "up" THEN Len(containers) + 1 ELSE Nowhere
           /\ state' = IF closing THEN OnSuccessClose(state) ELSE state
           /\ parted' = (parted \/ expandBlocks > 0)
    /\ expandBlocks' = expandBlocks + 1
    /\ UNCHANGED << loadBlocks, webViewContainer, resizedContainer, asked, navigating, crashed >>

BannerExpandBlock ==
    /\ ExpandBlock
    /\ UNCHANGED << viewVars, asked, navigating, crashed, parted >>

\* CRFulllScreenContainer.close: back home, then dismiss; a controller that
\* presents another passes the dismissal on to it.
CloseFull(c) ==
    IF Exists(containers[c].home)
    THEN /\ superview' = containers[c].home
         /\ containers' = [containers EXCEPT ![c].shown =
                             IF Presented(c) = {} THEN "leaving" ELSE "stuck"]
         /\ UNCHANGED << webViewContainer, resizedContainer >>
    ELSE UNCHANGED viewVars

\* The user taps the close button of the front container.
CloseButton(c) ==
    /\ IsFull(c)
    /\ containers[c].shown = "up"
    /\ Presented(c) = {}
    /\ CloseFull(c)
    /\ UNCHANGED << mraidVars, asked, navigating, crashed, parted >>

\* didReceiveCloseAction of an expanded ad: closeWithCompletion casts the root
\* view controller to the full screen container.
\* Window 3: it is not one any more while the first close is being animated.
CloseExpanded ==
    LET root == Root(superview) IN
    /\ IsExpanded
    /\ CASE root = App     -> crashed' = TRUE /\ parted' = TRUE /\ UNCHANGED viewVars
         [] root = Nowhere -> UNCHANGED << viewVars, crashed, parted >>
         [] OTHER          -> CloseFull(root) /\ UNCHANGED << crashed, parted >>
    /\ UNCHANGED << mraidVars, asked, navigating >>

\* didReceiveCloseAction of an ad that is not expanded: a blank page is loaded,
\* and the completion is not called.
CloseDefault ==
    /\ MayClose
    /\ ~IsExpanded
    /\ navigating' = TRUE
    /\ UNCHANGED << mraidVars, viewVars, asked, crashed, parted >>

\* The dismissal ends, later than the delay of any expansion, and its completion
\* calls onSuccessClose.
Dismissed(c) ==
    /\ IsFull(c)
    /\ containers[c].shown = "leaving"
    /\ expandBlocks = 0
    /\ containers' = [containers EXCEPT ![c].shown = "gone"]
    /\ state' = OnSuccessClose(state)
    /\ UNCHANGED << loadBlocks, expandBlocks, superview, webViewContainer, resizedContainer,
                    asked, navigating, crashed, parted >>

(***************************************************************************)
(* Resizing.                                                               *)
(***************************************************************************)

\* The view a resized ad goes back to: the first resize notes it, the later ones keep it.
CurrentSuperview == superview
NotedSuperview == IF state = "default" THEN superview ELSE webViewContainer

\* didReceive(resize): the superview of the first resize is noted before the new size
\* is examined.  An accepted one moves the web view into a new container, whose home
\* is the view noted; the container of the resize before is removed.
\* Window 4: the script resizes before the block of its expansion ran.
Resize ==
    /\ state \in {"default", "resized"}
    /\ LET home == NotedSuperview
           root == Root(superview)
           new == Len(containers) + 1
       IN  /\ webViewContainer' = home
           /\ \/ UNCHANGED << state, superview, containers, resizedContainer, parted >>
              \/ /\ root # Nowhere
                 /\ new <= MaxContainers
                 /\ containers' =
                      Append(IF resizedContainer = Nowhere THEN containers
                             ELSE [containers EXCEPT ![resizedContainer].shown = "gone"],
                             [kind |-> "resized", home |-> home, under |-> root, shown |-> "up"])
                 /\ superview' = new
                 /\ resizedContainer' = new
                 /\ state' = "resized"
                 /\ parted' = (parted \/ expandBlocks > 0)
    /\ UNCHANGED << loadBlocks, expandBlocks, asked, navigating, crashed >>

\* The user taps the close area of a resized ad: closeView, onSuccessClose.
CloseArea(c) ==
    /\ containers[c].kind = "resized"
    /\ OnScreen(c)
    /\ Exists(containers[c].home)
    /\ superview' = containers[c].home
    /\ containers' = [containers EXCEPT ![c].shown = "gone"]
    /\ state' = OnSuccessClose(state)
    /\ UNCHANGED << loadBlocks, expandBlocks, webViewContainer, resizedContainer, asked,
                    navigating, crashed, parted >>

(***************************************************************************)
(* The specification.  Delayed blocks run and animations end.              *)
(***************************************************************************)

BannerNext ==
    /\ ~crashed
    /\ \/ LoadAd \/ BidArrives \/ NavigationEnds \/ BannerOnAdLoadBlock
       \/ Expand \/ BannerExpandBlock \/ CloseExpanded \/ CloseDefault \/ Resize
       \/ \E c \in DOMAIN containers : CloseButton(c) \/ Dismissed(c) \/ CloseArea(c)

BannerSpec == BannerInit /\ [][BannerNext]_bannerVars

AnimationEnds == ~crashed /\ \E c \in DOMAIN containers : Dismissed(c)

BannerFairness ==
    /\ WF_bannerVars(~crashed /\ BannerExpandBlock)
    /\ WF_bannerVars(AnimationEnds)

(***************************************************************************)
(* Properties.                                                             *)
(***************************************************************************)

\* Where the state says the ad is, and what the user sees of it, agree; and the
\* close action of the script finds what it casts to.  The four windows apart
\* (parted), in which the code does part them.
StateMatchesView ==
    ~parted =>
        /\ ~crashed
        /\ superview # Nowhere
        /\ \A c \in DOMAIN containers :
              containers[c].shown \in {"up", "stuck"} => superview = c
        /\ state = "resized" =>
              superview = resizedContainer /\ containers[superview].home = App
        /\ state = "expanded" =>
              IF superview = App
              THEN \E c \in DOMAIN containers : containers[c].shown = "leaving"
              ELSE IsFull(superview) /\ containers[superview].shown = "up"
        /\ state \in {"loading", "default"} =>
              superview = App \/ (IsFull(superview) /\ expandBlocks > 0)

\* A close that has begun is completed: no container stays on screen with its close button
\* hidden and its dismissal swallowed, one that is being dismissed has given the web view back
\* to the banner, and the ad it held is expanded, or about to be, so that onSuccessClose calls
\* it default and never hidden, which refuses to resize and to close.  Windows apart.
ClosingIsBacked ==
    ~parted =>
        /\ state # "hidden"
        /\ \A c \in DOMAIN containers :
              /\ containers[c].shown # "stuck"
              /\ containers[c].shown = "leaving"
                    => superview = App /\ (IsExpanded \/ expandBlocks > 0)

\* An expanded ad whose container is being closed comes back to the banner, and
\* may load and expand again.
ExpandedAdComesBack ==
    (\E c \in DOMAIN containers : containers[c].shown = "leaving")
        ~> (parted \/ (superview = App /\ CanLoadAd))

\* "add webview back to banner container", CRFulllScreenContainer.swift:62: a full
\* screen container that closes puts the web view back into the banner.
ClosesToBanner ==
    [][\A c \in DOMAIN containers :
          superview = c /\ containers[c].kind = "full" /\ containers'[c].shown = "leaving"
              => superview' = App]_bannerVars
=============================================================================
