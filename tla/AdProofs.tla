------------------------------ MODULE AdProofs ------------------------------
(***************************************************************************)
(* Theorems about the ads.  Of BannerAd, for any bounds: its type           *)
(* invariant, that outside the four windows the module names the state of   *)
(* the handler and the place of the web view agree, and that a container    *)
(* that closes gives the web view back to the banner.  Of InterstitialAd,  *)
(* for any number of awaited bids, pages, clicks and delayed blocks: its   *)
(* type invariant, that the close button of an interstitial on screen      *)
(* works, that what is said to be loaded is there, and that isAdLoading    *)
(* never outlives what is to clear it.  Of NativeAd and MediaView, for any *)
(* sets of ads, views and images: that an ad is billed at most once, that  *)
(* a view looks at its ad as long as it has to, and that the image shown   *)
(* is the one of the content.                                              *)
(***************************************************************************)
EXTENDS BannerAd, InterstitialAd, NativeAd, MediaView, TLAPS

-----------------------------------------------------------------------------
(* BannerAd *)

\* References between containers point at containers there are.
PlacesInv ==
    /\ \A c \in DOMAIN containers :
          containers[c].home <= Len(containers) /\ containers[c].under <= Len(containers)
    /\ state = "resized" => resizedContainer # Nowhere

Live(c) == containers[c].shown # "gone"

\* There is one container at a time, over the application, and the web view is in it
\* or, once it is leaving, back home.
OneContainerInv ==
    /\ \A c \in DOMAIN containers :
          containers[c].home = App /\ containers[c].under = App /\ containers[c].shown # "stuck"
    /\ \A c, d \in DOMAIN containers : Live(c) /\ Live(d) => c = d
    /\ \A c \in DOMAIN containers : containers[c].shown = "up" => superview = c
    /\ \A c \in DOMAIN containers : containers[c].shown = "leaving" => IsFull(c) /\ superview = App
    /\ superview # App => superview > 0 /\ containers[superview].shown = "up"

\* The container is the one of the state, up to the block of an expansion.
PhaseInv ==
    /\ \A c \in DOMAIN containers : Live(c) =>
          IF containers[c].kind = "resized"
          THEN state = "resized" /\ c = resizedContainer
          ELSE state # "resized" /\ expandBlocks = IF state = "expanded" THEN 0 ELSE 1
    /\ state = "resized" => superview = resizedContainer /\ expandBlocks = 0 /\ webViewContainer = App
    /\ state = "expanded" \/ expandBlocks > 0 => \E c \in DOMAIN containers : Live(c) /\ IsFull(c)

TogetherInv == ~parted => ~crashed /\ OneContainerInv /\ PhaseInv

BannerInv == BannerTypeOK /\ PlacesInv /\ TogetherInv

-----------------------------------------------------------------------------
(* Sequences of containers *)

\* A container put off the screen, or made to leave it: what changes.
ShowAs(s, x, how) == [s EXCEPT ![x].shown = how]

LEMMA ShowAsSequence ==
    ASSUME NEW s \in Seq(Container), NEW x \in DOMAIN s,
           NEW how \in {"up", "leaving", "stuck", "gone"}
    PROVE  /\ ShowAs(s, x, how) \in Seq(Container)
           /\ Len(ShowAs(s, x, how)) = Len(s)
           /\ DOMAIN ShowAs(s, x, how) = DOMAIN s
<1>1. /\ Len(s) \in Nat
      /\ DOMAIN s = 1..Len(s)
      /\ \A d \in DOMAIN s : s[d] \in Container
  OBVIOUS
<1>2. [s[x] EXCEPT !.shown = how] \in Container
  BY <1>1 DEF Container
<1>3. ShowAs(s, x, how) = [d \in 1..Len(s) |-> IF d = x THEN [s[x] EXCEPT !.shown = how] ELSE s[d]]
  BY <1>1 DEF ShowAs
<1>4. ShowAs(s, x, how) \in [1..Len(s) -> Container]
  BY <1>1, <1>2, <1>3
<1> QED
  BY <1>1, <1>4

LEMMA ShowAsFields ==
    ASSUME NEW s \in Seq(Container), NEW x \in DOMAIN s, NEW d \in DOMAIN s,
           NEW how \in {"up", "leaving", "stuck", "gone"}
    PROVE  /\ ShowAs(s, x, how)[d].kind = s[d].kind
           /\ ShowAs(s, x, how)[d].home = s[d].home
           /\ ShowAs(s, x, how)[d].under = s[d].under
           /\ ShowAs(s, x, how)[d].shown = IF d = x THEN how ELSE s[d].shown
<1>1. ShowAs(s, x, how)[d] = IF d = x THEN [s[x] EXCEPT !.shown = how] ELSE s[d]
  BY DEF ShowAs
<1>2. s[d] \in Container /\ s[x] \in Container
  OBVIOUS
<1> QED
  BY <1>1, <1>2 DEF Container

LEMMA ContainerAdded ==
    ASSUME NEW s \in Seq(Container), NEW k \in Container
    PROVE  Append(s, k) \in Seq(Container)
OBVIOUS

\* The facts about the variables that the steps below rest on.
LEMMA BannerFacts ==
    ASSUME BannerTypeOK, PlacesInv
    PROVE  /\ Len(containers) \in Nat
           /\ DOMAIN containers = 1..Len(containers)
           /\ App \notin DOMAIN containers
           /\ Nowhere \notin DOMAIN containers
           /\ \A c \in DOMAIN containers :
                 /\ c > 0
                 /\ containers[c].kind \in {"full", "resized"}
                 /\ containers[c].shown \in {"up", "leaving", "stuck", "gone"}
                 /\ containers[c].home \in {Nowhere, App} \cup DOMAIN containers
                 /\ containers[c].under \in {Nowhere, App} \cup DOMAIN containers
           /\ state = "resized" => resizedContainer \in DOMAIN containers
           /\ expandBlocks \in Nat
           /\ superview \in {Nowhere, App} \cup DOMAIN containers
<1>1. /\ Len(containers) \in Nat
      /\ DOMAIN containers = 1..Len(containers)
      /\ \A c \in DOMAIN containers : containers[c] \in Container
  BY DEF BannerTypeOK
<1>2. App \notin DOMAIN containers /\ Nowhere \notin DOMAIN containers
  BY <1>1 DEF App, Nowhere
<1>3. \A c \in DOMAIN containers :
         /\ containers[c].kind \in {"full", "resized"}
         /\ containers[c].shown \in {"up", "leaving", "stuck", "gone"}
         /\ containers[c].home \in Views /\ containers[c].home <= Len(containers)
         /\ containers[c].under \in Views /\ containers[c].under <= Len(containers)
  BY <1>1 DEF PlacesInv, Container
<1>4. \A c \in DOMAIN containers :
         /\ c > 0
         /\ containers[c].home \in {Nowhere, App} \cup DOMAIN containers
         /\ containers[c].under \in {Nowhere, App} \cup DOMAIN containers
  BY <1>1, <1>3 DEF Views, App, Nowhere
<1>5. state = "resized" => resizedContainer \in DOMAIN containers
  BY DEF BannerTypeOK, PlacesInv
<1>6. /\ expandBlocks \in Nat
      /\ superview \in {Nowhere, App} \cup DOMAIN containers
  BY DEF BannerTypeOK, MraidTypeOK
<1> QED
  BY <1>1, <1>2, <1>3, <1>4, <1>5, <1>6

\* Where a view may be.
LEMMA RootIsAView ==
    ASSUME BannerTypeOK, PlacesInv, NEW v \in {Nowhere, App} \cup DOMAIN containers
    PROVE  Root(v) \in {Nowhere, App} \cup DOMAIN containers
<1>1. \A w \in {Nowhere, App} \cup DOMAIN containers :
         FullRoot(w) \in {Nowhere, App} \cup DOMAIN containers
  BY BannerFacts DEF FullRoot, App, Nowhere
<1> QED
  BY <1>1, BannerFacts DEF Root, App, Nowhere

-----------------------------------------------------------------------------
(* The steps *)

LEMMA InitBannerInv == BannerInit => BannerInv
<1> SUFFICES ASSUME BannerInit PROVE BannerInv
  OBVIOUS
<1>1. BannerTypeOK
  <2>1. MraidTypeOK
    BY DEF BannerInit, MraidInit, MraidTypeOK, MRAIDState
  <2>2. containers \in Seq(Container)
    BY DEF BannerInit
  <2> QED
    BY <2>1, <2>2 DEF BannerInit, BannerTypeOK
<1>2. PlacesInv /\ OneContainerInv
  BY DEF BannerInit, MraidInit, PlacesInv, OneContainerInv
<1>3. PhaseInv
  BY DEF BannerInit, MraidInit, PhaseInv
<1> QED
  BY <1>1, <1>2, <1>3 DEF BannerInv, TogetherInv, BannerInit

\* Steps that leave the views alone, but for the two delayed blocks.
LEMMA BannerLoadingKeeps ==
    ASSUME BannerInv,
           \/ LoadAd \/ BidArrives \/ NavigationEnds \/ CloseDefault \/ UNCHANGED bannerVars
    PROVE  BannerInv'
<1>1. UNCHANGED << state, expandBlocks, viewVars, crashed, parted >>
  BY DEF LoadAd, BidArrives, NavigationEnds, CloseDefault, bannerVars, mraidVars, viewVars
<1>2. asked' \in Nat
  <2>1. asked' = asked \/ asked' = asked + 1 \/ (asked > 0 /\ asked' = asked - 1)
    BY DEF LoadAd, BidArrives, NavigationEnds, CloseDefault, bannerVars
  <2>2. asked \in Nat
    BY DEF BannerInv, BannerTypeOK
  <2> QED
    BY <2>1, <2>2
<1>3. navigating' \in BOOLEAN
  BY DEF LoadAd, BidArrives, NavigationEnds, CloseDefault, bannerVars, BannerInv, BannerTypeOK
<1>4. loadBlocks' \in Nat
  <2>1. loadBlocks' = loadBlocks \/ loadBlocks' = loadBlocks + 1
    BY DEF LoadAd, BidArrives, NavigationEnds, CloseDefault, OnAdLoad, mraidVars, bannerVars
  <2>2. loadBlocks \in Nat
    BY DEF BannerInv, BannerTypeOK, MraidTypeOK
  <2> QED
    BY <2>1, <2>2
<1>5. BannerTypeOK'
  BY <1>1, <1>2, <1>3, <1>4 DEF BannerInv, BannerTypeOK, MraidTypeOK, viewVars
<1>6. PlacesInv'
  BY <1>1 DEF BannerInv, PlacesInv, viewVars
<1>7. TogetherInv'
  BY <1>1 DEF BannerInv, TogetherInv, OneContainerInv, PhaseInv, Live, IsFull, viewVars
<1> QED
  BY <1>5, <1>6, <1>7 DEF BannerInv

LEMMA OnAdLoadBlockKeeps == BannerInv /\ BannerOnAdLoadBlock => BannerInv'
<1> SUFFICES ASSUME BannerInv, BannerOnAdLoadBlock PROVE BannerInv'
  OBVIOUS
<1>1. /\ UNCHANGED << expandBlocks, viewVars, asked, navigating, crashed >>
      /\ state' = "default"
      /\ loadBlocks > 0 /\ loadBlocks' = loadBlocks - 1
      /\ parted' = (parted \/ state \in {"expanded", "resized"})
  BY DEF BannerOnAdLoadBlock, OnAdLoadBlock
<1>2. MraidTypeOK'
  BY <1>1 DEF BannerInv, BannerTypeOK, MraidTypeOK, MRAIDState
<1>3. BannerTypeOK'
  BY <1>1, <1>2 DEF BannerInv, BannerTypeOK, viewVars
<1>4. PlacesInv'
  BY <1>1 DEF BannerInv, PlacesInv, viewVars
<1>5. TogetherInv'
  BY <1>1 DEF BannerInv, TogetherInv, OneContainerInv, PhaseInv, Live, IsFull, viewVars
<1> QED
  BY <1>3, <1>4, <1>5 DEF BannerInv

LEMMA ExpandBlockKeeps == BannerInv /\ BannerExpandBlock => BannerInv'
<1> SUFFICES ASSUME BannerInv, BannerExpandBlock PROVE BannerInv'
  OBVIOUS
<1>1. /\ UNCHANGED << loadBlocks, viewVars, asked, navigating, crashed, parted >>
      /\ state' = "expanded"
      /\ expandBlocks > 0 /\ expandBlocks' = expandBlocks - 1
  BY DEF BannerExpandBlock, ExpandBlock
<1>2. MraidTypeOK'
  BY <1>1 DEF BannerInv, BannerTypeOK, MraidTypeOK, MRAIDState
<1>3. BannerTypeOK'
  BY <1>1, <1>2 DEF BannerInv, BannerTypeOK, viewVars
<1>4. PlacesInv'
  BY <1>1 DEF BannerInv, PlacesInv, viewVars
<1>5. ASSUME ~parted
      PROVE  OneContainerInv' /\ PhaseInv'
  <2>1. OneContainerInv /\ PhaseInv /\ expandBlocks \in Nat
    BY <1>5 DEF BannerInv, TogetherInv, BannerTypeOK, MraidTypeOK
  <2>2. OneContainerInv'
    BY <1>1, <2>1 DEF OneContainerInv, Live, IsFull, viewVars
  <2>3. PICK e \in DOMAIN containers : Live(e) /\ IsFull(e)
    BY <1>1, <2>1 DEF PhaseInv
  <2>4. containers[e].kind # "resized"
    BY <2>3 DEF IsFull
  <2>5. state # "resized" /\ expandBlocks = 1
    BY <1>1, <2>1, <2>3, <2>4 DEF PhaseInv
  <2>6. \A c \in DOMAIN containers : Live(c) => c = e
    BY <2>1, <2>3 DEF OneContainerInv
  <2>7. PhaseInv'
    BY <1>1, <2>3, <2>4, <2>5, <2>6 DEF PhaseInv, Live, IsFull, viewVars
  <2> QED
    BY <2>2, <2>7
<1>6. TogetherInv'
  BY <1>1, <1>5 DEF BannerInv, TogetherInv
<1> QED
  BY <1>3, <1>4, <1>6 DEF BannerInv

\* A container begins to leave: the web view goes home.
LEMMA CloseFullKeeps ==
    ASSUME BannerInv, NEW c \in DOMAIN containers, CloseFull(c),
           ~parted => IsFull(c) /\ containers[c].shown = "up" /\ Presented(c) = {},
           UNCHANGED << mraidVars, asked, navigating, crashed, parted >>
    PROVE  BannerInv'
<1>1. BannerTypeOK /\ PlacesInv /\ TogetherInv
  BY DEF BannerInv
<1>2. CASE UNCHANGED viewVars
  BY <1>2, BannerLoadingKeeps DEF bannerVars, viewVars, mraidVars
<1>3. CASE ~ UNCHANGED viewVars
  <2>1. PICK how \in {"leaving", "stuck"} :
          /\ containers' = ShowAs(containers, c, how)
          /\ how = IF Presented(c) = {} THEN "leaving" ELSE "stuck"
    BY <1>3 DEF CloseFull, ShowAs
  <2>2. superview' = containers[c].home /\ UNCHANGED << webViewContainer, resizedContainer >>
    BY <1>3 DEF CloseFull
  <2>3. /\ containers' \in Seq(Container)
        /\ Len(containers') = Len(containers)
        /\ DOMAIN containers' = DOMAIN containers
        /\ \A d \in DOMAIN containers :
              /\ containers'[d].kind = containers[d].kind
              /\ containers'[d].home = containers[d].home
              /\ containers'[d].under = containers[d].under
              /\ containers'[d].shown = IF d = c THEN how ELSE containers[d].shown
    <3>1. containers \in Seq(Container) /\ how \in {"up", "leaving", "stuck", "gone"}
      BY <1>1 DEF BannerTypeOK
    <3>2. /\ containers' \in Seq(Container)
          /\ Len(containers') = Len(containers)
          /\ DOMAIN containers' = DOMAIN containers
      BY <2>1, <3>1, ShowAsSequence
    <3>3. ASSUME NEW d \in DOMAIN containers
          PROVE  /\ containers'[d].kind = containers[d].kind
                 /\ containers'[d].home = containers[d].home
                 /\ containers'[d].under = containers[d].under
                 /\ containers'[d].shown = IF d = c THEN how ELSE containers[d].shown
      BY <2>1, <3>1, ShowAsFields
    <3> QED
      BY <3>2, <3>3
  <2>4. BannerTypeOK'
    <3>1. MraidTypeOK'
      BY <1>1 DEF BannerTypeOK, MraidTypeOK, mraidVars
    <3>2. superview' \in {Nowhere, App} \cup DOMAIN containers
      BY <1>1, <2>2, BannerFacts
    <3> QED
      BY <1>1, <2>2, <2>3, <3>1, <3>2 DEF BannerTypeOK
  <2>5. PlacesInv'
    BY <1>1, <2>2, <2>3, <2>4 DEF PlacesInv, mraidVars
  <2>6. ASSUME ~parted
        PROVE  OneContainerInv' /\ PhaseInv'
    <3>1. /\ OneContainerInv /\ PhaseInv
          /\ IsFull(c) /\ containers[c].shown = "up" /\ how = "leaving"
      BY <1>1, <2>1, <2>6 DEF TogetherInv
    <3>2. superview' = App /\ Live(c) /\ (\A d \in DOMAIN containers : Live(d) => d = c)
      BY <2>2, <3>1 DEF OneContainerInv, Live
    <3>3. \A d \in DOMAIN containers :
             /\ Live(d)' <=> Live(d)
             /\ IsFull(d)' <=> IsFull(d)
             /\ containers'[d].shown = "up" => FALSE
             /\ containers'[d].shown = "leaving" => d = c
      BY <2>3, <3>1, <3>2 DEF Live, IsFull
    <3>4. OneContainerInv'
      BY <2>3, <3>1, <3>2, <3>3 DEF OneContainerInv
    <3>5. PhaseInv'
      <4>1. containers[c].kind # "resized"
        BY <3>1 DEF IsFull
      <4>2. state # "resized"
        BY <3>1, <3>2, <4>1 DEF PhaseInv
      <4> QED
        BY <2>2, <2>3, <3>1, <3>2, <3>3, <4>2 DEF PhaseInv, mraidVars
    <3> QED
      BY <3>4, <3>5
  <2>7. TogetherInv'
    BY <1>1, <2>6 DEF TogetherInv
  <2> QED
    BY <2>4, <2>5, <2>7 DEF BannerInv
<1> QED
  BY <1>2, <1>3

\* Nothing is presented by a container of a banner that behaves.
LEMMA NothingPresented ==
    ASSUME BannerTypeOK, PlacesInv, OneContainerInv, NEW c \in DOMAIN containers
    PROVE  Presented(c) = {}
BY BannerFacts DEF Presented, OneContainerInv

LEMMA CloseButtonKeeps ==
    ASSUME BannerInv, NEW c \in DOMAIN containers, CloseButton(c)
    PROVE  BannerInv'
BY CloseFullKeeps DEF CloseButton

LEMMA CloseExpandedKeeps == BannerInv /\ CloseExpanded => BannerInv'
<1> SUFFICES ASSUME BannerInv, CloseExpanded PROVE BannerInv'
  OBVIOUS
<1> DEFINE root == Root(superview)
<1>1. BannerTypeOK /\ PlacesInv /\ TogetherInv
  BY DEF BannerInv
<1>2. /\ state = "expanded"
      /\ UNCHANGED << mraidVars, asked, navigating >>
  BY DEF CloseExpanded, IsExpanded
<1>3. root \in {Nowhere, App} \cup DOMAIN containers
  BY <1>1, BannerFacts, RootIsAView
<1>4. App # Nowhere
  BY DEF App, Nowhere
<1>5. CASE root = App
  <2>1. crashed' = TRUE /\ parted' = TRUE /\ UNCHANGED viewVars
    BY <1>4, <1>5 DEF CloseExpanded
  <2>2. BannerTypeOK'
    BY <1>1, <1>2, <2>1 DEF BannerTypeOK, MraidTypeOK, mraidVars, viewVars
  <2>3. PlacesInv' /\ TogetherInv'
    BY <1>1, <1>2, <2>1 DEF PlacesInv, TogetherInv, mraidVars, viewVars
  <2> QED
    BY <2>2, <2>3 DEF BannerInv
<1>6. CASE root = Nowhere
  <2>1. UNCHANGED << viewVars, crashed, parted >>
    BY <1>4, <1>6 DEF CloseExpanded
  <2> QED
    BY <1>2, <2>1, BannerLoadingKeeps DEF bannerVars, viewVars, mraidVars
<1>7. CASE root \notin {Nowhere, App}
  <2>1. CloseFull(root) /\ UNCHANGED << crashed, parted >>
    BY <1>7 DEF CloseExpanded
  <2>2. root \in DOMAIN containers
    BY <1>3, <1>7
  <2>3. ASSUME ~parted
        PROVE  IsFull(root) /\ containers[root].shown = "up" /\ Presented(root) = {}
    <3>1. OneContainerInv /\ PhaseInv
      BY <1>1, <2>3 DEF TogetherInv
    <3>2. superview # App
      BY <1>7 DEF Root, FullRoot, App
    <3>3. superview \in DOMAIN containers /\ containers[superview].shown = "up" /\ superview > 0
      BY <1>1, <3>1, <3>2, BannerFacts DEF OneContainerInv, Nowhere
    <3>4. containers[superview].kind # "resized"
      BY <1>2, <3>1, <3>3 DEF PhaseInv, Live
    <3>5. IsFull(superview)
      BY <1>1, <3>3, <3>4, BannerFacts DEF IsFull
    <3>6. root = superview
      BY <3>2, <3>3, <3>5 DEF Root, FullRoot
    <3> QED
      BY <1>1, <2>2, <3>1, <3>3, <3>5, <3>6, NothingPresented
  <2> HIDE DEF root
  <2> QED
    BY <1>2, <2>1, <2>2, <2>3, CloseFullKeeps
<1> QED
  BY <1>3, <1>5, <1>6, <1>7

\* A container that is alone goes off the screen and the state becomes default.
LEMMA GoneKeeps ==
    ASSUME BannerInv, NEW c \in DOMAIN containers,
           containers' = ShowAs(containers, c, "gone"),
           state' = OnSuccessClose(state),
           superview' \in {Nowhere, App} \cup DOMAIN containers,
           ~parted => /\ Live(c)
                      /\ state \in {"expanded", "resized"}
                      /\ expandBlocks = 0
                      /\ superview' = App,
           UNCHANGED << loadBlocks, expandBlocks, webViewContainer, resizedContainer, asked,
                        navigating, crashed, parted >>
    PROVE  BannerInv'
<1>1. BannerTypeOK /\ PlacesInv /\ TogetherInv
  BY DEF BannerInv
<1>2. /\ containers' \in Seq(Container)
      /\ Len(containers') = Len(containers)
      /\ DOMAIN containers' = DOMAIN containers
  BY <1>1, ShowAsSequence DEF BannerTypeOK
<1>3. ASSUME NEW d \in DOMAIN containers
      PROVE  /\ containers'[d].kind = containers[d].kind
             /\ containers'[d].home = containers[d].home
             /\ containers'[d].under = containers[d].under
             /\ containers'[d].shown = IF d = c THEN "gone" ELSE containers[d].shown
  BY <1>1, ShowAsFields DEF BannerTypeOK
<1>4. state' \in {"default", "hidden"} /\ (state \in {"expanded", "resized"} => state' = "default")
  BY DEF OnSuccessClose
<1>5. BannerTypeOK'
  <2>1. MraidTypeOK'
    BY <1>1, <1>4 DEF BannerTypeOK, MraidTypeOK, MRAIDState
  <2> QED
    BY <1>1, <1>2, <2>1 DEF BannerTypeOK
<1>6. PlacesInv'
  BY <1>1, <1>2, <1>3, <1>4 DEF PlacesInv
<1>7. ASSUME ~parted
      PROVE  OneContainerInv' /\ PhaseInv'
  <2>1. OneContainerInv /\ PhaseInv
    BY <1>1, <1>7 DEF TogetherInv
  <2>2. \A d \in DOMAIN containers : containers'[d].shown = "gone"
    BY <1>3, <1>7, <2>1 DEF OneContainerInv, Live
  <2>3. OneContainerInv'
    BY <1>2, <1>3, <1>7, <2>1, <2>2 DEF OneContainerInv, Live
  <2>4. PhaseInv'
    BY <1>2, <1>4, <1>7, <2>2 DEF PhaseInv, Live
  <2> QED
    BY <2>3, <2>4
<1>8. TogetherInv'
  BY <1>1, <1>7 DEF TogetherInv
<1> QED
  BY <1>5, <1>6, <1>8 DEF BannerInv

LEMMA DismissedKeeps ==
    ASSUME BannerInv, NEW c \in DOMAIN containers, Dismissed(c)
    PROVE  BannerInv'
<1>1. /\ containers' = ShowAs(containers, c, "gone")
      /\ containers[c].shown = "leaving"
      /\ expandBlocks = 0
      /\ state' = OnSuccessClose(state)
      /\ UNCHANGED << loadBlocks, expandBlocks, superview, webViewContainer, resizedContainer,
                      asked, navigating, crashed, parted >>
  BY DEF Dismissed, ShowAs
<1>2. superview \in {Nowhere, App} \cup DOMAIN containers
  BY BannerFacts DEF BannerInv
<1>3. ASSUME ~parted
      PROVE  Live(c) /\ state \in {"expanded", "resized"} /\ superview = App
  BY <1>1, <1>3 DEF BannerInv, TogetherInv, OneContainerInv, PhaseInv, Live
<1> QED
  BY <1>1, <1>2, <1>3, GoneKeeps

LEMMA CloseAreaKeeps ==
    ASSUME BannerInv, NEW c \in DOMAIN containers, CloseArea(c)
    PROVE  BannerInv'
<1>1. /\ containers' = ShowAs(containers, c, "gone")
      /\ containers[c].kind = "resized"
      /\ containers[c].shown = "up"
      /\ superview' = containers[c].home
      /\ state' = OnSuccessClose(state)
      /\ UNCHANGED << loadBlocks, expandBlocks, webViewContainer, resizedContainer,
                      asked, navigating, crashed, parted >>
  BY DEF CloseArea, ShowAs, OnScreen
<1>2. superview' \in {Nowhere, App} \cup DOMAIN containers
  BY <1>1, BannerFacts DEF BannerInv
<1>3. ASSUME ~parted
      PROVE  Live(c) /\ state \in {"expanded", "resized"} /\ expandBlocks = 0 /\ superview' = App
  BY <1>1, <1>3 DEF BannerInv, TogetherInv, OneContainerInv, PhaseInv, Live
<1> QED
  BY <1>1, <1>2, <1>3, GoneKeeps

\* A new container holds the web view; the container g, if there is one, is gone.
LEMMA NewContainerKeeps ==
    ASSUME BannerInv, NEW g \in {Nowhere} \cup DOMAIN containers, NEW k \in Container,
           k.home <= Len(containers), k.under <= Len(containers),
           containers' = Append(IF g = Nowhere THEN containers ELSE ShowAs(containers, g, "gone"), k),
           MraidTypeOK',
           superview' \in {Nowhere, App, Len(containers) + 1},
           webViewContainer' \in {Nowhere, App} \cup DOMAIN containers,
           resizedContainer' \in {Nowhere, Len(containers) + 1} \cup DOMAIN containers,
           state' = "resized" => resizedContainer' # Nowhere,
           UNCHANGED << asked, navigating, crashed >>,
           parted' \in BOOLEAN,
           ~parted' =>
              /\ ~parted
              /\ k.home = App /\ k.under = App /\ k.shown = "up"
              /\ \A c \in DOMAIN containers : Live(c) => c = g
              /\ superview' = Len(containers) + 1
              /\ IF k.kind = "resized"
                 THEN /\ state' = "resized" /\ expandBlocks' = 0
                      /\ resizedContainer' = Len(containers) + 1 /\ webViewContainer' = App
                 ELSE state' \notin {"expanded", "resized"} /\ expandBlocks' = 1
    PROVE  BannerInv'
<1> DEFINE old == IF g = Nowhere THEN containers ELSE ShowAs(containers, g, "gone")
           new == Len(containers) + 1
<1>1. BannerTypeOK /\ PlacesInv /\ TogetherInv
  BY DEF BannerInv
<1>2. /\ containers \in Seq(Container)
      /\ Len(containers) \in Nat
      /\ DOMAIN containers = 1..Len(containers)
  BY <1>1, BannerFacts DEF BannerTypeOK
<1>3. /\ old \in Seq(Container)
      /\ Len(old) = Len(containers)
      /\ DOMAIN old = DOMAIN containers
  BY <1>2, ShowAsSequence
<1>4. ASSUME NEW c \in DOMAIN containers
      PROVE  /\ old[c].kind = containers[c].kind
             /\ old[c].home = containers[c].home
             /\ old[c].under = containers[c].under
             /\ old[c].shown = IF c = g THEN "gone" ELSE containers[c].shown
  <2>1. CASE g = Nowhere
    BY <1>1, <2>1, BannerFacts
  <2>2. CASE g # Nowhere
    <3>1. old = ShowAs(containers, g, "gone")
      BY <2>2
    <3>2. g \in DOMAIN containers
      BY <2>2
    <3> HIDE DEF old
    <3> QED
      BY <1>2, <1>4, <3>1, <3>2, ShowAsFields
  <2> QED
    BY <2>1, <2>2
<1>5. containers' = Append(old, k)
  OBVIOUS
<1> HIDE DEF old
<1>6. /\ containers' \in Seq(Container)
      /\ Len(containers') = new
      /\ DOMAIN containers' = DOMAIN containers \cup {new}
      /\ containers'[new] = k
      /\ new > 0 /\ new \notin DOMAIN containers
  <2>1. new > 0 /\ new \notin DOMAIN containers
    BY <1>2
  <2>2. /\ containers' \in Seq(Container)
        /\ Len(containers') = Len(old) + 1
        /\ DOMAIN containers' = DOMAIN old \cup {Len(old) + 1}
        /\ containers'[Len(old) + 1] = k
    <3>1. containers' \in Seq(Container)
      BY <1>3, <1>5, ContainerAdded, Zenon
    <3>2. Len(containers') = Len(old) + 1
      BY <1>3, <1>5
    <3>3. DOMAIN containers' = DOMAIN old \cup {Len(old) + 1}
      BY <1>3, <1>5, <3>1, <3>2, <1>2
    <3>4. containers'[Len(old) + 1] = k
      BY <1>3, <1>5
    <3> QED
      BY <3>1, <3>2, <3>3, <3>4
  <2> QED
    BY <1>3, <2>1, <2>2
<1>7. ASSUME NEW c \in DOMAIN containers
      PROVE  /\ containers'[c].kind = containers[c].kind
             /\ containers'[c].home = containers[c].home
             /\ containers'[c].under = containers[c].under
             /\ containers'[c].shown = IF c = g THEN "gone" ELSE containers[c].shown
  <2>1. containers'[c] = old[c]
    BY <1>2, <1>3, <1>5
  <2>2. /\ old[c].kind = containers[c].kind
        /\ old[c].home = containers[c].home
        /\ old[c].under = containers[c].under
        /\ old[c].shown = IF c = g THEN "gone" ELSE containers[c].shown
    BY <1>4, <1>7, Zenon
  <2> QED
    BY <2>1, <2>2, Zenon
<1>8. BannerTypeOK'
  <2>1. superview' \in ({Nowhere, App} \cup DOMAIN containers)'
    BY <1>6
  <2>2. webViewContainer' \in ({Nowhere, App} \cup DOMAIN containers)'
    BY <1>6
  <2>3. resizedContainer' \in ({Nowhere} \cup DOMAIN containers)'
    BY <1>6
  <2> QED
    BY <1>1, <1>6, <2>1, <2>2, <2>3 DEF BannerTypeOK
<1>9. PlacesInv'
  <2>1. ASSUME NEW c \in DOMAIN containers
        PROVE  containers'[c].home <= new /\ containers'[c].under <= new
    <3>1. containers[c].home <= Len(containers) /\ containers[c].under <= Len(containers)
      BY <1>1 DEF PlacesInv
    <3>2. containers[c].home \in Int /\ containers[c].under \in Int
      BY <1>1, <1>2, BannerFacts DEF App, Nowhere
    <3>3. containers[c].home <= new /\ containers[c].under <= new
      BY <1>2, <3>1, <3>2
    <3> QED
      BY <1>7, <3>3
  <2>2. containers'[new].home <= new /\ containers'[new].under <= new
    <3>1. k.home \in Int /\ k.under \in Int
      BY DEF Container, Views, App, Nowhere
    <3> QED
      BY <1>2, <1>6, <3>1
  <2> QED
    BY <1>6, <2>1, <2>2 DEF PlacesInv
<1>10. ASSUME ~parted'
       PROVE  OneContainerInv' /\ PhaseInv'
  <2>1. OneContainerInv /\ PhaseInv /\ ~crashed'
    BY <1>1, <1>10 DEF TogetherInv
  <2>2. \A c \in DOMAIN containers : containers'[c].shown = "gone"
    BY <1>7, <1>10 DEF Live
  <2>3. \A c \in DOMAIN containers' : Live(c)' => c = new
    BY <1>6, <2>2 DEF Live
  <2>4. k.kind \in {"full", "resized"}
    BY DEF Container
  <2>5. new # App /\ new # Nowhere
    BY <1>2 DEF App, Nowhere
  <2>6. OneContainerInv'
    <3>1. \A c \in DOMAIN containers' :
             /\ containers'[c].home = App /\ containers'[c].under = App
             /\ containers'[c].shown \in {"gone", "up"}
      BY <1>6, <1>7, <1>10, <2>1, <2>2 DEF OneContainerInv
    <3>2. containers'[superview'].shown = "up" /\ superview' > 0
      BY <1>6, <1>10
    <3>3. \A c \in DOMAIN containers' : containers'[c].shown = "up" => superview' = c
      BY <1>10, <2>3 DEF Live
    <3> QED
      BY <2>3, <3>1, <3>2, <3>3 DEF OneContainerInv
  <2>7. PhaseInv'
    <3>1. CASE k.kind = "resized"
      BY <1>6, <1>10, <2>3, <3>1 DEF PhaseInv
    <3>2. CASE k.kind # "resized"
      <4>1. \E c \in DOMAIN containers' : Live(c)' /\ IsFull(c)'
        BY <1>6, <1>10, <2>4, <3>2 DEF Live, IsFull
      <4> QED
        BY <1>6, <1>10, <2>3, <3>2, <4>1 DEF PhaseInv
    <3> QED
      BY <3>1, <3>2
  <2> QED
    BY <2>6, <2>7
<1>11. TogetherInv'
  BY <1>1, <1>10 DEF TogetherInv
<1> QED
  BY <1>8, <1>9, <1>11 DEF BannerInv

LEMMA ExpandKeeps == BannerInv /\ Expand => BannerInv'
<1> SUFFICES ASSUME BannerInv, Expand PROVE BannerInv'
  OBVIOUS
<1> DEFINE closing == state = "resized" /\ Exists(containers[resizedContainer].home)
           from == IF closing THEN containers[resizedContainer].home ELSE superview
           root == Root(from)
           shown == IF CanPresent(root) THEN "up" ELSE "gone"
           g == IF closing THEN resizedContainer ELSE Nowhere
           k == [kind |-> "full", home |-> from, under |-> root, shown |-> shown]
<1>1. BannerTypeOK /\ PlacesInv /\ TogetherInv
  BY DEF BannerInv
<1>2. /\ state # "expanded"
      /\ containers' = Append(IF closing THEN ShowAs(containers, resizedContainer, "gone")
                             ELSE containers, k)
      /\ superview' = IF shown = "up" THEN Len(containers) + 1 ELSE Nowhere
      /\ state' = IF closing THEN OnSuccessClose(state) ELSE state
      /\ parted' = (parted \/ expandBlocks > 0)
      /\ expandBlocks' = expandBlocks + 1
      /\ UNCHANGED << loadBlocks, webViewContainer, resizedContainer, asked, navigating, crashed >>
  BY DEF Expand, ShowAs
<1>3. from \in {Nowhere, App} \cup DOMAIN containers
  BY <1>1, BannerFacts
<1>4. root \in {Nowhere, App} \cup DOMAIN containers
  BY <1>1, <1>3, RootIsAView
<1>5. \A v \in {Nowhere, App} \cup DOMAIN containers : v \in Views /\ v <= Len(containers)
  BY <1>1, BannerFacts DEF Views, App, Nowhere
<1>6. shown \in {"up", "gone"}
  OBVIOUS
<1>7. g \in {Nowhere} \cup DOMAIN containers
  BY <1>1, BannerFacts
<1>8. closing <=> g # Nowhere
  BY <1>1, BannerFacts
<1>9. /\ OnSuccessClose(state) \in {"default", "hidden"}
      /\ state = "resized" => OnSuccessClose(state) = "default"
  BY DEF OnSuccessClose
<1>10. ASSUME ~parted'
       PROVE  /\ from = App /\ root = App /\ shown = "up"
              /\ \A c \in DOMAIN containers : Live(c) => c = g
              /\ closing <=> state = "resized"
              /\ expandBlocks = 0
  <2>1. ~parted /\ expandBlocks = 0 /\ OneContainerInv /\ PhaseInv
    <3>1. ~parted /\ ~(expandBlocks > 0)
      BY <1>2, <1>10
    <3>2. expandBlocks = 0
      BY <1>1, <3>1, BannerFacts
    <3> QED
      BY <1>1, <3>1, <3>2 DEF TogetherInv
  <2>2. ASSUME state = "resized"
        PROVE  closing /\ containers[resizedContainer].home = App
    BY <1>1, <2>1, <2>2, BannerFacts DEF OneContainerInv, Exists
  <2>3. \A c \in DOMAIN containers : Live(c) =>
           containers[c].kind = "resized" /\ state = "resized" /\ c = resizedContainer
    BY <1>2, <2>1 DEF PhaseInv
  <2>4. \A c \in DOMAIN containers : Live(c) => c = g
    BY <2>2, <2>3
  <2>5. ASSUME ~closing
        PROVE  superview = App
    <3>1. state # "resized"
      BY <2>2, <2>5
    <3>2. superview \in DOMAIN containers => superview = App
      BY <2>1, <2>3, <3>1 DEF OneContainerInv, Live
    <3> QED
      BY <1>1, <2>1, <3>2, BannerFacts DEF OneContainerInv, Nowhere
  <2>6. from = App
    BY <2>2, <2>5
  <2>7. root = App
    BY <2>6 DEF Root, FullRoot, App, Nowhere
  <2>8. Presented(App) = {}
    BY <2>3 DEF Presented, IsFull, Live
  <2>9. shown = "up"
    BY <2>7, <2>8 DEF CanPresent, App, Nowhere
  <2> QED
    BY <2>1, <2>2, <2>4, <2>6, <2>7, <2>9
<1>11. state' = "resized" => resizedContainer' # Nowhere
  BY <1>1, <1>2, <1>9 DEF PlacesInv
<1>12. MraidTypeOK'
  BY <1>1, <1>2, <1>9 DEF BannerTypeOK, MraidTypeOK, MRAIDState
<1>13. parted' \in BOOLEAN
  BY <1>2
<1>14. superview' \in {Nowhere, App, Len(containers) + 1}
  BY <1>2
<1>15. /\ webViewContainer' \in {Nowhere, App} \cup DOMAIN containers
       /\ resizedContainer' \in {Nowhere, Len(containers) + 1} \cup DOMAIN containers
  BY <1>1, <1>2 DEF BannerTypeOK
<1> HIDE DEF closing, from, root, shown, g
<1>16. containers' = Append(IF g = Nowhere THEN containers ELSE ShowAs(containers, g, "gone"), k)
  BY <1>2, <1>8 DEF g
<1>17. k \in Container /\ k.home <= Len(containers) /\ k.under <= Len(containers)
  BY <1>3, <1>4, <1>5, <1>6 DEF Container
<1>18. ASSUME ~parted'
       PROVE  /\ ~parted
              /\ k.home = App /\ k.under = App /\ k.shown = "up" /\ k.kind = "full"
              /\ \A c \in DOMAIN containers : Live(c) => c = g
              /\ superview' = Len(containers) + 1
              /\ state' \notin {"expanded", "resized"} /\ expandBlocks' = 1
  <2>1. ~parted /\ expandBlocks' = 1
    <3>1. ~parted /\ expandBlocks = 0
      BY <1>2, <1>10, <1>18
    <3>2. expandBlocks' = expandBlocks + 1
      BY <1>2
    <3> QED
      BY <3>1, <3>2
  <2>2. state' \notin {"expanded", "resized"}
    BY <1>2, <1>9, <1>10, <1>18
  <2>3. superview' = Len(containers) + 1
    BY <1>2, <1>10, <1>18
  <2>4. k.home = from /\ k.under = root /\ k.shown = shown /\ k.kind = "full"
    OBVIOUS
  <2> QED
    BY <1>10, <1>18, <2>1, <2>2, <2>3, <2>4
<1> HIDE DEF k
<1> QED
  BY <1>2, <1>7, <1>11, <1>12, <1>13, <1>14, <1>15, <1>16, <1>17, <1>18, NewContainerKeeps

LEMMA ResizeKeeps == BannerInv /\ Resize => BannerInv'
<1> SUFFICES ASSUME BannerInv, Resize PROVE BannerInv'
  OBVIOUS
<1> DEFINE home == NotedSuperview
           root == Root(superview)
           g == resizedContainer
           k == [kind |-> "resized", home |-> home, under |-> root, shown |-> "up"]
<1>1. BannerTypeOK /\ PlacesInv /\ TogetherInv
  BY DEF BannerInv
<1>2. /\ state \in {"default", "resized"}
      /\ webViewContainer' = home
      /\ UNCHANGED << loadBlocks, expandBlocks, asked, navigating, crashed >>
  BY DEF Resize
<1>3. home \in {Nowhere, App} \cup DOMAIN containers
  BY <1>1 DEF BannerTypeOK, NotedSuperview
<1>4. root \in {Nowhere, App} \cup DOMAIN containers
  BY <1>1, BannerFacts, RootIsAView
<1>5. ASSUME ~parted, state = "resized"
      PROVE  home = App
  BY <1>1, <1>5 DEF TogetherInv, PhaseInv, NotedSuperview
<1>6. CASE UNCHANGED << state, superview, containers, resizedContainer, parted >>
  <2>1. MraidTypeOK'
    BY <1>1, <1>2, <1>6 DEF BannerTypeOK, MraidTypeOK
  <2>2. BannerTypeOK'
    BY <1>1, <1>2, <1>3, <1>6, <2>1 DEF BannerTypeOK
  <2>3. PlacesInv'
    BY <1>1, <1>6 DEF PlacesInv
  <2>4. TogetherInv'
    BY <1>1, <1>2, <1>5, <1>6 DEF TogetherInv, OneContainerInv, PhaseInv, Live, IsFull
  <2> QED
    BY <2>2, <2>3, <2>4 DEF BannerInv
<1>7. CASE ~ UNCHANGED << state, superview, containers, resizedContainer, parted >>
  <2>1. /\ root # Nowhere
        /\ containers' = Append(IF g = Nowhere THEN containers ELSE ShowAs(containers, g, "gone"), k)
        /\ superview' = Len(containers) + 1
        /\ resizedContainer' = Len(containers) + 1
        /\ state' = "resized"
        /\ parted' = (parted \/ expandBlocks > 0)
    BY <1>7 DEF Resize, ShowAs
  <2>2. k \in Container /\ k.home <= Len(containers) /\ k.under <= Len(containers)
    <3>1. \A v \in {Nowhere, App} \cup DOMAIN containers : v \in Views /\ v <= Len(containers)
      BY <1>1, BannerFacts DEF Views, App, Nowhere
    <3> HIDE DEF home, root
    <3> QED
      BY <1>3, <1>4, <3>1 DEF Container
  <2>3. ASSUME ~parted'
        PROVE  /\ ~parted
               /\ home = App /\ root = App
               /\ \A c \in DOMAIN containers : Live(c) => c = g
               /\ expandBlocks = 0
    <3>1. ~parted /\ expandBlocks = 0 /\ OneContainerInv /\ PhaseInv
      <4>1. ~parted /\ ~(expandBlocks > 0)
        BY <2>1, <2>3
      <4>2. expandBlocks = 0
        BY <1>1, <4>1, BannerFacts
      <4> QED
        BY <1>1, <4>1, <4>2 DEF TogetherInv
    <3>2. \A c \in DOMAIN containers : Live(c) =>
             containers[c].kind = "resized" /\ state = "resized" /\ c = g
      BY <1>2, <3>1 DEF PhaseInv
    <3>3. CASE superview = App
      <4>1. home = App
        BY <1>2, <1>5, <3>1, <3>3 DEF NotedSuperview
      <4>2. root = App
        BY <3>3 DEF Root, FullRoot, App, Nowhere
      <4> QED
        BY <3>1, <3>2, <4>1, <4>2
    <3>4. CASE superview # App
      <4>1. superview \in DOMAIN containers /\ containers[superview].shown = "up"
        BY <1>1, <3>1, <3>4, BannerFacts DEF OneContainerInv, Nowhere
      <4>2. containers[superview].kind = "resized" /\ state = "resized"
        BY <3>2, <4>1 DEF Live
      <4>3. containers[superview].under = App
        BY <3>1, <4>1 DEF OneContainerInv
      <4>4. ~(superview <= 0)
        BY <1>1, <4>1, BannerFacts
      <4>5. ~IsFull(superview)
        BY <4>2 DEF IsFull
      <4>6. root = FullRoot(containers[superview].under)
        BY <4>1, <4>4, <4>5 DEF Root
      <4>7. root = App
        BY <4>3, <4>6 DEF FullRoot
      <4> QED
        BY <1>5, <3>1, <3>2, <4>2, <4>7
    <3> QED
      BY <3>3, <3>4
  <2>4. MraidTypeOK'
    BY <1>1, <1>2, <2>1 DEF BannerTypeOK, MraidTypeOK, MRAIDState
  <2>5. g \in {Nowhere} \cup DOMAIN containers /\ Len(containers) + 1 # Nowhere
    BY <1>1, BannerFacts DEF BannerTypeOK, Nowhere
  <2>6. parted' \in BOOLEAN
    BY <2>1
  <2>7. k.home = home /\ k.under = root /\ k.shown = "up" /\ k.kind = "resized"
    OBVIOUS
  <2> HIDE DEF home, root, g, k
  <2> QED
    BY <1>2, <1>3, <2>1, <2>2, <2>3, <2>4, <2>5, <2>6, <2>7, NewContainerKeeps
<1> QED
  BY <1>6, <1>7

LEMMA NextBannerInv == BannerInv /\ [BannerNext]_bannerVars => BannerInv'
BY BannerLoadingKeeps, OnAdLoadBlockKeeps, ExpandBlockKeeps, CloseButtonKeeps, CloseExpandedKeeps,
   DismissedKeeps, CloseAreaKeeps, ExpandKeeps, ResizeKeeps DEF BannerNext


\* Every behaviour of the banner satisfies the inductive invariant.
THEOREM BannerInductive == BannerSpec => []BannerInv
BY InitBannerInv, NextBannerInv, PTL DEF BannerSpec

\* Every variable of the banner keeps its type, whatever the script, the user and the
\* application do (BannerTypeOK).
THEOREM BannerTypeCorrect == BannerSpec => []BannerTypeOK
<1>1. BannerInv => BannerTypeOK
  BY DEF BannerInv
<1> QED
  BY <1>1, BannerInductive, PTL

\* Outside the four windows the state of the handler tells where the web view is, the
\* web view is in the container on screen, and the close action finds its container
\* (StateMatchesView).
THEOREM StateTellsTheView == BannerSpec => []StateMatchesView
<1>1. BannerInv => StateMatchesView
  <2> SUFFICES ASSUME BannerInv, ~parted PROVE StateMatchesView
    BY DEF StateMatchesView
  <2>1. BannerTypeOK /\ PlacesInv /\ OneContainerInv /\ PhaseInv /\ ~crashed
    BY DEF BannerInv, TogetherInv
  <2>2. superview # Nowhere
    BY <2>1 DEF OneContainerInv, App, Nowhere
  <2>3. \A c \in DOMAIN containers :
           containers[c].shown \in {"up", "stuck"} => superview = c
    BY <2>1 DEF OneContainerInv
  <2>4. state = "resized" =>
           superview = resizedContainer /\ containers[superview].home = App
    BY <2>1, BannerFacts DEF OneContainerInv, PhaseInv
  <2>5. superview # App =>
           /\ superview \in DOMAIN containers /\ superview > 0
           /\ containers[superview].shown = "up" /\ Live(superview)
    BY <2>1, <2>2, BannerFacts DEF OneContainerInv, Live
  <2>6. ASSUME state = "expanded"
        PROVE  IF superview = App
               THEN \E c \in DOMAIN containers : containers[c].shown = "leaving"
               ELSE IsFull(superview) /\ containers[superview].shown = "up"
    <3>1. PICK c \in DOMAIN containers : Live(c) /\ IsFull(c)
      BY <2>1, <2>6 DEF PhaseInv
    <3>2. CASE superview = App
      BY <2>1, <2>3, <3>1, <3>2, BannerFacts DEF Live
    <3>3. CASE superview # App
      BY <2>1, <2>5, <3>1, <3>3 DEF OneContainerInv
    <3> QED
      BY <3>2, <3>3
  <2>7. ASSUME state \in {"loading", "default"}, superview # App
        PROVE  IsFull(superview) /\ expandBlocks > 0
    BY <2>1, <2>5, <2>7, BannerFacts DEF PhaseInv, IsFull
  <2> QED
    BY <2>1, <2>2, <2>3, <2>4, <2>6, <2>7 DEF StateMatchesView
<1> QED
  BY <1>1, BannerInductive, PTL

\* A banner is not hidden: what closes was expanded or resized.
VisibleInv == ~parted => state # "hidden"

LEMMA StaysVisible ==
    ASSUME BannerInv, VisibleInv, [BannerNext]_bannerVars
    PROVE  VisibleInv'
<1>1. CASE parted'
  BY <1>1 DEF VisibleInv
<1>2. ASSUME ~parted, NEW c \in DOMAIN containers, Dismissed(c) \/ CloseArea(c)
      PROVE  state' = "default"
  <2>1. /\ containers[c].shown # "gone" /\ containers[c].kind \in {"full", "resized"}
        /\ containers[c].kind = "full" => expandBlocks = 0
        /\ state' = OnSuccessClose(state)
    BY <1>2, BannerFacts DEF Dismissed, CloseArea, IsFull, OnScreen, BannerInv
  <2>2. state \in {"expanded", "resized"}
    BY <1>2, <2>1 DEF BannerInv, TogetherInv, PhaseInv, Live
  <2> QED
    BY <2>1, <2>2 DEF OnSuccessClose
<1>3. CASE ~parted
  <2>1. state' \in {state, "default", "expanded", "resized"}
    <3>1. ASSUME Expand PROVE state' \in {state, "default"}
      BY <3>1 DEF Expand, OnSuccessClose
    <3>2. ASSUME NEW c \in DOMAIN containers, CloseButton(c) PROVE state' = state
      BY <3>2 DEF CloseButton, mraidVars
    <3> QED
      BY <1>2, <1>3, <3>1, <3>2
         DEF BannerNext, LoadAd, BidArrives, NavigationEnds, BannerOnAdLoadBlock, OnAdLoadBlock,
             BannerExpandBlock, ExpandBlock, CloseExpanded, CloseDefault, Resize, bannerVars,
             mraidVars
  <2> QED
    BY <1>3, <2>1 DEF VisibleInv
<1>4. parted => parted'
  BY DEF BannerNext, LoadAd, BidArrives, NavigationEnds, BannerOnAdLoadBlock, Expand,
         BannerExpandBlock, CloseExpanded, CloseDefault, Resize, CloseButton, Dismissed,
         CloseArea, bannerVars
<1> QED
  BY <1>1, <1>3, <1>4

\* A close that has begun is completed: the container is not stuck, the web view is home,
\* and the ad becomes default when the animation ends, for any number of containers
\* (ClosingIsBacked).
THEOREM ClosingIsCompleted == BannerSpec => []ClosingIsBacked
<1>1. BannerInit => VisibleInv
  BY DEF BannerInit, MraidInit, VisibleInv
<1>2. BannerInv /\ VisibleInv => ClosingIsBacked
  <2> SUFFICES ASSUME BannerInv, VisibleInv, ~parted, NEW c \in DOMAIN containers
               PROVE  /\ containers[c].shown # "stuck"
                      /\ containers[c].shown = "leaving"
                            => superview = App /\ (IsExpanded \/ expandBlocks > 0)
    BY DEF ClosingIsBacked, VisibleInv
  <2>1. OneContainerInv /\ PhaseInv
    BY DEF BannerInv, TogetherInv
  <2>2. ASSUME containers[c].shown = "leaving"
        PROVE  superview = App /\ (IsExpanded \/ expandBlocks > 0)
    <3>1. Live(c) /\ IsFull(c) /\ superview = App
      BY <2>1, <2>2 DEF OneContainerInv, Live
    <3>2. expandBlocks = IF state = "expanded" THEN 0 ELSE 1
      BY <2>1, <3>1 DEF PhaseInv, IsFull
    <3> QED
      BY <3>1, <3>2 DEF IsExpanded
  <2> QED
    BY <2>1, <2>2 DEF OneContainerInv
<1> QED
  BY <1>1, <1>2, StaysVisible, BannerInductive, PTL DEF BannerSpec

\* A container on screen is made to leave it by its own closing alone.
LEMMA LeavesByClosing ==
    ASSUME BannerTypeOK, PlacesInv, [BannerNext]_bannerVars,
           NEW c \in DOMAIN containers, containers[c].shown = "up", containers'[c].shown = "leaving"
    PROVE  CloseFull(c)
<1>1. /\ Len(containers) \in Nat /\ DOMAIN containers = 1..Len(containers)
      /\ containers \in Seq(Container)
      /\ containers' # containers
  BY BannerFacts DEF BannerTypeOK
<1>2. ASSUME NEW d \in DOMAIN containers
      PROVE  /\ ShowAs(containers, d, "gone") \in Seq(Container)
             /\ Len(ShowAs(containers, d, "gone")) = Len(containers)
             /\ ShowAs(containers, d, "gone")[c].shown # "leaving"
  <2>1. /\ ShowAs(containers, d, "gone") \in Seq(Container)
        /\ Len(ShowAs(containers, d, "gone")) = Len(containers)
    BY <1>1, ShowAsSequence
  <2>2. ShowAs(containers, d, "gone")[c].shown = IF c = d THEN "gone" ELSE containers[c].shown
    BY <1>1, ShowAsFields
  <2> QED
    BY <2>1, <2>2
<1>3. ASSUME NEW s \in Seq(Container), Len(s) = Len(containers), NEW k, containers' = Append(s, k)
      PROVE  s[c].shown = "leaving"
  <2>1. c \in 1..Len(s)
    BY <1>1, <1>3
  <2>2. Append(s, k)[c] = s[c]
    BY <2>1
  <2> QED
    BY <1>3, <2>2
<1>4. CASE Expand
  <2> DEFINE closing == state = "resized" /\ Exists(containers[resizedContainer].home)
  <2>1. PICK k : containers' = Append(IF closing THEN ShowAs(containers, resizedContainer, "gone")
                                      ELSE containers, k)
    BY <1>4 DEF Expand, ShowAs
  <2>2. closing => resizedContainer \in DOMAIN containers
    BY BannerFacts
  <2> HIDE DEF closing
  <2> QED
    BY <1>1, <1>2, <1>3, <2>1, <2>2
<1>5. CASE Resize
  <2>1. PICK k : containers' = Append(IF resizedContainer = Nowhere THEN containers
                                      ELSE ShowAs(containers, resizedContainer, "gone"), k)
    BY <1>1, <1>5 DEF Resize, ShowAs
  <2>2. resizedContainer # Nowhere => resizedContainer \in DOMAIN containers
    BY DEF BannerTypeOK
  <2> QED
    BY <1>1, <1>2, <1>3, <2>1, <2>2
<1>6. ASSUME NEW d \in DOMAIN containers, Dismissed(d) \/ CloseArea(d)
      PROVE  FALSE
  <2>1. containers' = ShowAs(containers, d, "gone")
    BY <1>6 DEF Dismissed, CloseArea, ShowAs
  <2> QED
    BY <1>2, <2>1
<1>7. ASSUME NEW d \in Views, CloseFull(d)
      PROVE  CloseFull(c)
  <2>1. d = c \/ containers'[c] = containers[c]
    BY <1>1, <1>7 DEF CloseFull, viewVars
  <2> QED
    BY <1>7, <2>1
<1>8. CASE CloseExpanded
  <2>1. Root(superview) \in Views
    BY RootIsAView, BannerFacts DEF Views, App, Nowhere
  <2>2. CloseFull(Root(superview))
    BY <1>1, <1>8 DEF CloseExpanded, viewVars, App, Nowhere
  <2> QED
    BY <1>7, <2>1, <2>2
<1>9. ASSUME NEW d \in DOMAIN containers, CloseButton(d)
      PROVE  CloseFull(c)
  <2>1. d \in Views
    BY <1>1 DEF Views, App, Nowhere
  <2> QED
    BY <1>7, <1>9, <2>1 DEF CloseButton
<1>10. ASSUME LoadAd \/ BidArrives \/ NavigationEnds \/ BannerOnAdLoadBlock \/ BannerExpandBlock
               \/ CloseDefault \/ UNCHANGED bannerVars
       PROVE  FALSE
  BY <1>1, <1>10 DEF LoadAd, BidArrives, NavigationEnds, BannerOnAdLoadBlock, BannerExpandBlock,
                     CloseDefault, bannerVars, viewVars
<1> QED
  BY <1>4, <1>5, <1>6, <1>8, <1>9, <1>10 DEF BannerNext

\* As long as none of the four windows is hit, a full screen container that closes puts
\* the web view back into the banner (ClosesToBanner), which the code says it does always.
THEOREM ClosesHomeOutsideWindows == BannerSpec /\ []~parted => ClosesToBanner
<1> DEFINE Home == \A c \in DOMAIN containers :
                      superview = c /\ containers[c].kind = "full" /\ containers'[c].shown = "leaving"
                          => superview' = App
<1>1. BannerInv /\ ~parted /\ [BannerNext]_bannerVars => [Home]_bannerVars
  <2> SUFFICES ASSUME BannerInv, ~parted, [BannerNext]_bannerVars, NEW c \in DOMAIN containers,
                      superview = c, containers'[c].shown = "leaving"
               PROVE  superview' = App
    OBVIOUS
  <2>1. BannerTypeOK /\ PlacesInv /\ OneContainerInv
    BY DEF BannerInv, TogetherInv
  <2>2. c # App
    BY <2>1, BannerFacts
  <2>3. containers[c].shown = "up" /\ containers[c].home = App
    BY <2>1, <2>2 DEF OneContainerInv
  <2>4. CloseFull(c)
    BY <2>1, <2>3, LeavesByClosing
  <2>5. Exists(containers[c].home)
    BY <2>3 DEF Exists, App, Nowhere
  <2> QED
    BY <2>3, <2>4, <2>5 DEF CloseFull
<1> HIDE DEF Home
<1>2. BannerSpec /\ []~parted => [][Home]_bannerVars
  BY <1>1, BannerInductive, PTL DEF BannerSpec
<1> QED
  BY <1>2 DEF ClosesToBanner, Home

-----------------------------------------------------------------------------
(* InterstitialAd *)

\* A page loads in a web view, and an ad that is loaded is not loading: a presentation,
\* which needs the second, is thereby spared the loads that the first drops.
PageInv ==
    /\ pageLoading => webView # "none"
    /\ isAdLoaded => ~isAdLoading

InterstitialInv ==
    /\ InterstitialTypeOK
    /\ PageInv
    /\ CanAlwaysClose
    /\ LoadedAdHasWebView
    /\ LoadingIsBacked

LEMMA InitInterstitialInv == InterstitialInit => InterstitialInv
<1> SUFFICES ASSUME InterstitialInit PROVE InterstitialInv
  OBVIOUS
<1>1. InterstitialTypeOK
  BY DEF InterstitialInit, InterstitialTypeOK, Presentations, Handler!MraidInit, Handler!MraidTypeOK, Handler!MRAIDState
<1>2. PageInv /\ CanAlwaysClose /\ LoadedAdHasWebView /\ LoadingIsBacked
  BY DEF InterstitialInit, PageInv, CanAlwaysClose, LoadedAdHasWebView, LoadingIsBacked
<1> QED
  BY <1>1, <1>2 DEF InterstitialInv

-----------------------------------------------------------------------------
(* Loading *)

\* What a response handler, loadAdWithBid and the application do next.
LEMMA LoadDisplayDataKeeps ==
    ASSUME InterstitialInv, NEW loading \in BOOLEAN, LoadDisplayData(loading)
    PROVE  /\ deadEnd' \in BOOLEAN /\ cancelled' \in Nat /\ waiting' \in Nat
           /\ dispatched' \in Nat /\ pageLoading' \in BOOLEAN
           /\ webView' \in {"first", "later", "none"}
           /\ webView # "none" => webView' # "none"
           /\ pageLoading' = pageLoading
           /\ deadEnd => deadEnd'
           /\ loading => deadEnd' \/ (dispatched' > 0 /\ webView' # "none")
           /\ LoadingIsBacked => (isAdLoading =>
                    waiting' + cancelled' > 0 \/ (dispatched' > 0 /\ webView' # "none")
                        \/ pageLoading' \/ deadEnd')
<1>1. CASE deadEnd' = (deadEnd \/ loading) /\ UNCHANGED pageVars
  BY <1>1 DEF InterstitialInv, InterstitialTypeOK, pageVars, LoadingIsBacked
<1>2. CASE /\ dispatched' = dispatched + 1
           /\ webView' = IF webView = "none" THEN "later" ELSE webView
           /\ UNCHANGED << waiting, pageLoading, cancelled, deadEnd >>
  BY <1>2 DEF InterstitialInv, InterstitialTypeOK, LoadingIsBacked
<1> QED
  BY <1>1, <1>2 DEF LoadDisplayData

\* The steps of a load.
LEMMA LoadingKeeps ==
    ASSUME InterstitialInv,
           \/ LoadInterstitial \/ InterstitialBidArrives
           \/ LoadWebView \/ CreativeNavigates
    PROVE  InterstitialInv'
<1> USE DEF InterstitialInv, InterstitialTypeOK, PageInv, CanAlwaysClose, LoadedAdHasWebView,
            LoadingIsBacked, handlerVars, screenVars, flags
<1>1. Handler!MraidTypeOK'
  BY DEF LoadInterstitial, InterstitialBidArrives, LoadWebView, CreativeNavigates, Handler!MraidTypeOK
<1>2. CASE LoadInterstitial
  <2>1. InterstitialTypeOK'
    <3>1. waiting' \in Nat /\ dispatched' \in Nat /\ cancelled' \in Nat /\ clicks' \in Nat
      BY <1>1, <1>2 DEF LoadInterstitial, SafeToLoad
    <3>2. /\ isAdLoading' \in BOOLEAN /\ isAdLoaded' \in BOOLEAN /\ pageLoading' \in BOOLEAN
          /\ hasBeenDismissed' \in BOOLEAN /\ deadEnd' \in BOOLEAN
          /\ wasCovered' \in BOOLEAN
      BY <1>1, <1>2 DEF LoadInterstitial, SafeToLoad
    <3>3. /\ webView' \in {"first", "later", "none"}
          /\ presentation' \in Presentations
      BY <1>1, <1>2 DEF LoadInterstitial, SafeToLoad
    <3>4. Handler!MraidTypeOK'
      BY <1>1, <1>2 DEF LoadInterstitial, SafeToLoad
    <3> QED
      BY <3>1, <3>2, <3>3, <3>4
  <2>2. PageInv' /\ CanAlwaysClose' /\ LoadedAdHasWebView'
    BY <1>2 DEF LoadInterstitial, SafeToLoad
  <2>3. LoadingIsBacked'
    BY <1>2 DEF LoadInterstitial, SafeToLoad
  <2> QED
    BY <2>1, <2>2, <2>3
<1>3. CASE InterstitialBidArrives
  <2>1. InterstitialTypeOK'
    <3>1. waiting' \in Nat /\ dispatched' \in Nat /\ cancelled' \in Nat /\ clicks' \in Nat
      BY <1>1, <1>3 DEF InterstitialBidArrives
    <3>2. /\ isAdLoading' \in BOOLEAN /\ isAdLoaded' \in BOOLEAN /\ pageLoading' \in BOOLEAN
          /\ hasBeenDismissed' \in BOOLEAN /\ deadEnd' \in BOOLEAN
          /\ wasCovered' \in BOOLEAN
      BY <1>1, <1>3 DEF InterstitialBidArrives
    <3>3. /\ webView' \in {"first", "later", "none"}
          /\ presentation' \in Presentations
      BY <1>1, <1>3 DEF InterstitialBidArrives
    <3>4. Handler!MraidTypeOK'
      BY <1>1, <1>3 DEF InterstitialBidArrives
    <3> QED
      BY <3>1, <3>2, <3>3, <3>4
  <2>2. PageInv' /\ CanAlwaysClose' /\ LoadedAdHasWebView'
    BY <1>3 DEF InterstitialBidArrives
  <2>3. LoadingIsBacked'
    <3>1. CASE isAdLoading' = FALSE
      BY <3>1
    <3>2. CASE deadEnd' = (deadEnd \/ isAdLoading) /\ UNCHANGED isAdLoading
      BY <3>2
    <3>3. CASE dispatched' = dispatched + 1
               /\ webView' = IF webView = "none" THEN "later" ELSE webView
      BY <3>3
    <3> QED
      BY <1>3, <3>1, <3>2, <3>3 DEF InterstitialBidArrives
  <2> QED
    BY <2>1, <2>2, <2>3
<1>4. CASE LoadWebView
  <2>1. InterstitialTypeOK'
    <3>1. waiting' \in Nat /\ dispatched' \in Nat /\ cancelled' \in Nat /\ clicks' \in Nat
      BY <1>1, <1>4 DEF LoadWebView
    <3>2. /\ isAdLoading' \in BOOLEAN /\ isAdLoaded' \in BOOLEAN /\ pageLoading' \in BOOLEAN
          /\ hasBeenDismissed' \in BOOLEAN /\ deadEnd' \in BOOLEAN
          /\ wasCovered' \in BOOLEAN
      BY <1>1, <1>4 DEF LoadWebView
    <3>3. /\ webView' \in {"first", "later", "none"}
          /\ presentation' \in Presentations
      BY <1>1, <1>4 DEF LoadWebView
    <3>4. Handler!MraidTypeOK'
      BY <1>1, <1>4 DEF LoadWebView
    <3> QED
      BY <3>1, <3>2, <3>3, <3>4
  <2>2. PageInv' /\ CanAlwaysClose' /\ LoadedAdHasWebView'
    BY <1>4 DEF LoadWebView
  <2>3. LoadingIsBacked'
    BY <1>4 DEF LoadWebView
  <2> QED
    BY <2>1, <2>2, <2>3
<1>5. CASE CreativeNavigates
  BY <1>1, <1>5 DEF CreativeNavigates
<1> QED
  BY <1>2, <1>3, <1>4, <1>5

\* Loads of a bid the application has, and of data it has.
LEMMA DirectLoadsKeep ==
    ASSUME InterstitialInv, LoadInterstitialWithBid \/ LoadDisplayDataDirectly
    PROVE  InterstitialInv'
<1> USE DEF InterstitialInv, InterstitialTypeOK, PageInv, CanAlwaysClose, LoadedAdHasWebView,
            LoadingIsBacked, handlerVars, screenVars
<1>1. Handler!MraidTypeOK'
  BY DEF LoadInterstitialWithBid, LoadDisplayDataDirectly, Handler!MraidTypeOK
<1>2. CASE LoadInterstitialWithBid
  <2>1. CASE isAdLoading' = FALSE /\ UNCHANGED << deadEnd, pageVars >>
    BY <1>1, <1>2, <2>1 DEF LoadInterstitialWithBid, SafeToLoad, pageVars
  <2>2. CASE isAdLoading' = TRUE /\ LoadDisplayData(TRUE)
    BY <1>1, <1>2, <2>2, LoadDisplayDataKeeps DEF LoadInterstitialWithBid, SafeToLoad
  <2> QED
    BY <1>2, <2>1, <2>2 DEF LoadInterstitialWithBid
<1>3. CASE LoadDisplayDataDirectly
  BY <1>1, <1>3, LoadDisplayDataKeeps DEF LoadDisplayDataDirectly
<1> QED
  BY <1>2, <1>3

\* The ends of a navigation.
LEMMA NavigationKeeps ==
    ASSUME InterstitialInv, DidFinishNavigation \/ DidFailNavigation
    PROVE  InterstitialInv'
<1> USE DEF InterstitialInv, InterstitialTypeOK, PageInv, CanAlwaysClose, LoadedAdHasWebView,
            LoadingIsBacked, screenVars
<1>1. CASE DidFinishNavigation
  <2>1. InterstitialTypeOK'
    <3>1. waiting' \in Nat /\ dispatched' \in Nat /\ cancelled' \in Nat /\ clicks' \in Nat
      BY <1>1 DEF DidFinishNavigation, Handler!OnAdLoad, Handler!MraidTypeOK
    <3>2. /\ isAdLoading' \in BOOLEAN /\ isAdLoaded' \in BOOLEAN /\ pageLoading' \in BOOLEAN
          /\ hasBeenDismissed' \in BOOLEAN /\ deadEnd' \in BOOLEAN
          /\ wasCovered' \in BOOLEAN
      BY <1>1 DEF DidFinishNavigation, Handler!OnAdLoad, Handler!MraidTypeOK
    <3>3. /\ webView' \in {"first", "later", "none"}
          /\ presentation' \in Presentations
      BY <1>1 DEF DidFinishNavigation, Handler!OnAdLoad, Handler!MraidTypeOK
    <3>4. Handler!MraidTypeOK'
      BY <1>1 DEF DidFinishNavigation, Handler!OnAdLoad, Handler!MraidTypeOK
    <3> QED
      BY <3>1, <3>2, <3>3, <3>4
  <2>2. PageInv' /\ CanAlwaysClose' /\ LoadedAdHasWebView'
    BY <1>1 DEF DidFinishNavigation, Handler!OnAdLoad, Handler!MraidTypeOK
  <2>3. LoadingIsBacked'
    BY <1>1 DEF DidFinishNavigation, Handler!OnAdLoad, Handler!MraidTypeOK
  <2> QED
    BY <2>1, <2>2, <2>3
<1>2. CASE DidFailNavigation
  <2>1. InterstitialTypeOK'
    <3>1. waiting' \in Nat /\ dispatched' \in Nat /\ cancelled' \in Nat /\ clicks' \in Nat
      BY <1>2 DEF DidFailNavigation, FailureEndsLoading, NavigationFails, handlerVars, Handler!MraidTypeOK
    <3>2. /\ isAdLoading' \in BOOLEAN /\ isAdLoaded' \in BOOLEAN /\ pageLoading' \in BOOLEAN
          /\ hasBeenDismissed' \in BOOLEAN /\ deadEnd' \in BOOLEAN
          /\ wasCovered' \in BOOLEAN
      BY <1>2 DEF DidFailNavigation, FailureEndsLoading, NavigationFails, handlerVars, Handler!MraidTypeOK
    <3>3. /\ webView' \in {"first", "later", "none"}
          /\ presentation' \in Presentations
      BY <1>2 DEF DidFailNavigation, FailureEndsLoading, NavigationFails, handlerVars, Handler!MraidTypeOK
    <3>4. Handler!MraidTypeOK'
      BY <1>2 DEF DidFailNavigation, FailureEndsLoading, NavigationFails, handlerVars, Handler!MraidTypeOK
    <3> QED
      BY <3>1, <3>2, <3>3, <3>4
  <2>2. PageInv' /\ CanAlwaysClose' /\ LoadedAdHasWebView'
    BY <1>2 DEF DidFailNavigation, FailureEndsLoading, NavigationFails, handlerVars, Handler!MraidTypeOK
  <2>3. LoadingIsBacked'
    BY <1>2 DEF DidFailNavigation, FailureEndsLoading, NavigationFails, handlerVars, Handler!MraidTypeOK
  <2> QED
    BY <2>1, <2>2, <2>3
<1> QED
  BY <1>1, <1>2

-----------------------------------------------------------------------------
(* Presentation and dismissal *)

LEMMA DismissKeeps ==
    ASSUME InterstitialInv, Dismiss
    PROVE  /\ mraidState' \in Handler!MRAIDState
           /\ hasBeenDismissed'
           /\ presentation' \in Presentations
           /\ presentation' # "none" => presentation # "none"
           /\ presentation' # "shown"
           /\ wasCovered' = wasCovered
BY DEF InterstitialInv, InterstitialTypeOK, Presentations, CanAlwaysClose, Dismiss,
       Handler!MraidTypeOK, Handler!MRAIDState, Handler!OnSuccessClose

LEMMA ScreenKeeps ==
    ASSUME InterstitialInv, Present \/ ViewDidAppear \/ ViewDidDisappear \/ StackDismissed
    PROVE  InterstitialInv'
<1> USE DEF InterstitialInv, InterstitialTypeOK, PageInv, CanAlwaysClose, LoadedAdHasWebView,
            LoadingIsBacked, Presentations, flags, pageVars, handlerVars, Handler!MraidTypeOK
<1>1. CASE Present
  BY <1>1 DEF Present
<1>2. CASE ViewDidAppear
  BY <1>2 DEF ViewDidAppear
<1>3. CASE ViewDidDisappear
  BY <1>3 DEF ViewDidDisappear
<1>4. CASE StackDismissed
  BY <1>4 DEF StackDismissed
<1> QED
  BY <1>1, <1>2, <1>3, <1>4

\* The close button, the close action of the script, and a click.
LEMMA DismissalsKeep ==
    ASSUME InterstitialInv, CloseButtonPressed \/ MraidClose \/ ClickBlock
    PROVE  InterstitialInv'
<1>1. /\ Dismiss
      /\ UNCHANGED << flags, pageVars, readyBlocks, growBlocks >>
      /\ clicks' = clicks \/ (clicks > 0 /\ clicks' = clicks - 1)
  BY DEF CloseButtonPressed, MraidClose, ClickBlock
<1>2. InterstitialTypeOK'
  BY <1>1, DismissKeeps DEF InterstitialInv, InterstitialTypeOK, flags, pageVars, Handler!MraidTypeOK, Dismiss
<1>3. PageInv' /\ CanAlwaysClose' /\ LoadedAdHasWebView' /\ LoadingIsBacked'
  BY <1>1, DismissKeeps DEF InterstitialInv, InterstitialTypeOK, PageInv, CanAlwaysClose, LoadedAdHasWebView, LoadingIsBacked,
        flags, pageVars
<1> QED
  BY <1>2, <1>3 DEF InterstitialInv

\* What the script and the user ask for later, and the blocks of the handler.
LEMMA OthersKeep ==
    ASSUME InterstitialInv,
           MraidExpand \/ PlayVideo \/ Click \/ HandlerBlock \/ UNCHANGED interstitialVars
    PROVE  InterstitialInv'
<1> USE DEF InterstitialInv, InterstitialTypeOK, PageInv, CanAlwaysClose, LoadedAdHasWebView,
            LoadingIsBacked, flags, pageVars, screenVars, handlerVars, Handler!MraidTypeOK
<1>1. CASE MraidExpand
  BY <1>1 DEF MraidExpand
<1>2. CASE Click
  BY <1>2 DEF Click
<1>3. CASE HandlerBlock
  BY <1>3 DEF HandlerBlock, Handler!OnAdLoadBlock, Handler!ExpandBlock, Handler!MRAIDState
<1>4. CASE UNCHANGED interstitialVars
  BY <1>4 DEF interstitialVars
<1>5. CASE PlayVideo
  BY <1>5 DEF PlayVideo, Presentations
<1> QED
  BY <1>1, <1>2, <1>3, <1>4, <1>5

-----------------------------------------------------------------------------

LEMMA NextInterstitialInv ==
    InterstitialInv /\ [InterstitialNext]_interstitialVars => InterstitialInv'
BY LoadingKeeps, DirectLoadsKeep, NavigationKeeps, ScreenKeeps, DismissalsKeep, OthersKeep
   DEF InterstitialNext

\* The facts below, and what they need of each other.
THEOREM InterstitialInductive == InterstitialSpec => []InterstitialInv
BY InitInterstitialInv, NextInterstitialInv, PTL DEF InterstitialSpec

\* The variables of the interstitial, its view controller and its handler have their types.
THEOREM InterstitialTypeCorrect == InterstitialSpec => []InterstitialTypeOK
<1>1. InterstitialInv => InterstitialTypeOK
  BY DEF InterstitialInv
<1> QED
  BY <1>1, InterstitialInductive, PTL

\* hasBeenDismissed never disables the close button of an interstitial on screen.
THEOREM CloseButtonWorks == InterstitialSpec => []CanAlwaysClose
<1>1. InterstitialInv => CanAlwaysClose
  BY DEF InterstitialInv
<1> QED
  BY <1>1, InterstitialInductive, PTL

\* isAdLoaded is true of a web view that is there; nothing loads while the interstitial is
\* presented, and only a video over it makes it lose its web view (LoadedAdHasWebView).
THEOREM LoadedIsThere == InterstitialSpec => []LoadedAdHasWebView
<1>1. InterstitialInv => LoadedAdHasWebView
  BY DEF InterstitialInv
<1> QED
  BY <1>1, InterstitialInductive, PTL

\* isAdLoading, which refuses every load, is set only while something will clear it.
THEOREM NothingLoadsForEver == InterstitialSpec => []LoadingIsBacked
<1>1. InterstitialInv => LoadingIsBacked
  BY DEF InterstitialInv
<1> QED
  BY <1>1, InterstitialInductive, PTL

-----------------------------------------------------------------------------
(* NativeAd *)

\* The pixels were sent when the mark was set; only received ads are shown and marked.
ShownInv ==
    /\ \A a \in NativeAds : pixels[a] = (IF impressed[a] THEN 1 ELSE 0)
    /\ \A a \in NativeAds : impressed[a] => ad[a] = "received"
    /\ \A v \in NativeViews : nativeAd[v] # NoAd => ad[nativeAd[v]] = "received"

NativeInv == NativeTypeOK /\ ShownInv /\ DetectsWhileNeeded

LEMMA InitNativeInv == NativeInit => NativeInv
<1> SUFFICES ASSUME NativeInit PROVE NativeInv
  OBVIOUS
<1>1. NativeTypeOK
  BY DEF NativeInit, NativeTypeOK
<1>2. ShownInv /\ DetectsWhileNeeded
  BY DEF NativeInit, ShownInv, DetectsWhileNeeded
<1> QED
  BY <1>1, <1>2 DEF NativeInv

\* The loader moves an ad on until the application has it, and never after.
LEMMA LoaderKeeps ==
    ASSUME NativeInv, NEW a \in NativeAds,
           \/ LoadNative(a) \/ NativeBidArrives(a)
           \/ LoadNativeWithBid(a) \/ NotifyDidReceiveAd(a)
    PROVE  NativeInv'
<1>1. /\ UNCHANGED << delegateSet, impressed, pixels, alive, nativeAd, visible, ticking >>
      /\ ad[a] # "received"
      /\ \E to \in {"asked", "posted", "received", "lost"} : ad' = [ad EXCEPT ![a] = to]
  BY DEF LoadNative, NativeBidArrives, LoadNativeWithBid, NotifyDidReceiveAd
<1>2. NativeTypeOK'
  BY <1>1 DEF NativeInv, NativeTypeOK
<1>3. \A b \in NativeAds : ad[b] = "received" => ad'[b] = "received"
  BY <1>1 DEF NativeInv, NativeTypeOK
<1>4. ShownInv'
  BY <1>1, <1>3 DEF NativeInv, NativeTypeOK, ShownInv
<1>5. DetectsWhileNeeded'
  BY <1>1 DEF NativeInv, DetectsWhileNeeded
<1> QED
  BY <1>2, <1>4, <1>5 DEF NativeInv

\* What happens around the views.
LEMMA SurroundingsKeep ==
    ASSUME NativeInv,
           \/ DelegateChanges \/ UNCHANGED nativeVars
           \/ \E v \in NativeViews : VisibilityChanges(v) \/ ViewDeallocated(v)
    PROVE  NativeInv'
<1>1. /\ UNCHANGED << ad, impressed, pixels, nativeAd, ticking >>
      /\ delegateSet' \in BOOLEAN
      /\ \A v \in NativeViews : alive'[v] => alive[v]
      /\ alive' \in [NativeViews -> BOOLEAN]
      /\ visible' \in [NativeViews -> BOOLEAN]
  BY DEF NativeInv, NativeTypeOK, DelegateChanges, nativeVars, VisibilityChanges, ViewDeallocated
<1> QED
  BY <1>1 DEF NativeInv, NativeTypeOK, ShownInv, DetectsWhileNeeded

\* A view shows another ad: its detector is started or stopped for that one.
LEMMA SetNativeAdKeeps ==
    ASSUME NativeInv, NEW v \in NativeViews, NEW a \in NativeAds \cup {NoAd}, SetNativeAd(v, a)
    PROVE  NativeInv'
<1>1. NativeTypeOK'
  BY DEF NativeInv, NativeTypeOK, SetNativeAd, NeedsDetection
<1>2. ShownInv'
  BY DEF NativeInv, NativeTypeOK, ShownInv, SetNativeAd
<1>3. DetectsWhileNeeded'
  <2>1. nativeAd'[v] = a /\ (ticking'[v] <=> NeedsDetection(a))
    BY DEF NativeInv, NativeTypeOK, SetNativeAd
  <2>2. ASSUME NEW w \in NativeViews, w # v
        PROVE  nativeAd'[w] = nativeAd[w] /\ ticking'[w] = ticking[w]
    BY <2>2 DEF NativeInv, NativeTypeOK, SetNativeAd
  <2>3. UNCHANGED << impressed, alive >>
    BY DEF SetNativeAd
  <2> QED
    BY <2>1, <2>2, <2>3 DEF NativeInv, DetectsWhileNeeded, NeedsDetection
<1> QED
  BY <1>1, <1>2, <1>3 DEF NativeInv

\* A tick that sees the ad bills it unless it is billed, and is the last.
LEMMA OnTimerTickKeeps ==
    ASSUME NativeInv, NEW v \in NativeViews, OnTimerTick(v)
    PROVE  NativeInv'
<1> DEFINE a == nativeAd[v]
<1>1. /\ UNCHANGED << delegateSet, ad, alive, nativeAd, visible >>
      /\ ticking' = [ticking EXCEPT ![v] = FALSE]
  BY DEF OnTimerTick
<1>2. CASE alive[v] /\ a \in NativeAds /\ ~impressed[a]
  <2>1. /\ impressed' = [impressed EXCEPT ![a] = TRUE]
        /\ pixels' = [pixels EXCEPT ![a] = pixels[a] + 1]
    BY <1>2, NoAdIsNoAd DEF OnTimerTick, HandleImpression
  <2>2. NativeTypeOK'
    BY <1>1, <1>2, <2>1 DEF NativeInv, NativeTypeOK
  <2>3. ShownInv'
    BY <1>1, <1>2, <2>1, NoAdIsNoAd DEF NativeInv, NativeTypeOK, ShownInv
  <2>4. DetectsWhileNeeded'
    BY <1>1, <1>2, <2>1, NoAdIsNoAd DEF NativeInv, NativeTypeOK, DetectsWhileNeeded
  <2> QED
    BY <2>2, <2>3, <2>4 DEF NativeInv
<1>3. CASE ~(alive[v] /\ a \in NativeAds /\ ~impressed[a])
  <2>1. UNCHANGED << impressed, pixels >>
    BY <1>3 DEF NativeInv, NativeTypeOK, OnTimerTick, HandleImpression
  <2>2. NativeTypeOK'
    BY <1>1, <2>1 DEF NativeInv, NativeTypeOK
  <2>3. ShownInv'
    BY <1>1, <2>1 DEF NativeInv, ShownInv
  <2>4. DetectsWhileNeeded'
    BY <1>1, <1>3, <2>1, NoAdIsNoAd DEF NativeInv, NativeTypeOK, DetectsWhileNeeded
  <2> QED
    BY <2>2, <2>3, <2>4 DEF NativeInv
<1> QED
  BY <1>2, <1>3

LEMMA NextNativeInv == NativeInv /\ [NativeNext]_nativeVars => NativeInv'
BY LoaderKeeps, SurroundingsKeep, SetNativeAdKeeps, OnTimerTickKeeps DEF NativeNext

\* What the theorems on native ads rest on.
THEOREM NativeInductive == NativeSpec => []NativeInv
BY InitNativeInv, NextNativeInv, PTL DEF NativeSpec

\* The variables of the loader, the ads and the views have their types.
THEOREM NativeTypeCorrect == NativeSpec => []NativeTypeOK
<1>1. NativeInv => NativeTypeOK
  BY DEF NativeInv
<1> QED
  BY <1>1, NativeInductive, PTL

\* The pixels of an ad are sent once, in however many views it is shown.
THEOREM BilledOnce == NativeSpec => []ImpressedAtMostOnce
<1>1. ASSUME NativeInv, NEW a \in NativeAds
      PROVE  pixels[a] <= 1 /\ (pixels[a] = 1 => impressed[a] /\ ad[a] = "received")
  <2>1. /\ pixels[a] = IF impressed[a] THEN 1 ELSE 0
        /\ impressed[a] => ad[a] = "received"
    BY <1>1 DEF NativeInv, ShownInv
  <2>2. CASE impressed[a]
    BY <2>1, <2>2
  <2>3. CASE ~impressed[a]
    BY <2>1, <2>3
  <2> QED
    BY <2>2, <2>3
<1>2. NativeInv => ImpressedAtMostOnce
  BY <1>1 DEF ImpressedAtMostOnce
<1> QED
  BY <1>2, NativeInductive, PTL

\* A recycled view looks at the ad it shows now, as long as that ad needs it.
THEOREM DetectionFollowsTheAd == NativeSpec => []DetectsWhileNeeded
<1>1. NativeInv => DetectsWhileNeeded
  BY DEF NativeInv
<1> QED
  BY <1>1, NativeInductive, PTL

-----------------------------------------------------------------------------
(* MediaView *)

\* What is shown, the placeholder apart, is the image of imageUrl.
ShownImageInv == image # Placeholder => image = imageUrl

MediaInv == MediaTypeOK /\ ShownImageInv /\ ImageIsOfContent

LEMMA InitMediaInv == MediaInit => MediaInv
<1> SUFFICES ASSUME MediaInit PROVE MediaInv
  OBVIOUS
<1>1. MediaTypeOK
  <2>1. << >> \in Seq(Contents) /\ [c \in Contents |-> 0] \in [Contents -> Nat]
    OBVIOUS
  <2> QED
    BY <2>1 DEF MediaInit, MediaTypeOK
<1> QED
  BY <1>1 DEF MediaInit, MediaInv, ShownImageInv, ImageIsOfContent

\* A content is set: the placeholder stays away only over the image of that content.
LEMMA SetMediaContentKeeps ==
    ASSUME MediaInv, NEW c \in Contents \cup {NoContent}, SetMediaContent(c)
    PROVE  MediaInv'
<1>1. MediaTypeOK'
  <2>1. /\ mediaContent' \in Contents \cup {NoContent}
        /\ image' \in Contents \cup {Placeholder}
        /\ UNCHANGED << imageUrl, imageCache >>
        /\ overtaken' \in BOOLEAN
    BY DEF MediaInv, MediaTypeOK, SetMediaContent
  <2>2. downloading' \in [Contents -> Nat] /\ completions' \in Seq(Contents)
    <3>1. CASE UNCHANGED << downloading, completions >>
      BY <3>1 DEF MediaInv, MediaTypeOK
    <3>2. CASE c \in imageCache /\ completions' = Append(completions, c) /\ UNCHANGED downloading
      BY <3>2 DEF MediaInv, MediaTypeOK
    <3>3. CASE /\ c \in Contents
               /\ downloading' = [downloading EXCEPT ![c] = downloading[c] + 1]
               /\ UNCHANGED completions
      BY <3>3 DEF MediaInv, MediaTypeOK
    <3> QED
      BY <3>1, <3>2, <3>3 DEF SetMediaContent
  <2> QED
    BY <2>1, <2>2 DEF MediaInv, MediaTypeOK
<1>2. ShownImageInv' /\ ImageIsOfContent'
  BY DEF MediaInv, ShownImageInv, ImageIsOfContent, SetMediaContent, HasImageOf
<1> QED
  BY <1>1, <1>2 DEF MediaInv

\* Downloads and the cache do not touch what is shown.
LEMMA DownloadsKeep ==
    ASSUME MediaInv, NEW c \in Contents, DownloadEnds(c) \/ Evict(c)
    PROVE  MediaInv'
<1>1. UNCHANGED << mediaContent, image, imageUrl, overtaken >>
  BY DEF DownloadEnds, Evict
<1>2. /\ downloading' \in [Contents -> Nat]
      /\ imageCache' \subseteq Contents
  BY DEF MediaInv, MediaTypeOK, DownloadEnds, Evict
<1>3. completions' = completions \/ completions' = Append(completions, c)
  BY DEF DownloadEnds, Evict
<1>4. completions' \in Seq(Contents)
  <2>1. completions \in Seq(Contents) /\ Append(completions, c) \in Seq(Contents)
    BY DEF MediaInv, MediaTypeOK
  <2> QED
    BY <1>3, <2>1
<1> QED
  BY <1>1, <1>2, <1>4 DEF MediaInv, MediaTypeOK, ShownImageInv, ImageIsOfContent

\* An image comes, late or not.
LEMMA ShowImageKeeps ==
    ASSUME MediaInv, ShowImage
    PROVE  MediaInv'
<1>1. Head(completions) \in Contents /\ Tail(completions) \in Seq(Contents)
  BY DEF MediaInv, MediaTypeOK, ShowImage
<1> QED
  BY <1>1 DEF MediaInv, MediaTypeOK, ShownImageInv, ImageIsOfContent, ShowImage

LEMMA NextMediaInv == MediaInv /\ [MediaNext]_mediaVars => MediaInv'
<1> SUFFICES ASSUME MediaInv, [MediaNext]_mediaVars PROVE MediaInv'
  OBVIOUS
<1>1. CASE UNCHANGED mediaVars
  BY <1>1 DEF mediaVars, MediaInv, MediaTypeOK, ShownImageInv, ImageIsOfContent
<1> QED
  BY <1>1, SetMediaContentKeeps, DownloadsKeep, ShowImageKeeps DEF MediaNext

\* The variables of a media view have their types.
THEOREM MediaTypeCorrect == MediaSpec => []MediaTypeOK
<1>1. MediaInv => MediaTypeOK
  BY DEF MediaInv
<1> QED
  BY <1>1, InitMediaInv, NextMediaInv, PTL DEF MediaSpec

\* Once a content is set, the image of another is not shown until one comes late.
THEOREM RightImage == MediaSpec => []ImageIsOfContent
<1>1. MediaInv => ImageIsOfContent
  BY DEF MediaInv
<1> QED
  BY <1>1, InitMediaInv, NextMediaInv, PTL DEF MediaSpec
=============================================================================
