----------------------------- MODULE UrlOpening -----------------------------
(***************************************************************************)
(* CR_URLOpener and CR_URLResolver: the URL of a clicked ad with SKAdNetwork *)
(* parameters is followed through its redirections; one of the App Store is  *)
(* shown by a SKStoreProductViewController over the application, any other   *)
(* is opened outside.  The redirections are seen on the resolver's delegate  *)
(* queue, one callback at a time; the rest runs on the main thread.          *)
(***************************************************************************)
EXTENDS Naturals

CONSTANTS Clicks, NoClick

ASSUME NoClickIsNoClick == NoClick \notin Clicks

VARIABLES
    task,                \* of the resolver of each click: none, running, over
    resolved,            \* CR_URLResolver.resolved
    presentBlocks,       \* clicks whose block that presents the store is posted
    storeKitController,  \* the click it was made for
    presented,           \* the click whose store is on screen
    opened,              \* history: times the URL was opened or its store made
    answered             \* history: clicks whose completion was called or posted

urlVars == << task, resolved, presentBlocks, storeKitController, presented, opened, answered >>

UrlTypeOK ==
    /\ task \in [Clicks -> {"none", "running", "over"}]
    /\ resolved \in [Clicks -> BOOLEAN]
    /\ presentBlocks \subseteq Clicks
    /\ storeKitController \in Clicks \cup {NoClick}
    /\ presented \in Clicks \cup {NoClick}
    /\ opened \in [Clicks -> Nat]
    /\ answered \subseteq Clicks

UrlInit ==
    /\ task = [c \in Clicks |-> "none"]
    /\ resolved = [c \in Clicks |-> FALSE]
    /\ presentBlocks = {}
    /\ storeKitController = NoClick
    /\ presented = NoClick
    /\ opened = [c \in Clicks |-> 0]
    /\ answered = {}

\* Both callbacks of the task resolve, the first of them alone is heard.
AnyResolution(c) == TRUE
FirstResolution(c) == ~resolved[c]

\* openExternalURL:withCompletion:, which hands everything to UIApplication.
OpenOutside(c) ==
    /\ opened' = [opened EXCEPT ![c] = opened[c] + 1]
    /\ answered' = answered \cup {c}

\* resolveWithResolution: once per resolver.
ResolveAppStore(c) ==
    /\ resolved' = [resolved EXCEPT ![c] = TRUE]
    /\ presentBlocks' = IF FirstResolution(c) THEN presentBlocks \cup {c} ELSE presentBlocks

\* openExternalURL:withSKAdNetworkParameters: an ad with parameters is resolved unless
\* a store is there already; an App Store URL needs no request.
OpenExternalURL(c) ==
    /\ task[c] = "none"
    /\ \/ /\ task' = [task EXCEPT ![c] = "over"]
          /\ OpenOutside(c)
          /\ UNCHANGED << resolved, presentBlocks >>
       \/ /\ storeKitController = NoClick
          /\ task' = [task EXCEPT ![c] = "over"]
          /\ ResolveAppStore(c)
          /\ UNCHANGED << opened, answered >>
       \/ /\ storeKitController = NoClick
          /\ task' = [task EXCEPT ![c] = "running"]
          /\ UNCHANGED << resolved, presentBlocks, opened, answered >>
    /\ UNCHANGED << storeKitController, presented >>

\* willPerformHTTPRedirection to the App Store: the redirection is refused, and the task
\* will complete with the response it has.
RedirectToAppStore(c) ==
    /\ task[c] = "running"
    /\ FirstResolution(c)
    /\ ResolveAppStore(c)
    /\ UNCHANGED << task, storeKitController, presented, opened, answered >>

\* didCompleteWithError: the last URL is opened; an error is logged and nothing else.
TaskCompletes(c) ==
    /\ task[c] = "running"
    /\ task' = [task EXCEPT ![c] = "over"]
    /\ resolved' = [resolved EXCEPT ![c] = TRUE]
    /\ \/ FirstResolution(c) /\ OpenOutside(c)
       \/ UNCHANGED << opened, answered >>
    /\ UNCHANGED << presentBlocks, storeKitController, presented >>

StoreForgotten(c) == UNCHANGED storeKitController
StoreKept(c) == storeKitController' = c

\* The block of presentStoreKitController, which does not look again whether a store is
\* there.  UIKit presents over a controller that presents nothing.
PresentStore(c) ==
    /\ c \in presentBlocks
    /\ presentBlocks' = presentBlocks \ {c}
    /\ StoreKept(c)
    /\ opened' = [opened EXCEPT ![c] = opened[c] + 1]
    /\ \/ /\ presented = NoClick
          /\ presented' = c
          /\ answered' = answered \cup {c}
       \/ UNCHANGED << presented, answered >>
    /\ UNCHANGED << task, resolved >>

\* productViewControllerDidFinish.
StoreDidFinish ==
    /\ presented # NoClick
    /\ presented' = NoClick
    /\ storeKitController' = NoClick
    /\ UNCHANGED << task, resolved, presentBlocks, opened, answered >>

UrlNext ==
    \/ \E c \in Clicks : OpenExternalURL(c) \/ RedirectToAppStore(c) \/ TaskCompletes(c)
                           \/ PresentStore(c)
    \/ StoreDidFinish

UrlSpec == UrlInit /\ [][UrlNext]_urlVars

(***************************************************************************)
(* Properties.                                                             *)
(***************************************************************************)

\* A click opens one thing: neither the URL twice nor the store and the page behind the
\* redirection that led to it, though both callbacks resolve.
OpenedOnce ==
    \A c \in Clicks :
        opened[c] + (IF c \in presentBlocks THEN 1 ELSE 0) <= (IF task[c] = "none" THEN 0 ELSE 1)

\* While a store is on screen the opener knows of one, so that a click meanwhile starts
\* no resolution, even if the blocks of two clicks presented one after the other.
StoreOnScreenIsKnown ==
    presented # NoClick => storeKitController # NoClick /\ presented \in answered
=============================================================================
