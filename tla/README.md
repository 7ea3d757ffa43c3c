# Criteo Publisher SDK for iOS: specifications

TLA+ models of the concurrent core of the SDK, the TLC runs that check them on
small instances and the theorems TLAPS proves about them for every instance.
Paths such as `CR_BidManager.m` are relative to
`CriteoPublisherSdk/Sources/`; `PROJECT.json` maps every definition to its lines.

    tlc -workers 2 -config BidLive.cfg MCBidManager     # about 90 s
    tlc -workers 2 -config FeedbackDelivery.cfg MCFeedback   # about 120 s
    tlc -workers 2 -config QueueFile.cfg MCQueueFile    # about 140 s
    tlc -workers 2 -config Parts.cfg MCParts            # about 200 s
    tlapm BidManagerProofs.tla                          # about 11 min
    tlapm QueueFileProofs.tla                           # about 11 min
    tlapm FeedbackProofs.tla                            # about 3 min
    tlapm FeedbackRecoveryProofs.tla                    # about 1 min
    tlapm AdProofs.tla                                  # about 1 min, as are the three below
    tlapm ServiceProofs.tla
    tlapm PartsProofs.tla
    tlapm GrowthProofs.tla

## 1. Inventory

| component | state it keeps | operations | talks to |
|---|---|---|---|
| Bid manager (`CR_BidManager`) | `cdbTimeToNextCall`; the blocks it has posted | `loadCdbBidForAdUnit`, `getBidThenFetch`, `prefetchBids`, `fetchLiveBid`, `isSlotSilent`, `cacheBidsFromResponse` | everything below |
| Bid cache (`CR_CacheManager`) | ad unit -> bid, an `NSMutableDictionary` | `setBid` (locked), `getBidForAdUnit`, `removeBidForAdUnit` (not locked) | called by the bid manager from four threads |
| Thread manager (`CR_ThreadManager`) | `blockInProgressCounter`, `timeoutBarrierQueue`, one `handled` flag per race | `dispatchAsync...`, `dispatchAsyncOnGlobalQueueWithTimeout`, completion contexts | GCD |
| CDB call (`CR_ApiHandler`, `CR_NetworkManager`, `CR_CdbRequest`, `CR_CdbResponse`) | impression ids of the request | `callCdb`, `postToUrl` | NSURLSession; calls back the bid manager |
| User agent (`CR_DeviceInfo`) | `userAgent`, the blocks that wait for it, a loading flag | `waitForUserAgent` | a web view on the main queue |
| Feedback (`CR_FeedbackController`, `CR_FeedbackStorage`, `CR_FeedbackFileManager`, `CR_FeedbackFeatureGuard`) | one file per open message, the sending queue | `onCdbCallStarted/Response/Failure`, `onBidCached/Consumed`, `sendFeedbackBatch` | queue file, CDB call, configuration (KVO) |
| Queue file (`Cassette/`) | header, ring of elements, in a file | `add`, `peek`, `pop`, `clear`, expansion, recovery on open | the file system |
| Remote logs (`CR_RemoteLogHandler`, `CR_RemoteLogStorage`, `CR_Logging`) | the log queue, recursion depth per thread | `logMessage`, `sendRemoteLogBatch` | queue file, CDB call |
| Configuration (`CR_Config`, `CR_ConfigManager`, `Criteo`) | persisted settings, `registered` | registration, `refreshConfig` | user defaults, KVO observers |
| Interstitial (`CRInterstitial`, `CR_InterstitialViewController`) | `isAdLoading`, `isAdLoaded`, the web view, `hasBeenDismissed`, presentation | two ways to load, navigation callbacks, `present`, three ways to dismiss, a video of the creative over it | bid manager, web view, delegate, MRAID handler |
| Banner and MRAID (`CRBannerView`, `CRMRAIDHandler`, `CRFulllScreenContainer`, `MRAIDResizeHandler`) | the MRAID state, the containers and the view each took the web view from, delayed blocks | `loadAd`, `expand`, `resize`, `close`, close button and close area | bid manager, web view, JavaScript of the ad, UIKit's presentations |
| Native ads (`CRNativeLoader`, `CRNativeAdView`, `CR_ImpressionDetector`, `CRMediaView`) | the ad of each view, the detector's timer, `isImpressed`; media content, image and its URL | `loadAd`, the first visible moment, `setNativeAd`, `setMediaContent`, late images | bid manager, media downloader, image cache |
| URL opening (`CR_URLOpener`, `CR_URLResolver`) | `resolved`, `storeKitController` | `openExternalURL`, redirections, the App Store on screen | NSURLSession, StoreKit |
| App events | throttling date | send | NSURLSession |
| Data consent (`CR_Gdpr`, `CR_Ccpa`) | user defaults | read and parse | bid request |

How they interact.  A caller (interstitial, banner, native loader or the
application through `Criteo`) asks the bid manager for a bid and gets it through
a response handler, on whatever thread.  The bid manager reads the cache or
calls CDB through the API handler; the answer comes back on NSURLSession's
delegate queue.  Every step of a bid's life is reported to the feedback
controller, which persists it.  Nothing coordinates these threads except the
barrier queue of the thread manager and the locks named above.

Hard behaviours, all listed with their lines under `hazards`:

- the answer of CDB against the time budget of a live load, and a task that
  calls back twice or not at all;
- a cache whose lookup and removal are two unsynchronised steps, used from the
  application's threads, the barrier queue and the session's queue;
- silences, which are bids kept in the same cache, expire, are replaced and must
  never be shown to a caller;
- the order of the reports of a bid's life against the step that closes its
  metric;
- a metric that moves from its file to the queue by two writes, between which the
  process may end; batches popped before they are posted and pushed back when
  the post fails, one post per profile;
- a file whose elements, header and commit file change by separate calls, any of
  which may fail or be the last of the process;
- the double-checked lock of the user agent, whose blocks run under the lock while
  callers look without it;
- batches of log records pushed back one by one, or twice, into a bounded queue that others
  fill meanwhile;
- `isAdLoading`, set by a load and cleared by whichever callback comes: a bid, a page,
  the failure of a page that was replaced; `viewDidDisappear`, which drops the web view at a
  dismissal and below a full screen video alike;
- MRAID transitions that a block makes 0.05 or 0.2 s after they were decided, an
  animation before the state follows the view, and scripts, taps and loads meanwhile;
- views an application recycles: one view for many ads, one ad in several views, an
  image that arrives for the content of before;
- a click while another click's URL is still followed through its redirections.

What makes each component correct: the bid manager answers each load once and
for the ad unit that was asked, sells a bid once, never surfaces a silence and
respects it; feedback sends each metric at most once, with what was
reported of it; the queue
file returns what was added, in order, whatever the moment of a crash; the user
agent calls every waiting block once; an ad object reports each load once and
never presents an ad it has not loaded; the MRAID state and the view agree.

## 2. Plan

1. `BidManager` with `BidContract`: done, checked and proved (below).
2. `Feedback` with `Outbox`: files, sending queue, batches and roll-back, limits,
   crash and restart: done, checked and proved (below).
3. `QueueFile` with `Fifo`: the ring with its commits, over a small file, with a
   crash or a failure at any call: done, checked and proved (below).
4. `UserAgent`, the double-checked lock, and `RemoteLogs`: done, checked and proved.
5. `Mraid` with `BannerAd` and `InterstitialAd`, the state machines of user-visible
   objects, over the promise of `BidContract` rather than `BidManager`: done, checked,
   safety proved.
6. `NativeAd`, `MediaView`, `UrlOpening`: done, checked, safety proved.
7. `SilenceKept`, `HandedToOneLoad` and `MetricClosedOnce` of `BidManager`: done, proved
   under the conditions section 5 names for the last two.
8. Left: a module that composes `Fifo` with `Feedback`: the sending queue of
   `Feedback` is the FIFO that `QueueFile` implements, an end of the process
   costing all of it or nothing (`Restart` already chooses between the two).

Bounds stay small everywhere: two loads are what a race needs, one or two ad
units, clocks of two or three ticks.

## 3. Modules

| module | content |
|---|---|
| `BidContract` | what `loadCdbBidForAdUnit` promises to its callers: `Ask`, then one `Respond` with a bid for that ad unit or none |
| `BidManager` | the bid manager, its cache, the time-out race and the CDB call |
| `MCBidManager` | offers and configurations for TLC |
| `BidManagerProofs` | the inductive invariant and the theorems |
| `Outbox` | what the feedback feature promises about a metric: tracked once, sent at most once or given up, never back |
| `Feedback` | the feature guard, the controller, the storage and its files, the sending queue, the posts, the end and the start of the process |
| `MCFeedback` | requests and profiles for TLC |
| `Fifo` | what the queue file promises: operations that happen completely or not at all; an end of the process costs nothing or the whole queue |
| `QueueFile` | the file, its header and commit file, the fields in memory, and each operation as the list of calls it makes |
| `MCQueueFile` | element sizes for TLC |
| `Growth` | how a file of Cassette is doubled, for `QueueFile` and `RemoteLogs` |
| `FeedbackProofs` | types; the promise of `Outbox` under its two conditions |
| `FeedbackRecoveryProofs` | what holds without conditions: recovery and loss |
| `Mraid` | the state of the native MRAID handler and its delayed blocks |
| `BannerAd` | extends `Mraid`: the one web view of a banner and the containers it goes through |
| `InterstitialAd` | a handler of its own (`Handler == INSTANCE Mraid`), loading, presentation, dismissal |
| `NativeAd` | the native loader, recycled views and the impression detectors |
| `MediaView` | the image view, its downloads, the image cache |
| `UserAgent` | `waitForUserAgent` and the attempt to read the user agent |
| `RemoteLogs` | the log queue, batches, push-back once or twice, the end of the process |
| `UrlOpening` | the resolver of each click, the App Store controller |
| `MCParts` | one of these seven components per behaviour, picked in the initial state |
| `AdProofs`, `ServiceProofs` | their theorems; `AdProofs` is about `BannerAd`, `InterstitialAd`, `NativeAd` and `MediaView`, `ServiceProofs` about `UserAgent`, `RemoteLogs` and `UrlOpening` |
| `PartsProofs` | that `MCParts` implements each of the seven, and what follows for the run |
| `QueueFileProofs` | the ring, operations that can stop before each of their calls, and the refinement of `Fifo` |
| `GrowthProofs` | induction over the naturals and over recursive definitions, for the proofs about files |

### BidManager

Threads.  `AppThreads` are the application's; `Barrier` runs the blocks of
`timeoutBarrierQueue` one after the other (they are all barrier blocks);
`Session` is NSURLSession's delegate queue, serial.  Blocks on GCD's global
queue are actions of their own (`Operation`, `TimerFires`,
`GetBidThenFetchBlock`, `UnsilenceBlock`, `SendCall`), which may run in any
order.

| variable | in the code |
|---|---|
| `now`, `silentUntil` | the clock, `cdbTimeToNextCall` |
| `cfg`, `setup` | `killSwitch`, `liveBiddingEnabled`, `prefetchOnInitEnabled` of `CR_Config`; how far registration and `refreshConfig` got |
| `cache` | `bidCache` |
| `load[l]` | the blocks of one call of `loadCdbBidForAdUnit`: the posted block of cache bidding with the `bid` and `consumed` it captured; the operation, the timer and the shared `handled` flag of live bidding |
| `frame[t]` | the local variables of the function in which thread `t` stands between two accesses to the cache |
| `barrierQ` | the blocks of `timeoutBarrierQueue` |
| `unsilenced` | the blocks posted by `unsilenceSlotForAdUnit` |
| `call[r]` | a CDB call: queued, sent, answered |
| `metric`, `queued` | per impression id, the fields of the open feedback message and the messages moved to the sending queue |
| `answers[l]` | what the response handler of the load was given |

One block of code is one step, except where it touches the cache, whose
unlocked accesses are one step each: `GetBid` and `RemoveBid` are the two halves
of `getBid`, `IsSlotSilent`, `RereadSilence` and `DropSilence` those of
`isSlotSilent`, `SetBids` (in `SilenceInTime`, `StoreLate` or
`CdbResponseHandler`) and `NoteCached` those of `cacheBidsFromResponse`.

Abstractions.  A bid is its impression (CDB call and ad unit), price 0 or 1, time
to live, validity and date of arrival.  A response offers at most one bid per
ad unit asked, and `setBid` files it under the ad unit it was requested for: an answer
for another ad unit, which `CR_CacheManager.m:49-70` would file under that one, is outside
the model.  The answers of a prefetch for several ad units are stored together; the runs
with two ad units ask for one at a time, those with a prefetch have one ad unit, so a
prefetch for several is covered by the theorems only.  Configuration fields change
together.  The feedback feature is on.

Left out.  A data race *inside* the dictionary (two unlocked writers may corrupt
it: undefined behaviour, which no model of the code could bound); Objective-C
exceptions; the consent flag a response may carry; the split of a prefetch into
requests of eight ad units; the enrichment of ad objects.

### Feedback

The bid manager reports from several threads; the storage is one lock
(`@synchronized(self)`), so that each report, pop and roll-back is atomic with
respect to the others, but not with respect to the end of the process.

| variable | in the code |
|---|---|
| `process`, `toMove` | the process runs, has ended, or is in `initWithFileManager`, with the files it listed and has yet to move |
| `enabled` | `CR_FeedbackFeatureGuard.controller` is not nil |
| `call`, `bid`, `cached` | the environment: the CDB request of each impression, the bid it got, and whether `onBidCached` was called |
| `reports` | the calls of `updateMessageWithImpressionId` that wait for the lock |
| `files[id]` | the file of the impression: which fields of the message are set |
| `closing` | the message is queued and its file not removed yet: between lines 109 and 110, or in `@finally`, of `CR_FeedbackStorage.m` |
| `queue` | `sendingQueue` |
| `post[p]` | a post to the backend with the messages its completion handler captured, and those a roll-back has still to push |
| `received[id]` | how often the backend was given the metric (history) |

`Report` holds the five callbacks and the KVO toggle, `Store` the update of a
file, the two writes of a move and the sweep of the folder at a start, `Send` the
pop, the posts and the roll-back (which adds one message per step, under the
lock).  A post ends in one of three ways: `PostIsOver` (a status of 200..299: the backend
has the batch), `PostFails` (an error, which pushes the batch back, twice when a 2xx
response comes with it) and `PostRefused` (any other status, which calls no handler and
loses the batch).  `Crash` may happen between any two of them, `Restart` creates the queue
anew when its file cannot be opened.  With `TwoCallbacks` a call to CDB, too, may end with an
error and a 2xx response, and report its failure a second time.

Abstractions.  A message is the set of its fields that are set; `impressionId`,
`profileId` and `requestGroupId` are set together with `start`
(`setCdbStartForImpressionId`), so that a message without `start` has none of
them.  Elements of the queue have equal size: `MaxQueue` of them fit before the
file grows past `maxFileLength`, after which every add pops one, and popping
everything shrinks the file again.  In the folder, the size limit is a number of
files.  Posts have names, two in flight at most.  A batch keeps the places its
messages had in the queue.  The loops of one callback over its impressions become
reports in any order, but no later callback about the same request overtakes
them, except `onBidConsumed` on another thread overtaking `onBidCached`, which the
code allows.  Files that exist can be read; each write of a file is atomic
(`NSDataWritingAtomic`); a bid is consumed once here (the bid sold twice belongs
to `BidManager`).

### QueueFile

An operation of `CR_CASQueueFile` computes the calls it will make (`AddElements`,
`Pop`, `Clear`, `ExpandIfNecessary`, `WriteHeader`, `RingWrite`) from the fields in
memory and the file, for it is alone with both; `Step` is the return of the
next call.  `Fail` and `Crash` may take its place.

| variable | in the code |
|---|---|
| `process` | the queue is being opened, is open, or is `nil` because the open failed (`dead`) |
| `file` | the file, its header, its size, and whether the commit file is there |
| `memory` | `fileLength`, `elementCount`, `first`, `last` |
| `doing`, `todo` | the method being executed and the calls it has still to make; assignments to fields that follow a call belong to it (`then`) |
| `held` | what the queue held when the method was called (history) |
| `hurt` | something went wrong at one of the two moments that leave nothing complete behind (history) |

Abstractions.  Cells stand for bytes and keep what they are part of: the k-th cell
of a length or of an element, a zero, a left-over of the buffer.  A length that is
only partly there reads as 0.  A write of the header, and each write of at most one
side of the ring, is atomic, as the comment of `writeHeader` assumes; a process
that ends loses no write that has returned (power failures are not modelled, and
`synchronize` matters only in that it may fail).  A call that fails has no effect.
Elements are at least as long as the header less their length field: the code
writes the length with the 16-byte buffer of the header and lets the data overwrite
the rest, which is right for the archives the SDK stores.  Left out: `close`, the
in-memory queue, and a direct call of `clear`, which only `pop` makes.

### The ads and the small services

All of `BannerAd`, `InterstitialAd`, `NativeAd` and `MediaView` happens on the main
thread, so that one callback is one step, and what interleaves is callbacks, blocks
posted for later, animations and taps.  `UserAgent`, `RemoteLogs` and `UrlOpening` have
several threads.

| variable | in the code |
|---|---|
| `state`, `loadBlocks`, `expandBlocks` | `CRMRAIDHandler.state`; the blocks of `onAdLoad` (0.2 s) and of `didReceive(expand)` (0.05 s) that have not run |
| `superview`, `containers` | the superview of the web view; every `CRFulllScreenContainer` and `MRAIDResizeContainerView` made, with its `home` (the view it took the web view from) and what is `under` it |
| `webViewContainer`, `resizedContainer` | the fields of these names in the MRAID and the resize handler |
| `asked`, `navigating` | loads that wait for a bid, a page under way |
| `crashed`, `parted` | an unrecognized selector was sent; one of four windows was hit (history) |
| `isAdLoading`, `isAdLoaded`, `hasBeenDismissed` | the flags of the interstitial and of its view controller |
| `webView`, `waiting`, `dispatched`, `pageLoading`, `cancelled`, `clicks` | the web view (only the first has the MRAID bridge), bids to come, blocks that load a page, the navigation, failures still to come of replaced ones, click blocks |
| `presentation`, `wasCovered`, `deadEnd` | where UIKit is with the view controller; a video covered it since it was presented (history); a load gave up and left `isAdLoading` set (history) |
| `ad`, `impressed`, `nativeAd`, `ticking`, `visible`, `alive` | the load of each native ad, `isImpressed`, the ad of each view, its detector's timer, what the timer sees |
| `pixels` | impressions paid (history) |
| `mediaContent`, `image`, `imageUrl`, `imageCache`, `completions` | the fields of `CRMediaView`, the cache, completion blocks on the main queue |
| `overtaken` | the last image came when another content had been set (history) |
| `userAgentSet`, `isLoadingUserAgent`, `completionBlocks`, `toRun`, `loading`, `pc` | the fields of `CR_DeviceInfo`, the enumeration under the lock, the attempt, where each call stands |
| `pushes`, `logQueue`, `fileLength`, `posts`, `returning` | blocks that push a record, the queue file and its length, batches posted, what is left of those pushed back |
| `delivered`, `lost`, `doubled` | records the backend has, records that were lost for a cause the code has, records of a batch that was pushed back twice (history) |
| `task`, `resolved`, `presentBlocks`, `storeKitController`, `presented` | the resolver of each click, its flag, blocks that present a store, the opener's controller, what is on screen |

The four windows of `BannerAd`.  The code parts the MRAID state from the view in four
situations, and `StateMatchesView` says that it does so in no other: the block of
`onAdLoad` runs when the ad is already expanded or resized (1); the script expands
again before the block of its first expansion ran (2); it closes a second time during
the animation of the first close (3), where the cast of the root view controller to the
full screen container fails; it resizes before the block of an expansion ran (4).
`parted` records them.  The run `banner_closes_elsewhere` shows what follows from the first.

Abstractions.  UIKit is modelled by what it does with a presentation: it ignores one by a
controller that presents already or is being dismissed, passes a dismissal on to what the
controller presents, and ends an animation later than a block of 0.05 s.  Sizes and
positions are left out: a resize is accepted or not.  Whether a web view tells its
navigation's end or failure is a choice.  An interstitial's dismissal request is ignored
while UIKit presents it or a player over it; asked for below a player, it removes both, and
only the player is told that it disappears.  A full screen player makes UIKit tell the
interstitial that it disappeared, and that it appears again afterwards: its `viewDidAppear`
then lays out a web view that is `nil`, at which UIKit may raise an exception; the model goes
on, so that it has every behaviour of a build in which it does not.  What the application
itself presents over an interstitial is outside the model.  Native: an ad is a model value loaded once, visibility changes
at any time.  `MediaView`: a content is its URL, the image cache may evict at any time.
`UserAgent`: each call is made once; a section under the lock is one step, except the one
that runs the blocks, which callers without the lock can watch.  `RemoteLogs`: lengths in
units, with a large record; calls to the file succeed (`QueueFile` has their failures); a
post ends as one of `Feedback` does, or with an error after the backend got the records.

## 4. Runs

| run | question | bounds | outcome |
|---|---|---|---|
| `bid_live` | live bidding: `AnsweredAtMostOnce`, `HandedBidNotCached`, `SilenceNeverSurfaces`, `SilenceKept` | 2 loads of 1 ad unit, clock 0..2, user-level silence, a task may call back twice | holds, 1.3 M states |
| `bid_cache` | cache bidding: `HandedToOneLoad`, `MetricClosedOnce` | 2 loads of 1 ad unit, clock 0..2, prefetch at registration, one application thread | holds, 0.23 M states |
| `bid_answered` | `KeepsContract` (refinement of `BidContract`), `NoLoadForgotten` and `EveryLoadAnswered` | 2 loads, 2 ad units, both modes, kill switch, a refresh of the configuration at any moment | holds, 0.24 M states |
| `bid_silence_surfaces` | cache bidding never surfaces a silence | one load suffices | violated: finding |
| `bid_sold_twice` | a bid goes to one load, live bidding with prefetch | 2 loads | violated: finding |
| `feedback_delivery` | `NoExistingElement`, `SentAtMostOnce`, `KeepsPromise` (refinement of `Outbox`), under the two conditions | 2 requests of 2 profiles, queue of 2, 2 posts, one end of the process | holds, 1.1 M states |
| `feedback_recovery` | `StartupSweeps`, `ReportsAddUp`, `NeverForgotten`, without them | 1 request for 2 impressions, queue of 2, folder of 1, one end of the process anywhere, one lost answer, two callbacks of a call to CDB | holds, 2.1 M states |
| `feedback_sent_twice` | the promise of `sendFeedbackBatch` when the process may end between two writes | as `feedback_delivery` | violated: finding |
| `queue_file` | `MemoryMatchesFile`, `IsFifo` (refinement of `Fifo` unless `hurt`) | elements of 2 and 3 cells with their length, a ring of 6 that grows to 14, 3 elements, one end of the process, one failed call | holds, 3.8 M states |
| `queue_file_torn` | every element read is one that was added | the same, no failed call | violated: finding |
| `parts` | fifteen invariants and four liveness properties of the ads and small services, each component alone | see below | holds, 0.28 M states |
| `banner_closes_elsewhere` | a full screen container that closes puts the web view back into the banner | 1 delayed block, 2 containers, 1 load | violated: finding |

The bid manager.  Every race of this component is between two
consumers of one slot, or between one consumer and one answer: two loads of one
ad unit, plus the prefetch of registration, give all of them.  A time to live of
1 and a clock of 2 let a bid arrive, be good, and be expired, and let a
user-level silence begin and end.  `bid_answered` needs two ad units, so that an
answer could be for the wrong one, and no clock.

`MetricClosedOnce` says what the message of an impression holds when it goes to the queue:
its start; when the bid was consumed in time also the end of the call and the time the bid
was cached, and nothing is reported afterwards.  One window is named in it and excused: a
consumer that takes the bid between `setBid` and `onBidCached` (`CR_BidManager.m:381`) sends
the message without the time of caching, and `onBidCached` then opens a second one that
nothing closes before the next start, although a consumed bid's metric "does not expect
further updates" (`CR_FeedbackController.h:92-93`).  `bid_cache` reaches it.

The feedback feature.  Two impressions are what it takes for one metric to push
another out of a queue or to share a batch with it; with two profiles a batch
splits into two posts, one of which fails.  A queue of two overflows as soon as a
roll-back meets a new message, a folder of one refuses the second impression.  One
end of the process is enough to leave files behind and be cut off; a second one
would cut off the start, whose steps are those the first one can already be cut
off in (a move in the middle).  Neither run hits a deadlock, which is checked.  A second
failure of one call to CDB (`TwoCallbacks`) is in `feedback_recovery`; the theorems cover it in
the properties of `feedback_delivery`, where it would double the states.

`NeverForgotten` lists the ways in which a metric leaves the device without the backend
getting it.  Two are accepted by the code, the end of the process and a full queue.  The
third is not: a batch the backend refuses with a status outside 200..299 is gone, as
`CR_NetworkManager.m:181-183` calls no handler, while `CR_FeedbackController.h:102-103` says
that "if an error occurs while sending the metrics to the backend, they are pushed back in
the sending queue".  The property names it (`Refused`) and shows that there is no fourth.

The queue file.  A ring of 6 cells takes three short elements or two long ones
exactly, so that a full ring, an element that ends with the file, one whose data wrap
and a growth with and without wrapped data all happen; the ring of 14 has room to
let elements wander to every offset again.  One failed call and one end of the process, in
either order, include a commit file that could not be removed and is found by the
next process, and a recovery that is itself cut off.  `add` takes one element, as in all its callers.
What `IsFifo` leaves out is stated by `hurt`: the growth that is cut off between
erasing and committing (the run `queue_file_torn`), and the recovery that is cut off
between removing the file and removing the commit file.  After the latter every
open fails (`OpenFails`), so that no liveness property of the open holds.

The ads and the services (`parts`).  They share no state, so one behaviour takes one of
them and their states add up instead of multiplying; each component keeps its own
specification (`BannerSpec`, ...), about which the theorems are.

- Banner: three containers let an ad expand, resize and expand again, or resize twice;
  two delayed blocks of a kind let one be overtaken by another (windows 1 and 2).
- Interstitial: two awaited bids let a second load, refused or begun by
  `loadAdWithBid`, meet the bid of the first; one block, page, failure and click of each
  kind on its way are enough for each to come late once, after a dismissal as well.
- Native: two ads in two views give a view that changes its ad and an ad in both views.
  Two images, with two downloads of each and two completions, come in the wrong order.
- User agent: four calls are one before the attempt, one that waits, one between its two
  checks while the blocks run, and one after.  Two attempts happen when the first fails.
- Logs: three records, one twice as large, in a file of at most two units, in batches
  of two, two of which may be on their way or back: overflow by one and by two units,
  batches that split, a push-back that pushes another record out, two batches with copies of
  one record.
- Clicks: three clicks, two of which reach the App Store at once while the third comes.

Their properties, beside `PartsTypeOK`: the MRAID state tells where the web view is
(`StateMatchesView`), and a close that has begun is completed (`ClosingIsBacked`); an interstitial that is loaded has its web view,
and so has one on screen unless a video covered it (`LoadedAdHasWebView`), can be closed (`CanAlwaysClose`) and does not load for ever
(`LoadingIsBacked`, `LoadingEnds`); an impression is paid once (`ImpressedAtMostOnce`) and looked
for as long as it is due (`DetectsWhileNeeded`, `VisibleAdIsImpressed`); a media view shows the
image of its content (`ImageIsOfContent`); a block that waits for the user agent runs,
once (`WaitingIsBacked`, `RunsOnce`, `EveryBlockRuns`); a log record is in one place,
unless its batch was pushed back twice, and is nowhere only for a named cause
(`RecordsAreKept`), in a queue with a bounded number of elements (`QueueIsBounded`); a click opens one thing (`OpenedOnce`, `StoreOnScreenIsKnown`); an
expanded ad comes back (`ExpandedAdComesBack`).  `CHECK_DEADLOCK FALSE`: a component rests
when its calls are made and its bounds used up.

Fairness of `parts`.  Weak fairness of the blocks of the main queue, of the ends of
navigations and animations, of timers, of threads inside `waitForUserAgent`, and of the
answer to a bid, which is what `BidContract` promises and `EveryLoadAnswered` checks.
Nothing is assumed of scripts, users, the application, the network or StoreKit, and
`RemoteLogs`, `MediaView` and `UrlOpening` have no fairness: their requests may stay
unanswered for ever.  The fairness of a component that was not picked asks nothing.

Fairness of the bid manager (`Fairness`, used by `bid_answered` only).  Weak fairness of the blocks
GCD was given, of the barrier queue, of the timer, and of each thread's progress
inside a function: GCD runs every block it accepts, a fired timer runs, and a
thread is not suspended for ever.  Nothing is assumed of CDB, of the network, of
the user agent or of the application.  `CHECK_DEADLOCK FALSE` in the runs of the bid
manager: once both loads
are answered and the clock is at its bound the system rests.

What is known to fail and has no run: see the hazards whose list of properties is
empty, and their notes.  `MetricClosedOnce` assumes that a task calls back once
(`TwoCallbacks = FALSE`): an error together with a 2xx response closes the metric
twice.  `HandedToOneLoad` holds for one application thread in cache bidding; the
run `bid_sold_twice` shows how live bidding loses it.  `NoExistingElement` and
`KeepsPromise` need `CrashWhileClosing = FALSE` and `MaxLost = 0`: the run
`feedback_sent_twice` shows the first condition to be needed, a roll-back after a
lost answer shows the second.

Four disagreements of the code with its documents, or with itself, have no run of their own
but are named in a property, which shows that nothing else of the kind happens: the late
report that reopens a consumed bid's metric (`NoteComing` in `MetricClosedOnce`), the refused
batch (`Refused` in `NeverForgotten`), the log records that are pushed back twice (`doubled` in
`RecordsAreKept`: `CR_NetworkManager.m:164-180` calls the handler for the error and again for
the response), and the web view that is dropped while a video covers its interstitial
(`wasCovered` in `LoadedAdHasWebView`: `CR_InterstitialViewController.m:75-88` takes every
disappearance for a dismissal).

## 5. Theorems

### The bid manager (`BidManagerProofs`)

For any finite or infinite sets of loads, threads, ad
units and offers, under `ConstantsAssumption` only (the threads are distinct, the
call of registration is not a load, the offers are well-formed).

- `TypeCorrect`: `Spec => []TypeOK`.
- `InductiveInvariant`: `Spec => []IInv`, where `IInv` adds to the types
  - `AnswerInv`: a load that may still be answered has not been;
  - `CallerInv`: an application thread inside a function works for a load whose
    call has not returned, and no two for the same;
  - `WorkerInv`: when the barrier thread is about to answer, its load races and
    `handled` is unset; the session's queue only caches;
  - `StageInv`: only live loads race; a CDB call or a posted block belongs to a
    load in the right mode;
  - `SlotInv`: every bid in the cache, in a queue, in a frame or in a posted
    block is for the ad unit of its slot or load.
- `AtMostOnce`: `Spec => []AnsweredAtMostOnce`.
- `Implementation`: `Spec => Contract!Spec`, the refinement `bid_answered` checks.

The argument.  Which block may still answer is spread over the stage of the load,
the `handled` flag and the place of two threads, so `AnsweredAtMostOnce` is not
inductive by itself; `AnswerInv` and the three invariants that say who works for
a load are what each answering step needs.  `NextView` then classifies every step
as unseen, one call, or one first answer, from which both `AtMostOnce` and the
refinement follow.  TLC checked `IInv` on instances before it was proved.

- `HandedOverIsGone`: `Spec => []HandedBidNotCached`.
- `SilenceStaysInside`: if every configuration asks for live bidding (`LiveOnly`),
  `Spec => []SilenceNeverSurfaces`.

The argument of the last two.  `HandedBidNotCached` relates an answer of the past to
the cache of now, so what must be invariant is the whole way of a bid, `PassageInv`:

- `CallInv`, `OnceInv`: a CDB call is made once, and its bids are *coming* in one place
  only, one answer of the barrier queue or the barrier thread's hand;
- `ArrivalInv`: a bid that comes or was *reached* (cached, read, captured or given) is of
  a call that is over, and one that comes was not reached, so nothing comes back;
- `ReadInv`: a thread about to empty a slot returns what it read there, or nothing, and
  never a silence;
- `GoneInv`: a bid *handed over* (captured by a posted block, or given) is not cached;
- `LiveAnswerInv`: no load made in live mode was given a silence.

`removeBid` empties the slot whatever it holds by then: that loses a bid (a hazard with a
note), but never brings one back.
`SilenceStaysInside` adds `LiveModeInv`, that a load keeps the mode it was made in
although the configuration may be refreshed while it runs; `bid_silence_surfaces`
shows that with cache bidding the statement is false.

- `SilenceStaysUntilExpired`: `Spec => SilenceKept`, with prefetches, any number of loads
  in both modes, and every thread.  `SilenceInv` says why: when the barrier thread is
  about to store a late answer, its slot holds no silence that a live answer brought
  (`StoreInv`), since only that thread stores live answers, and it looked; a late answer
  is for one slot (`ArrivedInv`, `SingleInv`); a thread about to remove read no silence
  that had not expired (`RenewableInv`).  The removals that a stale read decided are the
  exceptions which `SilenceStays` names: two loads do not reach them in `bid_live`, three
  do, and the proof has to account for any number.

The last two safety properties are false of this code in general (`bid_sold_twice`).
What makes them true is that getBid's lookup and its removal do not overlap with those of
another thread on the same bid, which the code hopes for and no lock ensures.  The theorems
say exactly that:

- `SoldOnceWithoutOverlap`: `Spec /\ []OneReader => []HandedToOneLoad`, where `OneReader`
  says that no two threads are between reading a bid and emptying its slot.  `HoldInv`
  says who holds a bid: one load, and then no thread that could still take it.
- `MetricOnceWithoutOverlap`: if no task calls back twice, `Spec /\ []OneReader =>
  []MetricClosedOnce`.  A bid is *due* while it is coming, cached, being taken, or claimed
  by a block that will report it.  `DueInv`: the message of a due bid is open, with its
  start, and is no other due bid's; `ClaimInv`: one consumer claims a bid, which has left
  every other place by then; `OpenInv` and `CallMetricInv`: no message waits closed, and
  what CDB has not answered is closed by nobody else.  For the fields: the message of a due
  bid has the end of its call as well (`Whole` in `DueInv`); that of a bid which went through
  the cache says so, or a thread is about to note it (`NotedInv`); and an answer in the
  barrier queue is to the call of its load (`SourceInv`), so that a bid which never was
  cached is its own load's (`HandedStraight`).
- `SoldOnceFromOneThread`, `MetricOnceFromOneThread`: an application that loads from one
  thread and bids from the cache satisfies `OneReader` (`OneThreadReads`), so that both
  properties hold whenever the prefetches come back and the posted blocks run.  These are
  the conditions under which `bid_cache` checks them.

- `NoLoadIsForgotten`: `Spec => []NoLoadForgotten`, in both modes and whatever CDB does: a
  load that has no answer yet has somebody who will give it one.  `BackedInv` says who, by
  stage: a call that has not returned has its thread (and a thread inside a function stays
  there until it hands the load on), a race nobody has won has its timer, a block in the
  barrier queue that will find `handled` unset, or the block under way, and `handled` is set
  by nothing that does not answer.  This is the safety half of `EveryLoadAnswered`; what
  fairness adds is that those who will do so run.

Model-checked only: `EveryLoadAnswered` (liveness, and ENABLED, are beyond TLAPS here).

### The feedback feature

For any sets of impressions, requests, profiles and posts and any bounds, under
`ConstantsAssumption` only (`RequestOf` and `ProfileOf` are functions, the queue
holds at least one message).

`FeedbackProofs`, where `Honest` says that the process does not end between the
two writes of a move and that no post fails whose messages the backend took:

- `TypeCorrect`: `Spec => []TypeOK`.
- `NothingQueuedTwice`: `Honest` implies `Spec => []NoExistingElement`.
- `SentOnce`: `Honest` implies `Spec => []SentAtMostOnce`.
- `ImplementsOutbox`: `Honest` implies `Spec => KeepsPromise`.

That the queue has no duplicate is not inductive: a duplicate may come from a file,
from a report that waits, or from a post that is rolled back.  `IInv` therefore
says where a metric may be: a metric still awaited is nowhere (`NewInv`), one with
a file is in no batch, and in the queue only while its move is under way
(`FileInv`), one in a batch is in that batch once and nowhere else (`OnceInv`);
`StartInv` says that its start is reported once and `PostInv` that no handler is
called again.  `MetricStep` then says what any step may do to a metric, and
`SentOnce` and the refinement follow from it.

`FeedbackRecoveryProofs`, with no condition on crashes and answers:

- `StartIsClean`: `Spec => []StartupSweeps`, from `SweepInv` (nobody works for the
  impressions of an earlier process; a starting storage has listed their files).
- `NothingReportedIsLost`: `Spec => ReportsAddUp`, from `MoveInv` (while a move is
  under way its message is in the queue with every field of the file).
- `NothingForgotten`: `Spec => NeverForgotten`, from the same invariant, by cases
  on the steps that take a metric from a place.  That a refused batch is the only one given
  up silently needs that nothing is left to push back of a batch that is on its way, which
  is part of its type (`Post`).

Every property of the feedback feature is thus both model-checked and proved.

### The ads and the services

Each for any bounds and any sets of ads, views, contents, calls, records and clicks, under
the named assumptions of its module only.

- `AdProofs`, on the banner: `BannerTypeCorrect`, and `StateTellsTheView`: `BannerSpec =>
  []StateMatchesView`.  The invariant `BannerInv` adds `PlacesInv` (references between
  containers point at containers there are), and, outside the windows, `OneContainerInv`
  (one container is alive, over the application; the web view is in it or, once it is
  leaving, home) and `PhaseInv` (that container is the one the state speaks of, or the
  block of its expansion is still to run).  Without the number of live containers
  nothing could be said of the view a close goes back to.
  `ClosesHomeOutsideWindows`: `BannerSpec /\ []~parted => ClosesToBanner`: the four windows are
  the only ways to what `banner_closes_elsewhere` finds.  `ClosingIsCompleted`: `BannerSpec =>
  []ClosingIsBacked`, the safety half of `ExpandedAdComesBack`: nothing is stuck on screen, and
  the end of an animation makes the ad default again.  It needs that what closes was expanded
  or resized (`PhaseInv`), hence that no state is hidden (`VisibleInv`).
- `AdProofs`, on the others: `CloseButtonWorks`, `LoadedIsThere`, `NothingLoadsForEver`.  The
  addition is `PageInv`: a page loads in a web view, and a loaded ad is not loading, so
  that `present`, which requires the second, finds no load on its way into a web view
  that the dismissal, or a video over the ad, will drop.  Then `BilledOnce` and `DetectionFollowsTheAd` from `ShownInv` (pixels were
  sent exactly for the impressed, and only received ads are shown); `RightImage` from
  `ShownImageInv` (an image shown is the one whose URL is kept).
- `ServiceProofs`: `NoLostWakeUp` and `BlocksRunOnce` from `AttemptInv` (the flag says
  exactly whether an attempt is under way; who is in the set waits); `NoRecordForgotten`
  from `LogSpaceInv` (types of the places), `OnePlaceInv` (a record is in one of block,
  queue, batch on its way, batch on its way back, and once there, unless it is `doubled`) and
  `KnownInv` (one in none of them was delivered or has its cause);
  `LogTypeCorrect` and `QueueStaysBounded`, where the bound is inductive once the types
  are known and the length is not zero: what is pushed back makes older records leave
  first, one by one, and that the file can always grow far enough needs `DoublingGrows`.
  `ClickOpensOnce` and `StoreIsKnown` follow from `ResolverInv` (what a resolver that has
  not resolved cannot have done).

The prover cannot instantiate the library's induction theorems, which take an operator.
`GrowthProofs` states what is needed with sets and functions instead: a set that holds 0
and the successor of each of its members holds every natural number (from the least
element of a well-founded set), and a recursive definition has a solution because one can
be exhibited.  The proofs about files rest on it.

- `PartsProofs`: `PartsImplementComponents`: `MCSpec` implies the specification of every
  component, a step of the one that was picked being a stutter of the others.  So the
  theorems above hold of what the run checks (`PartsTypeCorrect`, `PartsAreSafe`), and a run
  that found a violation would have found one of a component.

Model-checked only: the four liveness properties (`ExpandedAdComesBack`, `LoadingEnds`,
`VisibleAdIsImpressed`, `EveryBlockRuns`), the safety half of each of which is proved
(`ClosingIsBacked`, `LoadingIsBacked`, `DetectsWhileNeeded`, `WaitingIsBacked`).

### The queue file (`QueueFileProofs`)

For any set of elements, any sizes, any lengths of the file, its header and the header
of an element, and any number of failed calls and ends of the process, under
`ConstantsAssumption` only.

- `QueueIsFifo`: `Spec => IsFifo`, the refinement of `Fifo`.  Its exception `hurt` is part
  of the property.
- `TypeCorrect`: `Spec => [](hurt \/ TypeOK)`; `MatchesFile`: `Spec => [](hurt \/
  MemoryMatchesFile)`; `WholeElements`: `Spec => [](hurt \/ NothingTorn)`.
- `Invariant`: `Spec => []IInv`.

The argument, in the order of the module.

1. *The ring.*  `Place(L, p, x)` is the cell x places behind p.  Elements q *lie* in the ring
   from p when there are offsets, 0 at the start and growing by the header and the length of
   each, such that the cells at those places are the lengths and the data (`RingHolds`).
   What the recursive `Behind` and `Peek` compute from such a file is q (`HeaderIsRead`),
   what `usedBytes` computes is its length, and a write that touches no cell of the
   elements leaves them where they are (`SafeKept`).
2. *Safe.*  `Safe(f, m, q)`: fields and file hold q, and the header on disk is the one of the
   fields, or the commit file is there (the next process discards everything), or both are
   empty.
3. *Good.*  What an operation is in the middle of is a list of calls that each may fail or
   be the last one, so the invariant must speak of every later moment.  `Sound` says what
   is needed of one moment: before and after each call the queue is safe for what it held
   (q) or for what it will hold (r), except while the head is erased, and in the end it is
   safe for r.  `Good` says that there is a set of moments, with this one, all of which are
   sound and which returns, and failures that are ignored, do not leave.  A list is shown to
   be good from its end, one call at a time (`GoodCall`): `ClearGood`, `PopGood` and
   `AddGood`, the last through `ElementGood` (an element is written behind the others, into
   room that is free) and `GrownGood` (the file is extended; what lies at its start is
   copied behind its old end, where the elements are read on, before it is erased; then the
   header is written).  By `DoublingGrows` some doubling is enough, which is what the
   `CHOOSE` of `Doubled` needs.
4. *IInv.*  Unless `hurt`: no process, or one that could not open the queue, leaves a file
   that reads as elements or is to be discarded (`Found`); the calls of the open are one of
   its four remainders (`Opens`); an open queue is safe when idle (`IdleOK`) and good when
   it is not (`BusyOK`).  One lemma per action, by the lemmas on `Good`; then one per action
   for the refinement (`OpenFifo` to `CrashFifo`).

The proof found nothing that TLC had not.  It shows that the two moments of `hurt` are the only
ones, for every size: nothing else in growth, wrapping, popping or recovery tears an element.

After `hurt` the file may hold anything, a length that points far outside for instance, and
no theorem is stated.  That `TypeOK` and `MemoryMatchesFile` hold even then is model-checked, for
the sizes of the run only.

### Findings and theorems

Each of the five violation runs shows a property of the code's own documents to be false.
A theorem says where it is true, for every instance:

| false in general | true |
|---|---|
| `SilenceNeverSurfaces` (`bid_silence_surfaces`) | while every configuration asks for live bidding (`SilenceStaysInside`) |
| `HandedToOneLoad` (`bid_sold_twice`) | while no two threads read one bid before either removes it (`SoldOnceWithoutOverlap`) |
| `SentAtMostOnce` (`feedback_sent_twice`) | unless the process ends inside a move or an answer is lost (`SentOnce`) |
| `NothingTorn` (`queue_file_torn`) | unless one of the two moments of `hurt` is hit (`WholeElements`) |
| `ClosesToBanner` (`banner_closes_elsewhere`) | outside the four windows (`ClosesHomeOutsideWindows`) |

## 6. Not modelled

- Header bidding, the serializers, the context data and data consent: they read and
  format; none keeps state of its own between calls.
- Views and layout, StoreKit's own calls, SKAdNetwork, the mediation adapters and the
  AdViewer demo application: outside the SDK's own logic, or calls into frameworks.
- App events: one request per event under a throttle and a consent check that are single
  comparisons; a property would restate them.
- `mraid.js`, which filters what the script of an ad may ask: the models let the script
  post any message, which includes what it would have refused.  Orientation changes, and
  videos played from a banner.
- Exceptions: a completion block of `CR_DeviceInfo` that throws inside the enumeration
  leaves its flag set; a web view made off the main thread.
- `close` of the queue file, its in-memory variant, and a direct call of `clear`, which
  only `pop` makes; failures of the file inside `RemoteLogs`.
- Data races inside a Foundation collection (see `BidManager`).
