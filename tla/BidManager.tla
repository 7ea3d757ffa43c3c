----------------------------- MODULE BidManager -----------------------------
(***************************************************************************)
(* CR_BidManager with its CR_CacheManager, the time-out race of            *)
(* CR_ThreadManager and the CDB call it makes through CR_ApiHandler and    *)
(* CR_NetworkManager.                                                      *)
(*                                                                         *)
(* An ad unit ("slot") is loaded either from the cache of prefetched bids  *)
(* (cache bidding) or from CDB within a time budget (live bidding).  The   *)
(* code runs on several threads: the application's own threads, GCD's      *)
(* global queue, the barrier queue that orders a CDB answer against its    *)
(* time-out, and NSURLSession's delegate queue.  The bid cache is a plain  *)
(* NSMutableDictionary of which only the write path is locked, so getBid   *)
(* and isSlotSilent are two or three steps here, one per dictionary        *)
(* access; every other block of code is one step.                          *)
(***************************************************************************)
EXTENDS Naturals, Sequences

CONSTANTS
    AppThreads,  \* threads of the application that call loadCdbBidForAdUnit
    Barrier,     \* the thread that runs timeoutBarrierQueue, one block at a time
    Session,     \* the thread of NSURLSession's delegate queue, one task at a time
    Loads,       \* the calls of loadCdbBidForAdUnit
    AtInit,      \* the CDB call that registration makes
    Slots,       \* the ad units
    NoBid,       \* nil, and emptyBid once emptyAsNilResponseHandler has run
    Offers,      \* what CDB may offer for a slot: [cpm, ttl, valid]
    Delays,      \* the values of timeToNextCall CDB may send, 0 when absent
    Configs,     \* the configurations the backend may send: [live, kill, prefetch]
    TwoCallbacks,\* may a task end with both an error and a 2xx response?
    DefaultTtl,  \* CRITEO_DEFAULT_BID_TTL_IN_SECONDS
    MaxTime      \* bound of the clock

Offer == [cpm : {0, 1}, ttl : Nat, valid : BOOLEAN]
Config == [live : BOOLEAN, kill : BOOLEAN, prefetch : BOOLEAN]
Requests == Loads \cup {AtInit}
Threads == AppThreads \cup {Barrier, Session}

\* A bid is named by the CDB call and the slot it answers: its impression id.
Ids == Requests \X Slots
Bid == [req : Requests, slot : Slots, cpm : {0, 1}, ttl : Nat, valid : BOOLEAN,
        born : Nat]

ASSUME ConstantsAssumption ==
    /\ Barrier \notin AppThreads
    /\ Session \notin AppThreads \cup {Barrier}
    /\ AtInit \notin Loads
    /\ NoBid \notin Bid
    /\ Offers \subseteq Offer
    /\ Delays \subseteq Nat
    /\ Configs \subseteq Config
    /\ TwoCallbacks \in BOOLEAN
    /\ DefaultTtl \in Nat \ {0}
    /\ MaxTime \in Nat

VARIABLES
    now,         \* the wall clock
    silentUntil, \* cdbTimeToNextCall
    cfg,         \* CR_Config: the persisted values, then those of the refresh
    setup,       \* progress of registration
    cache,       \* bidCache
    load,        \* per call of loadCdbBidForAdUnit: where its blocks are
    frame,       \* per thread: the function it is inside of, if it touches the cache
    barrierQ,    \* blocks waiting in timeoutBarrierQueue
    unsilenced,  \* blocks posted by unsilenceSlotForAdUnit: by whom, for what, which bid
    call,        \* per CDB call: its progress
    metric,      \* per impression id: the fields set in its feedback message
    queued,      \* per impression id: the feedback messages put in the sending queue
    answers      \* per load: the bids its responseHandler was given

vars == << now, silentUntil, cfg, setup, cache, load, frame, barrierQ, unsilenced,
           call, metric, queued, answers >>
feedbackVars == << metric, queued >>
envVars == << now, cfg, setup >>

Flag == {"start", "end", "cached", "elapsed", "expired", "timeout"}

\* Where the blocks of a load are.  sync: its caller is still inside the call;
\* block: cache bidding has posted its block, which captured bid and consumed;
\* racing: live bidding has posted its operation and its timer, and handled is
\* the flag they share; done: nothing more will run.
Load == [stage : {"idle", "sync", "block", "racing", "done"},
         slot : Slots, live : BOOLEAN, operation : BOOLEAN, timer : BOOLEAN,
         handled : BOOLEAN, bid : Bid \cup {NoBid}, consumed : BOOLEAN]

\* get, remove: getBid; silent: isSlotSilent; unsilence, drop: unsilenceSlot;
\* store: cacheBidsFromResponse after isSlotSilent; note: its onBidCached, after
\* setBid; noteSilence: the same, with the load still to be answered.
Frame == [op : {"idle", "get", "remove", "silent", "unsilence", "drop", "store",
                "note", "noteSilence"},
          load : Requests, bid : Bid \cup {NoBid}, result : Bid \cup {NoBid},
          arrived : SUBSET Bid]
Idle == [op |-> "idle", load |-> AtInit, bid |-> NoBid, result |-> NoBid,
         arrived |-> {}]

Block == [kind : {"completion", "timeout"}, load : Loads, bids : SUBSET Bid]

TypeOK ==
    /\ now \in Nat
    /\ silentUntil \in Nat
    /\ cfg \in Config
    /\ setup \in {"none", "registered", "configured"}
    /\ cache \in [Slots -> Bid \cup {NoBid}]
    /\ load \in [Loads -> Load]
    /\ frame \in [Threads -> Frame]
    /\ \A t \in Threads : frame[t].op \notin {"idle", "note"} => frame[t].load \in Loads
    /\ barrierQ \in Seq(Block)
    /\ unsilenced \in SUBSET (Threads \X Loads \X Bid)
    /\ call \in [Requests -> {"none", "queued", "sent", "failing", "done"}]
    /\ metric \in [Ids -> SUBSET Flag]
    /\ queued \in [Ids -> Seq(SUBSET Flag)]
    /\ answers \in [Loads -> Seq(Bid \cup {NoBid})]

Init ==
    /\ now = 0
    /\ silentUntil = 0
    /\ cfg \in Configs
    /\ setup = "none"
    /\ cache = [s \in Slots |-> NoBid]
    /\ load \in [Loads -> {[stage |-> "idle", slot |-> s, live |-> FALSE,
                             operation |-> FALSE, timer |-> FALSE, handled |-> FALSE,
                             bid |-> NoBid, consumed |-> FALSE] : s \in Slots}]
    /\ frame = [t \in Threads |-> Idle]
    /\ barrierQ = << >>
    /\ unsilenced = {}
    /\ call = [r \in Requests |-> "none"]
    /\ metric = [id \in Ids |-> {}]
    /\ queued = [id \in Ids |-> << >>]
    /\ answers = [l \in Loads |-> << >>]

-----------------------------------------------------------------------------
(* Bids *)

Expired(b) == b.ttl = 0 \/ b.born + b.ttl < now

InSilenceMode(b) == b.cpm = 0 /\ b.ttl > 0

Renewable(b) == ~InSilenceMode(b) \/ Expired(b)

\* The bids of a response, with setDefaultTtl applied to the immediate ones.
BidFor(r, s, o) ==
    [req |-> r, slot |-> s, cpm |-> o.cpm, valid |-> o.valid, born |-> now,
     ttl |-> IF o.cpm > 0 /\ o.ttl = 0 THEN DefaultTtl ELSE o.ttl]

\* getBid takes a bid out of the cache unless it is an unexpired silence.
NotNil(b) == b # NoBid
Consumable(b) == b # NoBid /\ Renewable(b)

CannotCallCdb == cfg.kill \/ now < silentUntil

-----------------------------------------------------------------------------
(* Feedback: a message whose elapsed, expired or timeout field is set moves
   from its file to the sending queue. *)

IsReadyToSend(flags) == flags \cap {"elapsed", "expired", "timeout"} # {}

\* Sets the fields update[id] in the message of each impression id.
UpdateMessages(update) ==
    LET after == [id \in Ids |-> metric[id] \cup update[id]]
    IN  /\ metric' = [id \in Ids |-> IF IsReadyToSend(after[id]) THEN {} ELSE after[id]]
        /\ queued' = [id \in Ids |-> IF IsReadyToSend(after[id])
                                       THEN Append(queued[id], after[id])
                                       ELSE queued[id]]

\* What onBidConsumed is told of: nothing when the bid stays cached, and nothing
\* comes of a nil bid, which has no impression id.
ConsumedAnyway(b, did) == {b} \ {NoBid}
Consumed(b, did) == IF did /\ b # NoBid THEN {b} ELSE {}

\* onBidConsumed for the bids B.
OnBidConsumed(B) ==
    UpdateMessages([id \in Ids |->
        UNION {IF Expired(b) THEN {"expired"} ELSE {"elapsed"}
                 : b \in {c \in B : << c.req, c.slot >> = id}}])

SetBidsEverywhere(B) ==
    LET kept == {b \in B : b.valid}
    IN  cache' = [s \in Slots |-> IF kept # {} THEN CHOOSE b \in kept : TRUE ELSE cache[s]]

\* cacheBidsFromResponse, first half: setBid, which keeps valid bids only.
SetBids(B) ==
    LET kept == {b \in B : b.valid}
    IN  cache' = [s \in Slots |-> IF \E b \in kept : b.slot = s
                                    THEN CHOOSE b \in kept : b.slot = s
                                    ELSE cache[s]]

\* Second half: onBidCached, which ignores the others too.
OnBidCached(B) ==
    UpdateMessages([id \in Ids |-> IF \E b \in B : b.valid /\ << b.req, b.slot >> = id
                                     THEN {"cached"} ELSE {}])

\* removeBidForAdUnit: the slot is emptied, whatever it holds by now.
Unemptied(s) == cache
KeyDropped(s) == [r \in Slots \ {s} |-> cache[r]]
Emptied(s) == [cache EXCEPT ![s] = NoBid]

-----------------------------------------------------------------------------
(* Consuming the cache: getBid and what its callers do with the result *)

Answer(l, b) == answers' = [answers EXCEPT ![l] = Append(@, b)]

\* What follows getBid.  Cache bidding posts a block that captures the cached
\* bid itself; live bidding reports the consumption and answers at once, inside
\* the barrier block (which then sets handled) or on the caller's thread.
AfterGetBid(t, l, b, consumed, result) ==
    /\ frame' = [frame EXCEPT ![t] = Idle]
    /\ \/ /\ ~load[l].live
          /\ load' = [load EXCEPT ![l] = [@ EXCEPT !.stage = "block", !.bid = b,
                                                   !.consumed = consumed]]
          /\ UNCHANGED << feedbackVars, answers >>
       \/ /\ load[l].live
          /\ load' = [load EXCEPT ![l] =
                         [@ EXCEPT !.stage = IF t = Barrier THEN "racing" ELSE "done",
                                   !.handled = (t = Barrier)]]
          /\ OnBidConsumed(Consumed(b, consumed))
          /\ Answer(l, result)

\* The lookup of getBid: an expired bid and a good one are about to be removed,
\* an empty slot and an unexpired silence are not.
GetBid(t) ==
    LET l == frame[t].load
        b == cache[load[l].slot]
    IN  /\ frame[t].op = "get"
        /\ \/ /\ Consumable(b)
              /\ frame' = [frame EXCEPT ![t] =
                              [@ EXCEPT !.op = "remove", !.bid = b,
                                        !.result = IF Expired(b) THEN NoBid ELSE b]]
              /\ UNCHANGED << load, feedbackVars, answers >>
           \/ /\ ~Consumable(b)
              /\ AfterGetBid(t, l, b, FALSE, NoBid)
        /\ UNCHANGED << envVars, silentUntil, cache, barrierQ, unsilenced, call >>

\* The removal of getBid, of whatever the slot holds by then.
RemoveBid(t) ==
    LET l == frame[t].load
    IN  /\ frame[t].op = "remove"
        /\ cache' = Emptied(load[l].slot)
        /\ AfterGetBid(t, l, frame[t].bid, TRUE, frame[t].result)
        /\ UNCHANGED << envVars, silentUntil, barrierQ, unsilenced, call >>

-----------------------------------------------------------------------------
(* loadCdbBidForAdUnit, on the caller's thread *)

LoadCdbBid(t, l) ==
    /\ t \in AppThreads
    /\ frame[t].op = "idle"
    /\ load[l].stage = "idle"
    /\ frame' = [frame EXCEPT ![t] =
                    [Idle EXCEPT !.load = l,
                                 !.op = IF cfg.live /\ ~CannotCallCdb THEN "silent"
                                                                      ELSE "get"]]
    /\ load' = [load EXCEPT ![l] = [@ EXCEPT !.stage = "sync", !.live = cfg.live]]
    /\ UNCHANGED << envVars, silentUntil, cache, barrierQ, unsilenced, call,
                    feedbackVars, answers >>

\* The block of getBidThenFetch: report, prefetch again unless the slot is
\* silent, answer with the bid the cache held.
GetBidThenFetchBlock(l) ==
    LET b == load[l].bid
    IN  /\ load[l].stage = "block"
        /\ OnBidConsumed(Consumed(b, load[l].consumed))
        /\ call' = [call EXCEPT ![l] =
                       IF (b = NoBid \/ Renewable(b)) /\ ~CannotCallCdb THEN "queued"
                                                                        ELSE @]
        /\ Answer(l, b)
        /\ load' = [load EXCEPT ![l].stage = "done"]
        /\ UNCHANGED << envVars, silentUntil, cache, frame, barrierQ, unsilenced >>

-----------------------------------------------------------------------------
(* Live bidding: isSlotSilent, on the caller's thread before the call to CDB
   and on the barrier queue before a late answer is cached *)

\* isSlotSilent said no: dispatchAsyncOnGlobalQueueWithTimeout, or the late store.
SlotIsNotSilent(t, l) ==
    IF t = Barrier
      THEN /\ frame' = [frame EXCEPT ![t].op = "store"]
           /\ UNCHANGED load
      ELSE /\ frame' = [frame EXCEPT ![t] = Idle]
           /\ load' = [load EXCEPT ![l] = [@ EXCEPT !.stage = "racing",
                                                    !.operation = TRUE,
                                                    !.timer = TRUE]]

IsSlotSilent(t) ==
    LET l == frame[t].load
        b == cache[load[l].slot]
    IN  /\ frame[t].op = "silent"
        /\ \/ /\ b # NoBid => ~InSilenceMode(b)
              /\ SlotIsNotSilent(t, l)
              /\ UNCHANGED answers
           \/ /\ b # NoBid
              /\ InSilenceMode(b)
              /\ Expired(b)
              /\ frame' = [frame EXCEPT ![t].op = "unsilence"]
              /\ UNCHANGED << load, answers >>
           \/ /\ b # NoBid
              /\ InSilenceMode(b)
              /\ ~Expired(b)
              /\ frame' = [frame EXCEPT ![t] = Idle]
              /\ IF t = Barrier
                   THEN UNCHANGED << load, answers >>
                   ELSE /\ load' = [load EXCEPT ![l].stage = "done"]
                        /\ Answer(l, NoBid)
        /\ UNCHANGED << envVars, silentUntil, cache, barrierQ, unsilenced, call,
                        feedbackVars >>

\* unsilenceSlotForAdUnit reads the slot again ...
RereadSilence(t) ==
    /\ frame[t].op = "unsilence"
    /\ frame' = [frame EXCEPT ![t] = [@ EXCEPT !.op = "drop",
                                               !.bid = cache[load[frame[t].load].slot]]]
    /\ UNCHANGED << envVars, silentUntil, cache, load, barrierQ, unsilenced, call,
                    feedbackVars, answers >>

\* ... empties it and posts the consumption of what the second read found.
DropSilence(t) ==
    LET l == frame[t].load
    IN  /\ frame[t].op = "drop"
        /\ cache' = Emptied(load[l].slot)
        /\ unsilenced' = unsilenced \cup ({t} \X {l} \X Consumed(frame[t].bid, TRUE))
        /\ SlotIsNotSilent(t, l)
        /\ UNCHANGED << envVars, silentUntil, barrierQ, call, feedbackVars, answers >>

UnsilenceBlock(post) ==
    /\ post \in unsilenced
    /\ unsilenced' = unsilenced \ {post}
    /\ OnBidConsumed({post[3]})
    /\ UNCHANGED << envVars, silentUntil, cache, load, frame, barrierQ, call, answers >>

-----------------------------------------------------------------------------
(* Live bidding: the CDB call against its time-out *)

\* The operation block on the global queue: fetchBidsForAdUnits checks once more
\* that CDB may be called.
Operation(l) ==
    /\ load[l].operation
    /\ load' = [load EXCEPT ![l].operation = FALSE]
    /\ IF CannotCallCdb
         THEN /\ barrierQ' = Append(barrierQ,
                                    [kind |-> "completion", load |-> l, bids |-> {}])
              /\ UNCHANGED call
         ELSE /\ call' = [call EXCEPT ![l] = "queued"]
              /\ UNCHANGED barrierQ
    /\ UNCHANGED << envVars, silentUntil, cache, frame, unsilenced, feedbackVars, answers >>

TimerFires(l) ==
    /\ load[l].timer
    /\ load' = [load EXCEPT ![l].timer = FALSE]
    /\ barrierQ' = Append(barrierQ, [kind |-> "timeout", load |-> l, bids |-> {}])
    /\ UNCHANGED << envVars, silentUntil, cache, frame, unsilenced, call, feedbackVars,
                    answers >>

\* The next block of timeoutBarrierQueue starts.
NextBlock(k) ==
    /\ frame[Barrier].op = "idle"
    /\ barrierQ # << >>
    /\ k = Head(barrierQ)
    /\ barrierQ' = Tail(barrierQ)
    /\ UNCHANGED << envVars, silentUntil, unsilenced, call >>

\* Was the load answered before this block ran?
HandledForCompletion(k) == k.kind = "completion" /\ load[k.load].handled
HandledOnceTimedOut(k) == k.kind = "timeout" \/ load[k.load].handled
Handled(k) == load[k.load].handled

\* Of the bids of a response, the silences and those a caller may be given.
Silences(B) == {b \in B : InSilenceMode(b)}
ValidOnes(B) == {b \in B : b.valid}
Usable(B) == {b \in B : ~InSilenceMode(b) /\ b.valid}

\* Time-out handler, or completion handler with no usable bid, when the load is
\* not handled yet: fall back on the cache.
FallBackOnCache(k) ==
    /\ NextBlock(k)
    /\ ~Handled(k)
    /\ Silences(k.bids) = {} /\ Usable(k.bids) = {}
    /\ frame' = [frame EXCEPT ![Barrier] = [Idle EXCEPT !.op = "get", !.load = k.load]]
    /\ UNCHANGED << cache, load, feedbackVars, answers >>

\* Completion handler in time with a silent bid: the slot is silenced.
SilenceInTime(k) ==
    /\ NextBlock(k)
    /\ ~Handled(k)
    /\ Silences(k.bids) # {}
    /\ SetBids(k.bids)
    /\ frame' = [frame EXCEPT ![Barrier] = [Idle EXCEPT !.op = "noteSilence",
                                                        !.load = k.load,
                                                        !.arrived = k.bids]]
    /\ UNCHANGED << load, feedbackVars, answers >>

\* Completion handler in time with a valid bid: it is handed over, never cached.
BidInTime(k) ==
    /\ NextBlock(k)
    /\ ~Handled(k)
    /\ \E b \in Usable(k.bids) : OnBidConsumed({b}) /\ Answer(k.load, b)
    /\ load' = [load EXCEPT ![k.load].handled = TRUE]
    /\ UNCHANGED << cache, frame >>

\* Completion handler after the time-out.
LateCompletion(k) ==
    /\ NextBlock(k)
    /\ k.kind = "completion"
    /\ Handled(k)
    /\ frame' = [frame EXCEPT ![Barrier] = [Idle EXCEPT !.op = "silent", !.load = k.load,
                                                        !.arrived = k.bids]]
    /\ UNCHANGED << cache, load, feedbackVars, answers >>

\* The cacheBidsFromResponse of the late completion, once the slot was found not silent.
StoreLate ==
    /\ frame[Barrier].op = "store"
    /\ SetBids(frame[Barrier].arrived)
    /\ frame' = [frame EXCEPT ![Barrier].op = "note"]
    /\ UNCHANGED << envVars, silentUntil, load, barrierQ, unsilenced, call, feedbackVars,
                    answers >>

\* onBidCached of the bids just stored; a silence received in time is then answered.
NoteCached(t) ==
    LET l == frame[t].load
    IN  /\ frame[t].op \in {"note", "noteSilence"}
        /\ OnBidCached(frame[t].arrived)
        /\ frame' = [frame EXCEPT ![t] = Idle]
        /\ IF frame[t].op = "noteSilence"
             THEN /\ load' = [load EXCEPT ![l].handled = TRUE]
                  /\ Answer(l, NoBid)
             ELSE UNCHANGED << load, answers >>
        /\ UNCHANGED << envVars, silentUntil, cache, barrierQ, unsilenced, call >>

\* Time-out handler after the completion: nothing left to do.
TimeoutAfterCompletion(k) ==
    /\ NextBlock(k)
    /\ k.kind = "timeout"
    /\ Handled(k)
    /\ UNCHANGED << cache, load, frame, feedbackVars, answers >>

-----------------------------------------------------------------------------
(* The CDB call: doCdbApiCall, postToUrl and fetchBidsForAdUnits' completion *)

SlotsOf(r) == IF r = AtInit THEN Slots ELSE {load[r].slot}

ForLiveLoad(r) == r \in Loads /\ load[r].live

\* Once the user agent is known and the global queue gets there.
SendCall(r) ==
    /\ call[r] = "queued"
    /\ call' = [call EXCEPT ![r] = "sent"]
    /\ UpdateMessages([id \in Ids |-> IF id[1] = r /\ id[2] \in SlotsOf(r)
                                        THEN {"start"} ELSE {}])
    /\ UNCHANGED << envVars, silentUntil, cache, load, frame, barrierQ, unsilenced, answers >>

\* NSURLSession completes one task at a time.
Answerable(r) ==
    /\ call[r] = "sent"
    /\ frame[Session].op = "idle"
    /\ \A q \in Requests : call[q] # "failing"

\* The handler given to fetchBidsForAdUnits, called with the bids B: live bidding
\* queues its completion handler, a prefetch caches them.
CdbResponseHandler(r, B) ==
    IF ForLiveLoad(r)
      THEN /\ barrierQ' = Append(barrierQ,
                                 [kind |-> "completion", load |-> r, bids |-> B])
           /\ UNCHANGED << cache, frame >>
      ELSE /\ SetBids(B)
           /\ frame' = [frame EXCEPT ![Session] =
                           [@ EXCEPT !.op = IF B = {} THEN "idle" ELSE "note",
                                     !.arrived = B]]
           /\ UNCHANGED barrierQ

\* What onCdbCallResponse sets for each slot.
ResponseFlags(r, B) ==
    [id \in Ids |->
        IF id[1] # r \/ id[2] \notin SlotsOf(r) THEN {}
        ELSE IF \A b \in B : b.slot # id[2] THEN {"end", "expired"}
        ELSE IF \E b \in B : b.slot = id[2] /\ ~b.valid THEN {"expired"}
        ELSE {"end"}]

Reply(r) ==
    /\ Answerable(r)
    /\ \E S \in SUBSET SlotsOf(r), delay \in Delays : \E offer \in [S -> Offers] :
          LET B == {BidFor(r, s, offer[s]) : s \in S}
          IN  /\ silentUntil' = IF delay > 0 THEN now + delay ELSE silentUntil
              /\ UpdateMessages(ResponseFlags(r, B))
              /\ CdbResponseHandler(r, B)
    /\ call' = [call EXCEPT ![r] = "done"]
    /\ UNCHANGED << envVars, load, unsilenced, answers >>

\* 204, or a body that is no JSON: neither an error nor a response.
NoContent(r) ==
    /\ Answerable(r)
    /\ CdbResponseHandler(r, {})
    /\ call' = [call EXCEPT ![r] = "done"]
    /\ UNCHANGED << envVars, silentUntil, load, unsilenced, feedbackVars, answers >>

FailureFlags(r, timedOut) ==
    [id \in Ids |-> IF id[1] = r /\ id[2] \in SlotsOf(r)
                      THEN (IF timedOut THEN {"timeout", "expired"} ELSE {"expired"})
                      ELSE {}]

\* A transport error, and a second call of the handler when the task also carries
\* a 2xx response.
Fail(r) ==
    /\ \/ /\ Answerable(r)
          /\ \E next \in IF TwoCallbacks THEN {"failing", "done"} ELSE {"done"} :
                call' = [call EXCEPT ![r] = next]
       \/ /\ call[r] = "failing"
          /\ call' = [call EXCEPT ![r] = "done"]
    /\ \E timedOut \in BOOLEAN : UpdateMessages(FailureFlags(r, timedOut))
    /\ CdbResponseHandler(r, {})
    /\ UNCHANGED << envVars, silentUntil, load, unsilenced, answers >>

\* Any status outside 200..299: postToUrl calls nobody back.
HttpError(r) ==
    /\ Answerable(r)
    /\ call' = [call EXCEPT ![r] = "done"]
    /\ UNCHANGED << envVars, silentUntil, cache, load, frame, barrierQ, unsilenced,
                    feedbackVars, answers >>

-----------------------------------------------------------------------------
(* Registration, configuration and time *)

\* _registerCriteoPublisherId: ask for the configuration, then prefetch with the
\* one at hand.
Register ==
    /\ setup = "none"
    /\ setup' = "registered"
    /\ call' = [call EXCEPT ![AtInit] =
                   IF cfg.prefetch /\ ~CannotCallCdb THEN "queued" ELSE @]
    /\ UNCHANGED << now, cfg, silentUntil, cache, load, frame, barrierQ, unsilenced,
                    feedbackVars, answers >>

RefreshConfig ==
    /\ setup = "registered"
    /\ setup' = "configured"
    /\ cfg' \in Configs
    /\ UNCHANGED << now, silentUntil, cache, load, frame, barrierQ, unsilenced, call,
                    feedbackVars, answers >>

Tick ==
    /\ now < MaxTime
    /\ now' = now + 1
    /\ UNCHANGED << cfg, setup, silentUntil, cache, load, frame, barrierQ, unsilenced,
                    call, feedbackVars, answers >>

-----------------------------------------------------------------------------
CacheStep(t) ==
    \/ GetBid(t)
    \/ RemoveBid(t)
    \/ IsSlotSilent(t)
    \/ RereadSilence(t)
    \/ DropSilence(t)
    \/ NoteCached(t)

BarrierBlock ==
    \E k \in {barrierQ[i] : i \in DOMAIN barrierQ} :
        \/ FallBackOnCache(k)
        \/ SilenceInTime(k)
        \/ BidInTime(k)
        \/ LateCompletion(k)
        \/ TimeoutAfterCompletion(k)

Network(r) ==
    \/ Reply(r)
    \/ NoContent(r)
    \/ Fail(r)
    \/ HttpError(r)

Next ==
    \/ \E t \in AppThreads, l \in Loads : LoadCdbBid(t, l)
    \/ \E t \in Threads : CacheStep(t)
    \/ \E l \in Loads : GetBidThenFetchBlock(l)
    \/ \E l \in Loads : Operation(l)
    \/ \E l \in Loads : TimerFires(l)
    \/ \E post \in unsilenced : UnsilenceBlock(post)
    \/ BarrierBlock
    \/ StoreLate
    \/ \E r \in Requests : SendCall(r)
    \/ \E r \in Requests : Network(r)
    \/ Register
    \/ RefreshConfig
    \/ Tick

Spec == Init /\ [][Next]_vars

\* Threads run their code to the end, GCD runs every block it was given and the
\* timer fires.  Nothing obliges CDB to answer, nor the application to load.
Fairness ==
    /\ \A t \in Threads : WF_vars(CacheStep(t))
    /\ \A l \in Loads : WF_vars(GetBidThenFetchBlock(l))
    /\ \A l \in Loads : WF_vars(Operation(l))
    /\ \A l \in Loads : WF_vars(TimerFires(l))
    /\ WF_vars(BarrierBlock)
    /\ WF_vars(StoreLate)

FairSpec == Spec /\ Fairness

-----------------------------------------------------------------------------
(* Properties *)

\* The responseHandler of a load is called at most once, whichever of the CDB
\* answer, its duplicate and the time-out gets to the barrier queue first
\* (dispatchAsyncOnGlobalQueueWithTimeout's handled flag).
AnsweredAtMostOnce == \A l \in Loads : Len(answers[l]) <= 1

\* A bid that a caller was given is out of the cache: a live bid is handed over or
\* cached, never both, and a cached one is removed before it is handed over.
\* Silences excepted, which cache bidding leaves in place.
HandedBidNotCached ==
    \A l \in Loads : \A i \in DOMAIN answers[l] :
        LET b == answers[l][i]
        IN  b # NoBid /\ (load[l].live \/ ~InSilenceMode(b))
               => \A s \in Slots : cache[s] # b

\* A bid is sold once: no two loads are given the same bid (getBid: "remove it
\* from the cache and consume the good bid").
HandedToOneLoad ==
    \A l, m \in Loads : \A i \in DOMAIN answers[l], j \in DOMAIN answers[m] :
        LET b == answers[l][i]
        IN  l # m /\ b # NoBid /\ b = answers[m][j] => InSilenceMode(b)

\* No caller is given the zero-priced bid that only marks a silent slot.
SilenceNeverSurfaces ==
    \A l \in Loads : \A i \in DOMAIN answers[l] :
        answers[l][i] # NoBid => ~InSilenceMode(answers[l][i])

\* The impression id of a bid.
Impression(b) == IF b = NoBid THEN NoBid ELSE << b.req, b.slot >>

\* A load was given the bid of its own CDB call, which then never went through the cache.
HandedStraight(id) ==
    id[1] \in Loads /\ \E i \in DOMAIN answers[id[1]] : Impression(answers[id[1]][i]) = id

\* onBidCached has still to run for a bid that setBid has put in the cache.
NoteComing(id) ==
    \E t \in Threads :
        /\ frame[t].op \in {"note", "noteSilence"}
        /\ \E b \in frame[t].arrived : b.valid /\ Impression(b) = id

\* At most one feedback message per impression goes to the sending queue, and its fields
\* tell how the call went: it has a start, and when a bid was consumed in time, the end of
\* the call and, for a bid that went through the cache, the time it was cached.  Except
\* when the consumer came between setBid and onBidCached: the message was then sent without,
\* and onBidCached opens another one that nothing closes, though a consumed bid's metric
\* "does not expect further updates" (CR_FeedbackController.h:92-93).  No other field is
\* ever set once the message is in the queue.
MetricClosedOnce ==
    \A id \in Ids : queued[id] # << >> =>
        LET m == queued[id][1]
        IN  /\ Len(queued[id]) = 1
            /\ "start" \in m
            /\ "elapsed" \in m =>
                  /\ "end" \in m
                  /\ "cached" \in m \cup metric[id] \/ HandedStraight(id) \/ NoteComing(id)
            /\ metric[id] \subseteq {"cached"}

\* Two removals empty a slot for what its thread read there before: getBid's, which then
\* takes away another bid than it returns, and the one of unsilenceSlotForAdUnit.
RemovalDecidedEarlier(s) ==
    \E t \in Threads :
        \/ RemoveBid(t) /\ load[frame[t].load].slot = s /\ frame[t].bid # cache[s]
        \/ DropSilence(t) /\ load[frame[t].load].slot = s

\* The silence of slot s stays, or a later silence, a prefetch or such a removal ends it.
SilenceStays(s) ==
    cache[s] # NoBid /\ InSilenceMode(cache[s]) /\ ~Expired(cache[s])
    /\ ForLiveLoad(cache[s].req)
        => \/ cache'[s] = cache[s]
           \/ /\ cache'[s] # NoBid
              /\ InSilenceMode(cache'[s]) \/ ~ForLiveLoad(cache'[s].req)
           \/ cache'[s] = NoBid /\ RemovalDecidedEarlier(s)

\* A silence that a live answer brought stays in the cache until it expires: no late answer
\* replaces it (isSlotSilent before the late cacheBids), no consumer that sees it takes it
\* away.  Only a later silence, a prefetch, or a removal decided before it came does.
SilenceKept == [][\A s \in Slots : SilenceStays(s)]_vars

\* What the callers of loadCdbBidForAdUnit see of all this: BidContract.
Contract == INSTANCE BidContract WITH
    wanted <- [l \in Loads |-> load[l].slot],
    asked  <- {l \in Loads : load[l].stage # "idle"},
    given  <- [l \in Loads |-> [i \in DOMAIN answers[l] |-> Impression(answers[l][i])]]

\* Every load is answered at most once, after it was asked, with a bid for the ad
\* unit it asked for, or with none, and the answer never changes (responseHandler
\* of loadCdbBidForAdUnit, whatever the order of the CDB answer and the time-out).
KeepsContract == Contract!Spec

\* What will answer a load whatever CDB does: its caller, still inside the call; its posted
\* block; its timer, before it fires; a block of the barrier queue, or the one under way.
WillBeAnswered(l) ==
    \/ \E t \in AppThreads : frame[t].op # "idle" /\ frame[t].load = l
    \/ load[l].stage = "block"
    \/ load[l].timer
    \/ \E i \in DOMAIN barrierQ : barrierQ[i].load = l
    \/ frame[Barrier].op \in {"get", "remove", "noteSilence"} /\ frame[Barrier].load = l

\* No load is forgotten: until its responseHandler was called, something that will call it
\* is there, and it is not the CDB call, whose answer may never come.  So handled is set only
\* together with an answer, and the block that meets it set has nothing left to answer.
NoLoadForgotten ==
    \A l \in Loads :
        load[l].stage = "idle" \/ answers[l] # << >> \/ WillBeAnswered(l)

\* Every load gets its answer, even if CDB never does: the time-out of live bidding
\* and the posted block of cache bidding see to it.
EveryLoadAnswered == Contract!Answering

=============================================================================
