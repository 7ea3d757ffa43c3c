-------------------------- MODULE BidManagerProofs --------------------------
(***************************************************************************)
(* Theorems about BidManager, for any number of loads, threads, slots and  *)
(* offers: its type invariant, that no load is answered twice, that it     *)
(* implements BidContract, that a bid a caller was given has left the      *)
(* cache, that live bidding surfaces no silence, and that a silence stays  *)
(* in the cache until it expires; that a bid is sold once and its feedback *)
(* message sent once, unless two threads read it before either removes it; *)
(* that a load nobody has answered is never forgotten.                     *)
(***************************************************************************)
EXTENDS BidManager, TLAPS

-----------------------------------------------------------------------------
(* The inductive invariant *)

\* Has nobody answered the load l yet?
Unanswered(l) == load[l].stage # "done" /\ (load[l].stage = "racing" => ~load[l].handled)

\* The answer of a load is given once: by its caller, by its posted block, or by the
\* one block of the barrier queue that finds handled unset.
AnswerInv == \A l \in Loads : Unanswered(l) => answers[l] = << >>

\* An application thread that is inside a function works for a load whose call has
\* not returned yet, and no two of them for the same one.
CallerInv ==
    /\ \A t \in AppThreads :
          frame[t].op # "idle" =>
              /\ frame[t].op \in {"get", "remove", "silent", "unsilence", "drop"}
              /\ load[frame[t].load].stage = "sync"
              /\ frame[t].op \in {"silent", "unsilence", "drop"}
                    => load[frame[t].load].live
    /\ \A t, u \in AppThreads :
          t # u /\ frame[t].op # "idle" /\ frame[u].op # "idle"
              => frame[t].load # frame[u].load

\* The delegate queue of the session only caches; the barrier queue answers a load
\* that lost neither to the completion nor to the time-out.
WorkerInv ==
    /\ frame[Session].op \in {"idle", "note"}
    /\ frame[Barrier].op \in {"get", "remove", "noteSilence"} =>
          /\ load[frame[Barrier].load].stage = "racing"
          /\ ~load[frame[Barrier].load].handled

\* The blocks of a live load are posted together, once; CDB is asked for a load by
\* its operation or by its posted block.
StageInv ==
    /\ \A l \in Loads :
          /\ load[l].stage = "racing" => load[l].live
          /\ load[l].stage = "block" => ~load[l].live
          /\ load[l].operation \/ load[l].timer => load[l].stage = "racing"
          /\ call[l] # "none" => \/ load[l].live /\ load[l].stage = "racing"
                                 \/ ~load[l].live /\ load[l].stage = "done"
    /\ \A i \in DOMAIN barrierQ : load[barrierQ[i].load].stage = "racing"

\* Bids stay with their slot: in the cache, in the answer of CDB, in what a thread
\* has read and in what a posted block has captured.
SlotInv ==
    /\ \A s \in Slots : cache[s] # NoBid => cache[s].slot = s
    /\ \A t \in Threads : frame[t].op = "remove" =>
          /\ frame[t].bid # NoBid => frame[t].bid.slot = load[frame[t].load].slot
          /\ frame[t].result # NoBid => frame[t].result.slot = load[frame[t].load].slot
    /\ \A i \in DOMAIN barrierQ : \A b \in barrierQ[i].bids :
          b.slot = load[barrierQ[i].load].slot
    /\ \A l \in Loads : load[l].stage = "block" /\ load[l].bid # NoBid
                           => load[l].bid.slot = load[l].slot

IInv == TypeOK /\ AnswerInv /\ CallerInv /\ WorkerInv /\ StageInv /\ SlotInv

-----------------------------------------------------------------------------
(* Types of the helpers *)

LEMMA UpdateMessagesType ==
    ASSUME TypeOK, NEW update \in [Ids -> SUBSET Flag], UpdateMessages(update)
    PROVE  /\ metric' \in [Ids -> SUBSET Flag]
           /\ queued' \in [Ids -> Seq(SUBSET Flag)]
<1> DEFINE after == [id \in Ids |-> metric[id] \cup update[id]]
<1>1. after \in [Ids -> SUBSET Flag]
  BY DEF TypeOK
<1>2. metric' = [id \in Ids |-> IF IsReadyToSend(after[id]) THEN {} ELSE after[id]]
  BY DEF UpdateMessages
<1>3. queued' = [id \in Ids |-> IF IsReadyToSend(after[id])
                                  THEN Append(queued[id], after[id]) ELSE queued[id]]
  BY DEF UpdateMessages
<1> HIDE DEF after
<1>4. metric' \in [Ids -> SUBSET Flag]
  BY <1>1, <1>2
<1>5. queued' \in [Ids -> Seq(SUBSET Flag)]
  <2>1. ASSUME NEW id \in Ids
        PROVE  Append(queued[id], after[id]) \in Seq(SUBSET Flag)
    BY <1>1, <2>1 DEF TypeOK
  <2> QED
    BY <1>3, <2>1 DEF TypeOK
<1> QED
  BY <1>4, <1>5

LEMMA OnBidConsumedType ==
    ASSUME TypeOK, NEW B, OnBidConsumed(B)
    PROVE  /\ metric' \in [Ids -> SUBSET Flag]
           /\ queued' \in [Ids -> Seq(SUBSET Flag)]
<1> DEFINE update == [id \in Ids |->
               UNION {IF Expired(b) THEN {"expired"} ELSE {"elapsed"}
                        : b \in {c \in B : << c.req, c.slot >> = id}}]
<1>1. update \in [Ids -> SUBSET Flag]
  BY DEF Flag
<1>2. UpdateMessages(update)
  BY DEF OnBidConsumed
<1> QED
  BY <1>1, <1>2, UpdateMessagesType

LEMMA OnBidCachedType ==
    ASSUME TypeOK, NEW B, OnBidCached(B)
    PROVE  /\ metric' \in [Ids -> SUBSET Flag]
           /\ queued' \in [Ids -> Seq(SUBSET Flag)]
<1> DEFINE update == [id \in Ids |-> IF \E b \in B : b.valid /\ << b.req, b.slot >> = id
                                       THEN {"cached"} ELSE {}]
<1>1. update \in [Ids -> SUBSET Flag]
  BY DEF Flag
<1>2. UpdateMessages(update)
  BY DEF OnBidCached
<1> QED
  BY <1>1, <1>2, UpdateMessagesType

LEMMA SetBidsType ==
    ASSUME TypeOK, NEW B \in SUBSET Bid, SetBids(B)
    PROVE  cache' \in [Slots -> Bid \cup {NoBid}]
  BY DEF TypeOK, SetBids

LEMMA EmptiedType ==
    ASSUME TypeOK, NEW s \in Slots
    PROVE  Emptied(s) \in [Slots -> Bid \cup {NoBid}]
  BY DEF TypeOK, Emptied

LEMMA IdleType == Idle \in Frame
  BY DEF Idle, Frame, Requests

LEMMA BidForType ==
    ASSUME TypeOK, NEW r \in Requests, NEW s \in Slots, NEW o \in Offers
    PROVE  BidFor(r, s, o) \in Bid
<1>1. o \in Offer
  BY ConstantsAssumption
<1> QED
  BY <1>1, ConstantsAssumption DEF TypeOK, BidFor, Bid, Offer

-----------------------------------------------------------------------------
(* Type correctness *)

LEMMA AnswerType ==
    ASSUME TypeOK, NEW l \in Loads, NEW b \in Bid \cup {NoBid}, Answer(l, b)
    PROVE  answers' \in [Loads -> Seq(Bid \cup {NoBid})]
<1>1. Append(answers[l], b) \in Seq(Bid \cup {NoBid})
  BY DEF TypeOK
<1> QED
  BY <1>1 DEF TypeOK, Answer

LEMMA AfterGetBidType ==
    ASSUME TypeOK, NEW t \in Threads, NEW l \in Loads, NEW b \in Bid \cup {NoBid},
           NEW consumed \in BOOLEAN, NEW result \in Bid \cup {NoBid},
           AfterGetBid(t, l, b, consumed, result)
    PROVE  /\ frame' = [frame EXCEPT ![t] = Idle]
           /\ load' \in [Loads -> Load]
           /\ metric' \in [Ids -> SUBSET Flag]
           /\ queued' \in [Ids -> Seq(SUBSET Flag)]
           /\ answers' \in [Loads -> Seq(Bid \cup {NoBid})]
<1>0. load \in [Loads -> Load]
  BY DEF TypeOK
<1>1. frame' = [frame EXCEPT ![t] = Idle]
  BY DEF AfterGetBid
<1>2. CASE ~load[l].live
  <2>1. load' = [load EXCEPT ![l] = [@ EXCEPT !.stage = "block", !.bid = b,
                                              !.consumed = consumed]]
    BY <1>2 DEF AfterGetBid
  <2>2. load' \in [Loads -> Load]
    BY <1>0, <2>1 DEF Load
  <2>3. UNCHANGED << metric, queued, answers >>
    BY <1>2 DEF AfterGetBid, feedbackVars
  <2> QED
    BY <1>1, <2>2, <2>3 DEF TypeOK
<1>3. CASE load[l].live
  <2> DEFINE stage == IF t = Barrier THEN "racing" ELSE "done"
             handled == t = Barrier
  <2>1. load' = [load EXCEPT ![l] = [@ EXCEPT !.stage = stage, !.handled = handled]]
    BY <1>3 DEF AfterGetBid
  <2>2. stage \in {"racing", "done"} /\ handled \in BOOLEAN
    OBVIOUS
  <2> HIDE DEF stage, handled
  <2>5. load' \in [Loads -> Load]
    BY <1>0, <2>1, <2>2 DEF Load
  <2>3. /\ metric' \in [Ids -> SUBSET Flag]
        /\ queued' \in [Ids -> Seq(SUBSET Flag)]
    BY <1>3, OnBidConsumedType DEF AfterGetBid
  <2>4. answers' \in [Loads -> Seq(Bid \cup {NoBid})]
    BY <1>3, AnswerType DEF AfterGetBid
  <2> QED
    BY <1>1, <2>3, <2>4, <2>5
<1> QED
  BY <1>2, <1>3

LEMMA GetBidType ==
    ASSUME TypeOK, NEW t \in Threads, GetBid(t)
    PROVE  TypeOK'
<1> DEFINE l == frame[t].load
           b == cache[load[l].slot]
<1>1. l \in Loads /\ load[l].slot \in Slots
  BY DEF GetBid, TypeOK, Load
<1>2. b \in Bid \cup {NoBid}
  BY <1>1 DEF TypeOK
<1>3. UNCHANGED << now, cfg, setup, silentUntil, cache, barrierQ, unsilenced, call >>
  BY DEF GetBid, envVars
<1>4. CASE Consumable(b)
  <2>1. frame' = [frame EXCEPT ![t] =
                    [@ EXCEPT !.op = "remove", !.bid = b,
                              !.result = IF Expired(b) THEN NoBid ELSE b]]
    BY <1>4 DEF GetBid
  <2>2. UNCHANGED << load, metric, queued, answers >>
    BY <1>4 DEF GetBid, feedbackVars
  <2>3. frame' \in [Threads -> Frame]
    <3> DEFINE result == IF Expired(b) THEN NoBid ELSE b
    <3>1. frame \in [Threads -> Frame]
      BY DEF TypeOK
    <3>2. result \in Bid \cup {NoBid}
      BY <1>2
    <3>3. frame' = [frame EXCEPT ![t] =
                      [@ EXCEPT !.op = "remove", !.bid = b, !.result = result]]
      BY <2>1
    <3> HIDE DEF b, result
    <3> QED
      BY <1>2, <3>1, <3>2, <3>3 DEF Frame
  <2>4. \A u \in Threads : frame'[u].load = frame[u].load
    BY <2>1 DEF TypeOK, Frame
  <2>5. \A u \in Threads : u # t => frame'[u] = frame[u]
    BY <2>1 DEF TypeOK
  <2> QED
    BY <1>1, <1>3, <2>2, <2>3, <2>4, <2>5 DEF TypeOK
<1>5. CASE ~Consumable(b)
  <2>1. AfterGetBid(t, l, b, FALSE, NoBid)
    BY <1>5 DEF GetBid
  <2>2. /\ frame' = [frame EXCEPT ![t] = Idle]
        /\ load' \in [Loads -> Load]
        /\ metric' \in [Ids -> SUBSET Flag]
        /\ queued' \in [Ids -> Seq(SUBSET Flag)]
        /\ answers' \in [Loads -> Seq(Bid \cup {NoBid})]
    BY <1>1, <1>2, <2>1, AfterGetBidType
  <2> QED
    BY <1>3, <2>2, IdleType DEF TypeOK, Idle
<1> QED
  BY <1>4, <1>5

LEMMA RemoveBidType ==
    ASSUME TypeOK, NEW t \in Threads, RemoveBid(t)
    PROVE  TypeOK'
<1> DEFINE l == frame[t].load
<1>1. l \in Loads /\ load[l].slot \in Slots
  BY DEF RemoveBid, TypeOK, Load
<1>2. frame[t].bid \in Bid \cup {NoBid} /\ frame[t].result \in Bid \cup {NoBid}
  BY DEF TypeOK, Frame
<1>3. /\ frame' = [frame EXCEPT ![t] = Idle]
      /\ load' \in [Loads -> Load]
      /\ metric' \in [Ids -> SUBSET Flag]
      /\ queued' \in [Ids -> Seq(SUBSET Flag)]
      /\ answers' \in [Loads -> Seq(Bid \cup {NoBid})]
  BY <1>1, <1>2, AfterGetBidType DEF RemoveBid
<1>4. cache' \in [Slots -> Bid \cup {NoBid}]
  BY <1>1, EmptiedType DEF RemoveBid
<1>5. UNCHANGED << now, cfg, setup, silentUntil, barrierQ, unsilenced, call >>
  BY DEF RemoveBid, envVars
<1> QED
  BY <1>3, <1>4, <1>5, IdleType DEF TypeOK, Idle

\* A thread moves to the place f of its code.
LEMMA FrameStepType ==
    ASSUME TypeOK, NEW t \in Threads, NEW f \in Frame,
           f.op \notin {"idle", "note"} => f.load \in Loads,
           frame' = [frame EXCEPT ![t] = f]
    PROVE  /\ frame' \in [Threads -> Frame]
           /\ \A u \in Threads : frame'[u].op \notin {"idle", "note"}
                                    => frame'[u].load \in Loads
  BY DEF TypeOK

\* The load l takes the record x.
LEMMA LoadStepType ==
    ASSUME TypeOK, NEW l \in Loads, NEW x \in Load, load' = [load EXCEPT ![l] = x]
    PROVE  load' \in [Loads -> Load]
  BY DEF TypeOK

LEMMA LoadCdbBidType ==
    ASSUME TypeOK, NEW t \in AppThreads, NEW l \in Loads, LoadCdbBid(t, l)
    PROVE  TypeOK'
<1> DEFINE op == IF cfg.live /\ ~CannotCallCdb THEN "silent" ELSE "get"
           f == [Idle EXCEPT !.load = l, !.op = op]
           x == [load[l] EXCEPT !.stage = "sync", !.live = cfg.live]
<1>1. op \in {"silent", "get"}
  OBVIOUS
<1>2. f \in Frame /\ f.load \in Loads
  <2> HIDE DEF op
  <2> QED
    BY <1>1 DEF Idle, Frame, Requests
<1>3. x \in Load
  <2>1. load[l] \in Load /\ cfg.live \in BOOLEAN
    BY DEF TypeOK, Config
  <2> QED
    BY <2>1 DEF Load
<1>4. frame' = [frame EXCEPT ![t] = f] /\ load' = [load EXCEPT ![l] = x]
  BY DEF LoadCdbBid
<1>5. UNCHANGED << now, cfg, setup, silentUntil, cache, barrierQ, unsilenced, call,
                   metric, queued, answers >>
  BY DEF LoadCdbBid, envVars, feedbackVars
<1>6. t \in Threads
  BY DEF Threads
<1> HIDE DEF f, x
<1>7. /\ frame' \in [Threads -> Frame]
      /\ \A u \in Threads : frame'[u].op \notin {"idle", "note"}
                               => frame'[u].load \in Loads
  BY <1>2, <1>4, <1>6, FrameStepType
<1>8. load' \in [Loads -> Load]
  BY <1>3, <1>4, LoadStepType
<1> QED
  BY <1>5, <1>7, <1>8 DEF TypeOK

LEMMA GetBidThenFetchBlockType ==
    ASSUME TypeOK, NEW l \in Loads, GetBidThenFetchBlock(l)
    PROVE  TypeOK'
<1>1. load[l] \in Load /\ load[l].bid \in Bid \cup {NoBid}
  BY DEF TypeOK, Load
<1>2. load' = [load EXCEPT ![l].stage = "done"]
  BY DEF GetBidThenFetchBlock
<1>3. load' \in [Loads -> Load]
  BY <1>1, <1>2 DEF TypeOK, Load
<1>4. /\ metric' \in [Ids -> SUBSET Flag]
      /\ queued' \in [Ids -> Seq(SUBSET Flag)]
  BY OnBidConsumedType DEF GetBidThenFetchBlock
<1>5. answers' \in [Loads -> Seq(Bid \cup {NoBid})]
  BY <1>1, AnswerType DEF GetBidThenFetchBlock
<1>6. call' \in [Requests -> {"none", "queued", "sent", "failing", "done"}]
  BY DEF GetBidThenFetchBlock, TypeOK, Requests
<1>7. UNCHANGED << now, cfg, setup, silentUntil, cache, frame, barrierQ, unsilenced >>
  BY DEF GetBidThenFetchBlock, envVars
<1> QED
  BY <1>3, <1>4, <1>5, <1>6, <1>7 DEF TypeOK

LEMMA SlotIsNotSilentType ==
    ASSUME TypeOK, NEW t \in Threads, NEW l \in Loads, frame[t].load \in Loads,
           SlotIsNotSilent(t, l)
    PROVE  /\ frame' \in [Threads -> Frame]
           /\ \A u \in Threads : frame'[u].op \notin {"idle", "note"}
                                    => frame'[u].load \in Loads
           /\ load' \in [Loads -> Load]
<1>1. frame[t] \in Frame /\ load[l] \in Load /\ load \in [Loads -> Load]
  BY DEF TypeOK
<1>2. CASE t = Barrier
  <2> DEFINE f == [frame[t] EXCEPT !.op = "store"]
  <2>1. f \in Frame /\ f.load \in Loads
    BY <1>1 DEF Frame
  <2>2. frame' = [frame EXCEPT ![t] = f] /\ load' = load
    BY <1>2 DEF SlotIsNotSilent
  <2> HIDE DEF f
  <2> QED
    BY <1>1, <2>1, <2>2, FrameStepType
<1>3. CASE t # Barrier
  <2> DEFINE x == [load[l] EXCEPT !.stage = "racing", !.operation = TRUE, !.timer = TRUE]
  <2>1. x \in Load
    BY <1>1 DEF Load
  <2>2. frame' = [frame EXCEPT ![t] = Idle] /\ load' = [load EXCEPT ![l] = x]
    BY <1>3 DEF SlotIsNotSilent
  <2>3. Idle.op = "idle"
    BY DEF Idle
  <2> HIDE DEF x
  <2> QED
    BY <2>1, <2>2, <2>3, IdleType, FrameStepType, LoadStepType
<1> QED
  BY <1>2, <1>3

LEMMA IsSlotSilentType ==
    ASSUME TypeOK, NEW t \in Threads, IsSlotSilent(t)
    PROVE  TypeOK'
<1> DEFINE l == frame[t].load
           b == cache[load[l].slot]
<1>1. l \in Loads /\ frame[t] \in Frame /\ load[l] \in Load /\ load \in [Loads -> Load]
  BY DEF IsSlotSilent, TypeOK
<1>2. UNCHANGED << now, cfg, setup, silentUntil, cache, barrierQ, unsilenced, call,
                   metric, queued >>
  BY DEF IsSlotSilent, envVars, feedbackVars
<1>3. CASE SlotIsNotSilent(t, l) /\ UNCHANGED answers
  BY <1>1, <1>2, <1>3, SlotIsNotSilentType DEF TypeOK
<1>4. CASE frame' = [frame EXCEPT ![t].op = "unsilence"] /\ UNCHANGED << load, answers >>
  <2> DEFINE f == [frame[t] EXCEPT !.op = "unsilence"]
  <2>1. f \in Frame /\ f.load \in Loads /\ frame' = [frame EXCEPT ![t] = f]
    BY <1>1, <1>4 DEF Frame
  <2> HIDE DEF f
  <2>2. /\ frame' \in [Threads -> Frame]
        /\ \A u \in Threads : frame'[u].op \notin {"idle", "note"}
                                 => frame'[u].load \in Loads
    BY <2>1, FrameStepType
  <2> QED
    BY <1>2, <1>4, <2>2 DEF TypeOK
<1>5. CASE /\ frame' = [frame EXCEPT ![t] = Idle]
           /\ IF t = Barrier
                THEN UNCHANGED << load, answers >>
                ELSE /\ load' = [load EXCEPT ![l].stage = "done"]
                     /\ Answer(l, NoBid)
  <2>1. load' \in [Loads -> Load]
    BY <1>1, <1>5 DEF Load
  <2>2. answers' \in [Loads -> Seq(Bid \cup {NoBid})]
    <3>1. CASE t = Barrier
      BY <1>5, <3>1 DEF TypeOK
    <3>2. CASE t # Barrier
      BY <1>1, <1>5, <3>2, AnswerType
    <3> QED
      BY <3>1, <3>2
  <2> QED
    BY <1>2, <1>5, <2>1, <2>2, IdleType DEF TypeOK, Idle
<1> QED
  BY <1>3, <1>4, <1>5 DEF IsSlotSilent

LEMMA RereadSilenceType ==
    ASSUME TypeOK, NEW t \in Threads, RereadSilence(t)
    PROVE  TypeOK'
<1> DEFINE b == cache[load[frame[t].load].slot]
           f == [frame[t] EXCEPT !.op = "drop", !.bid = b]
<1>1. frame[t] \in Frame /\ frame[t].load \in Loads
  BY DEF RereadSilence, TypeOK
<1>2. b \in Bid \cup {NoBid}
  BY <1>1 DEF TypeOK, Load
<1>3. f \in Frame /\ f.load \in Loads
  <2> HIDE DEF b
  <2> QED
    BY <1>1, <1>2 DEF Frame
<1>4. frame' = [frame EXCEPT ![t] = f]
  BY DEF RereadSilence
<1> HIDE DEF f
<1>5. /\ frame' \in [Threads -> Frame]
      /\ \A u \in Threads : frame'[u].op \notin {"idle", "note"}
                               => frame'[u].load \in Loads
  BY <1>3, <1>4, FrameStepType
<1> QED
  BY <1>5 DEF RereadSilence, TypeOK, envVars, feedbackVars

LEMMA DropSilenceType ==
    ASSUME TypeOK, NEW t \in Threads, DropSilence(t)
    PROVE  TypeOK'
<1> DEFINE l == frame[t].load
<1>1. /\ l \in Loads
      /\ load[l].slot \in Slots
      /\ frame[t].bid \in Bid \cup {NoBid}
  BY DEF DropSilence, TypeOK, Load, Frame
<1>2. cache' \in [Slots -> Bid \cup {NoBid}]
  BY <1>1, EmptiedType DEF DropSilence
<1>3. Consumed(frame[t].bid, TRUE) \in SUBSET Bid
  BY <1>1 DEF Consumed
<1>4. unsilenced' \in SUBSET (Threads \X Loads \X Bid)
  BY <1>1, <1>3 DEF DropSilence, TypeOK
<1>5. /\ frame' \in [Threads -> Frame]
      /\ \A u \in Threads : frame'[u].op \notin {"idle", "note"}
                               => frame'[u].load \in Loads
      /\ load' \in [Loads -> Load]
  BY <1>1, SlotIsNotSilentType DEF DropSilence
<1> QED
  BY <1>2, <1>4, <1>5 DEF DropSilence, TypeOK, envVars, feedbackVars

LEMMA UnsilenceBlockType ==
    ASSUME TypeOK, NEW post, UnsilenceBlock(post)
    PROVE  TypeOK'
<1>1. /\ metric' \in [Ids -> SUBSET Flag]
      /\ queued' \in [Ids -> Seq(SUBSET Flag)]
  BY OnBidConsumedType DEF UnsilenceBlock
<1>2. unsilenced' \in SUBSET (Threads \X Loads \X Bid)
  BY DEF UnsilenceBlock, TypeOK
<1> QED
  BY <1>1, <1>2 DEF UnsilenceBlock, TypeOK, envVars

LEMMA QueueType ==
    ASSUME TypeOK, NEW k \in Block, barrierQ' = Append(barrierQ, k)
    PROVE  barrierQ' \in Seq(Block)
  BY DEF TypeOK

LEMMA OperationType ==
    ASSUME TypeOK, NEW l \in Loads, Operation(l)
    PROVE  TypeOK'
<1>1. load \in [Loads -> Load] /\ barrierQ \in Seq(Block)
  BY DEF TypeOK
<1>2. load' \in [Loads -> Load]
  BY <1>1 DEF Operation, Load
<1>3. [kind |-> "completion", load |-> l, bids |-> {}] \in Block
  BY DEF Block
<1>4. barrierQ' \in Seq(Block)
  BY <1>1, <1>3, QueueType DEF Operation
<1>5. call' \in [Requests -> {"none", "queued", "sent", "failing", "done"}]
  BY DEF Operation, TypeOK, Requests
<1> QED
  BY <1>2, <1>4, <1>5 DEF Operation, TypeOK, envVars, feedbackVars

LEMMA TimerFiresType ==
    ASSUME TypeOK, NEW l \in Loads, TimerFires(l)
    PROVE  TypeOK'
<1>1. load' \in [Loads -> Load]
  <2>1. load \in [Loads -> Load]
    BY DEF TypeOK
  <2> QED
    BY <2>1 DEF TimerFires, Load
<1>2. [kind |-> "timeout", load |-> l, bids |-> {}] \in Block
  BY DEF Block
<1>3. barrierQ' \in Seq(Block)
  BY <1>2, QueueType DEF TimerFires
<1> QED
  BY <1>1, <1>3 DEF TimerFires, TypeOK, envVars, feedbackVars

LEMMA NextBlockType ==
    ASSUME TypeOK, NEW k, NextBlock(k)
    PROVE  /\ k \in Block
           /\ barrierQ' \in Seq(Block)
           /\ k = barrierQ[1]
           /\ 1 \in DOMAIN barrierQ
           /\ UNCHANGED << now, cfg, setup, silentUntil, unsilenced, call >>
<1>1. barrierQ \in Seq(Block) /\ barrierQ # << >>
  BY DEF NextBlock, TypeOK
<1>2. Head(barrierQ) \in Block /\ Tail(barrierQ) \in Seq(Block)
  BY <1>1
<1>3. Head(barrierQ) = barrierQ[1] /\ 1 \in DOMAIN barrierQ
  BY <1>1
<1> QED
  BY <1>2, <1>3 DEF NextBlock, envVars

LEMMA BarrierFrameType ==
    ASSUME TypeOK, NEW k \in Block, NEW f,
           \/ f = [Idle EXCEPT !.op = "get", !.load = k.load]
           \/ f = [Idle EXCEPT !.op = "noteSilence", !.load = k.load, !.arrived = k.bids]
           \/ f = [Idle EXCEPT !.op = "silent", !.load = k.load, !.arrived = k.bids],
           frame' = [frame EXCEPT ![Barrier] = f]
    PROVE  /\ frame' \in [Threads -> Frame]
           /\ \A u \in Threads : frame'[u].op \notin {"idle", "note"}
                                    => frame'[u].load \in Loads
<1>1. k.load \in Loads /\ k.bids \in SUBSET Bid
  BY DEF Block
<1>2. f \in Frame /\ f.load \in Loads
  BY <1>1 DEF Idle, Frame, Requests
<1>3. Barrier \in Threads
  BY DEF Threads
<1> QED
  BY <1>2, <1>3, FrameStepType

LEMMA FallBackOnCacheType ==
    ASSUME TypeOK, NEW k, FallBackOnCache(k)
    PROVE  TypeOK'
<1>1. k \in Block /\ barrierQ' \in Seq(Block)
      /\ UNCHANGED << now, cfg, setup, silentUntil, unsilenced, call >>
  BY NextBlockType DEF FallBackOnCache
<1> DEFINE f == [Idle EXCEPT !.op = "get", !.load = k.load]
<1>2. frame' = [frame EXCEPT ![Barrier] = f]
  BY DEF FallBackOnCache
<1>3. /\ frame' \in [Threads -> Frame]
      /\ \A u \in Threads : frame'[u].op \notin {"idle", "note"}
                               => frame'[u].load \in Loads
  BY <1>1, <1>2, BarrierFrameType
<1> QED
  BY <1>1, <1>3 DEF FallBackOnCache, TypeOK, feedbackVars

LEMMA SilenceInTimeType ==
    ASSUME TypeOK, NEW k, SilenceInTime(k)
    PROVE  TypeOK'
<1>1. k \in Block /\ barrierQ' \in Seq(Block)
      /\ UNCHANGED << now, cfg, setup, silentUntil, unsilenced, call >>
  BY NextBlockType DEF SilenceInTime
<1> DEFINE f == [Idle EXCEPT !.op = "noteSilence", !.load = k.load, !.arrived = k.bids]
<1>2. frame' = [frame EXCEPT ![Barrier] = f]
  BY DEF SilenceInTime
<1>3. /\ frame' \in [Threads -> Frame]
      /\ \A u \in Threads : frame'[u].op \notin {"idle", "note"}
                               => frame'[u].load \in Loads
  BY <1>1, <1>2, BarrierFrameType
<1>4. k.bids \in SUBSET Bid
  BY <1>1 DEF Block
<1>5. cache' \in [Slots -> Bid \cup {NoBid}]
  BY <1>4, SetBidsType DEF SilenceInTime
<1> QED
  BY <1>1, <1>3, <1>5 DEF SilenceInTime, TypeOK, feedbackVars

LEMMA BidInTimeType ==
    ASSUME TypeOK, NEW k, BidInTime(k)
    PROVE  TypeOK'
<1>1. k \in Block /\ barrierQ' \in Seq(Block)
      /\ UNCHANGED << now, cfg, setup, silentUntil, unsilenced, call >>
  BY NextBlockType DEF BidInTime
<1>2. k.load \in Loads /\ k.bids \in SUBSET Bid
  BY <1>1 DEF Block
<1>3. PICK b \in Usable(k.bids) : OnBidConsumed({b}) /\ Answer(k.load, b)
  BY DEF BidInTime
<1>4. /\ metric' \in [Ids -> SUBSET Flag]
      /\ queued' \in [Ids -> Seq(SUBSET Flag)]
  BY <1>3, OnBidConsumedType
<1>5. answers' \in [Loads -> Seq(Bid \cup {NoBid})]
  BY <1>2, <1>3, AnswerType DEF Usable
<1>6. load' \in [Loads -> Load]
  <2>1. load \in [Loads -> Load]
    BY DEF TypeOK
  <2> QED
    BY <1>2, <2>1 DEF BidInTime, Load
<1> QED
  BY <1>1, <1>4, <1>5, <1>6 DEF BidInTime, TypeOK

LEMMA LateCompletionType ==
    ASSUME TypeOK, NEW k, LateCompletion(k)
    PROVE  TypeOK'
<1>1. k \in Block /\ barrierQ' \in Seq(Block)
      /\ UNCHANGED << now, cfg, setup, silentUntil, unsilenced, call >>
  BY NextBlockType DEF LateCompletion
<1> DEFINE f == [Idle EXCEPT !.op = "silent", !.load = k.load, !.arrived = k.bids]
<1>2. frame' = [frame EXCEPT ![Barrier] = f]
  BY DEF LateCompletion
<1>3. /\ frame' \in [Threads -> Frame]
      /\ \A u \in Threads : frame'[u].op \notin {"idle", "note"}
                               => frame'[u].load \in Loads
  BY <1>1, <1>2, BarrierFrameType
<1> QED
  BY <1>1, <1>3 DEF LateCompletion, TypeOK, feedbackVars

LEMMA TimeoutAfterCompletionType ==
    ASSUME TypeOK, NEW k, TimeoutAfterCompletion(k)
    PROVE  TypeOK'
<1>1. barrierQ' \in Seq(Block)
      /\ UNCHANGED << now, cfg, setup, silentUntil, unsilenced, call >>
  BY NextBlockType DEF TimeoutAfterCompletion
<1> QED
  BY <1>1 DEF TimeoutAfterCompletion, TypeOK, feedbackVars

LEMMA StoreLateType ==
    ASSUME TypeOK, StoreLate
    PROVE  TypeOK'
<1>1. Barrier \in Threads
  BY DEF Threads
<1>2. frame[Barrier] \in Frame /\ frame[Barrier].arrived \in SUBSET Bid
  BY <1>1 DEF TypeOK, Frame
<1> DEFINE f == [frame[Barrier] EXCEPT !.op = "note"]
<1>3. f \in Frame /\ f.op = "note" /\ frame' = [frame EXCEPT ![Barrier] = f]
  BY <1>2 DEF StoreLate, Frame
<1> HIDE DEF f
<1>4. /\ frame' \in [Threads -> Frame]
      /\ \A u \in Threads : frame'[u].op \notin {"idle", "note"}
                               => frame'[u].load \in Loads
  BY <1>1, <1>3, FrameStepType
<1>5. cache' \in [Slots -> Bid \cup {NoBid}]
  BY <1>2, SetBidsType DEF StoreLate
<1> QED
  BY <1>4, <1>5 DEF StoreLate, TypeOK, envVars, feedbackVars

LEMMA NoteCachedType ==
    ASSUME TypeOK, NEW t \in Threads, NoteCached(t)
    PROVE  TypeOK'
<1> DEFINE l == frame[t].load
<1>1. /\ metric' \in [Ids -> SUBSET Flag]
      /\ queued' \in [Ids -> Seq(SUBSET Flag)]
  BY OnBidCachedType DEF NoteCached
<1>2. frame' = [frame EXCEPT ![t] = Idle]
  BY DEF NoteCached
<1>3. load' \in [Loads -> Load] /\ answers' \in [Loads -> Seq(Bid \cup {NoBid})]
  <2>1. CASE frame[t].op = "noteSilence"
    <3>1. l \in Loads /\ load \in [Loads -> Load]
      BY <2>1 DEF TypeOK
    <3>2. load' \in [Loads -> Load]
      <4>1. load' = [load EXCEPT ![l].handled = TRUE]
        BY <2>1 DEF NoteCached
      <4> QED
        BY <3>1, <4>1 DEF Load
    <3>3. answers' \in [Loads -> Seq(Bid \cup {NoBid})]
      BY <2>1, <3>1, AnswerType DEF NoteCached
    <3> QED
      BY <3>2, <3>3
  <2>2. CASE frame[t].op # "noteSilence"
    BY <2>2 DEF NoteCached, TypeOK
  <2> QED
    BY <2>1, <2>2
<1> QED
  BY <1>1, <1>2, <1>3, IdleType DEF NoteCached, TypeOK, Idle, envVars

LEMMA SendCallType ==
    ASSUME TypeOK, NEW r \in Requests, SendCall(r)
    PROVE  TypeOK'
<1> DEFINE update == [id \in Ids |-> IF id[1] = r /\ id[2] \in SlotsOf(r)
                                       THEN {"start"} ELSE {}]
<1>1. update \in [Ids -> SUBSET Flag] /\ UpdateMessages(update)
  BY DEF SendCall, Flag
<1> HIDE DEF update
<1>2. /\ metric' \in [Ids -> SUBSET Flag]
      /\ queued' \in [Ids -> Seq(SUBSET Flag)]
  BY <1>1, UpdateMessagesType
<1>3. call' \in [Requests -> {"none", "queued", "sent", "failing", "done"}]
  BY DEF SendCall, TypeOK
<1> QED
  BY <1>2, <1>3 DEF SendCall, TypeOK, envVars

\* What CDB's answer, or its absence, hands to the bid manager.
LEMMA CdbResponseHandlerType ==
    ASSUME TypeOK, NEW r \in Requests, NEW B \in SUBSET Bid,
           CdbResponseHandler(r, B)
    PROVE  /\ barrierQ' \in Seq(Block)
           /\ cache' \in [Slots -> Bid \cup {NoBid}]
           /\ frame' \in [Threads -> Frame]
           /\ \A u \in Threads : frame'[u].op \notin {"idle", "note"}
                                    => frame'[u].load \in Loads
<1>1. CASE ForLiveLoad(r)
  <2>1. [kind |-> "completion", load |-> r, bids |-> B] \in Block
    BY <1>1 DEF ForLiveLoad, Block
  <2> QED
    BY <1>1, <2>1, QueueType DEF CdbResponseHandler, TypeOK
<1>2. CASE ~ForLiveLoad(r)
  <2> DEFINE op == IF B = {} THEN "idle" ELSE "note"
             f == [frame[Session] EXCEPT !.op = op, !.arrived = B]
  <2>1. Session \in Threads /\ op \in {"idle", "note"}
    BY DEF Threads
  <2>2. frame' = [frame EXCEPT ![Session] = f] /\ SetBids(B) /\ UNCHANGED barrierQ
    BY <1>2 DEF CdbResponseHandler
  <2>3. f \in Frame /\ f.op \in {"idle", "note"}
    <3>1. frame[Session] \in Frame
      BY <2>1 DEF TypeOK
    <3> HIDE DEF op
    <3> QED
      BY <2>1, <3>1 DEF Frame
  <2> HIDE DEF f
  <2>4. cache' \in [Slots -> Bid \cup {NoBid}]
    BY <2>2, SetBidsType
  <2>5. /\ frame' \in [Threads -> Frame]
        /\ \A u \in Threads : frame'[u].op \notin {"idle", "note"}
                                 => frame'[u].load \in Loads
    BY <2>1, <2>2, <2>3, FrameStepType
  <2>6. barrierQ' \in Seq(Block)
    BY <2>2 DEF TypeOK
  <2> QED
    BY <2>4, <2>5, <2>6
<1> QED
  BY <1>1, <1>2

LEMMA ReplyType ==
    ASSUME TypeOK, NEW r \in Requests, Reply(r)
    PROVE  TypeOK'
<1>1. PICK S \in SUBSET SlotsOf(r), delay \in Delays : \E offer \in [S -> Offers] :
          LET B == {BidFor(r, s, offer[s]) : s \in S}
          IN  /\ silentUntil' = IF delay > 0 THEN now + delay ELSE silentUntil
              /\ UpdateMessages(ResponseFlags(r, B))
              /\ CdbResponseHandler(r, B)
  BY DEF Reply
<1>2. PICK offer \in [S -> Offers] :
          LET B == {BidFor(r, s, offer[s]) : s \in S}
          IN  /\ silentUntil' = IF delay > 0 THEN now + delay ELSE silentUntil
              /\ UpdateMessages(ResponseFlags(r, B))
              /\ CdbResponseHandler(r, B)
  BY <1>1
<1> DEFINE B == {BidFor(r, s, offer[s]) : s \in S}
<1>3. \A s \in S : s \in Slots
  BY DEF SlotsOf, TypeOK, Load, Requests
<1>4. B \in SUBSET Bid
  BY <1>3, BidForType
<1>5. /\ silentUntil' = IF delay > 0 THEN now + delay ELSE silentUntil
      /\ UpdateMessages(ResponseFlags(r, B))
      /\ CdbResponseHandler(r, B)
  BY <1>2
<1> HIDE DEF B
<1>6. silentUntil' \in Nat
  BY <1>5, ConstantsAssumption DEF TypeOK
<1>7. ResponseFlags(r, B) \in [Ids -> SUBSET Flag]
  BY DEF ResponseFlags, Flag
<1>8. /\ metric' \in [Ids -> SUBSET Flag]
      /\ queued' \in [Ids -> Seq(SUBSET Flag)]
  BY <1>5, <1>7, UpdateMessagesType
<1>9. /\ barrierQ' \in Seq(Block)
      /\ cache' \in [Slots -> Bid \cup {NoBid}]
      /\ frame' \in [Threads -> Frame]
      /\ \A u \in Threads : frame'[u].op \notin {"idle", "note"}
                               => frame'[u].load \in Loads
  BY <1>4, <1>5, CdbResponseHandlerType
<1>10. call' \in [Requests -> {"none", "queued", "sent", "failing", "done"}]
  BY DEF Reply, TypeOK
<1>11. UNCHANGED << now, cfg, setup, load, unsilenced, answers >>
  BY DEF Reply, envVars
<1> QED
  BY <1>6, <1>8, <1>9, <1>10, <1>11 DEF TypeOK

LEMMA NoContentType ==
    ASSUME TypeOK, NEW r \in Requests, NoContent(r)
    PROVE  TypeOK'
<1>1. /\ barrierQ' \in Seq(Block)
      /\ cache' \in [Slots -> Bid \cup {NoBid}]
      /\ frame' \in [Threads -> Frame]
      /\ \A u \in Threads : frame'[u].op \notin {"idle", "note"}
                               => frame'[u].load \in Loads
  BY CdbResponseHandlerType DEF NoContent
<1>2. call' \in [Requests -> {"none", "queued", "sent", "failing", "done"}]
  BY DEF NoContent, TypeOK
<1> QED
  BY <1>1, <1>2 DEF NoContent, TypeOK, envVars, feedbackVars

LEMMA FailType ==
    ASSUME TypeOK, NEW r \in Requests, Fail(r)
    PROVE  TypeOK'
<1>1. PICK timedOut \in BOOLEAN : UpdateMessages(FailureFlags(r, timedOut))
  BY DEF Fail
<1>2. FailureFlags(r, timedOut) \in [Ids -> SUBSET Flag]
  BY DEF FailureFlags, Flag
<1>3. /\ metric' \in [Ids -> SUBSET Flag]
      /\ queued' \in [Ids -> Seq(SUBSET Flag)]
  BY <1>1, <1>2, UpdateMessagesType
<1>4. /\ barrierQ' \in Seq(Block)
      /\ cache' \in [Slots -> Bid \cup {NoBid}]
      /\ frame' \in [Threads -> Frame]
      /\ \A u \in Threads : frame'[u].op \notin {"idle", "note"}
                               => frame'[u].load \in Loads
  BY CdbResponseHandlerType DEF Fail
<1>5. call' \in [Requests -> {"none", "queued", "sent", "failing", "done"}]
  BY DEF Fail, TypeOK
<1> QED
  BY <1>3, <1>4, <1>5 DEF Fail, TypeOK, envVars

LEMMA OtherStepsType ==
    ASSUME TypeOK,
           \/ \E r \in Requests : HttpError(r)
           \/ Register
           \/ RefreshConfig
           \/ Tick
           \/ UNCHANGED vars
    PROVE  TypeOK'
<1>1. ASSUME NEW r \in Requests, HttpError(r) PROVE TypeOK'
  BY <1>1 DEF HttpError, TypeOK, envVars, feedbackVars
<1>2. CASE Register
  <2>1. call' \in [Requests -> {"none", "queued", "sent", "failing", "done"}]
    BY <1>2 DEF Register, TypeOK
  <2> QED
    BY <1>2, <2>1 DEF Register, TypeOK, feedbackVars
<1>3. CASE RefreshConfig
  BY <1>3, ConstantsAssumption DEF RefreshConfig, TypeOK, feedbackVars
<1>4. CASE Tick
  BY <1>4 DEF Tick, TypeOK, feedbackVars
<1>5. CASE UNCHANGED vars
  BY <1>5 DEF vars, TypeOK
<1> QED
  BY <1>1, <1>2, <1>3, <1>4, <1>5

LEMMA InitType == Init => TypeOK
<1> SUFFICES ASSUME Init PROVE TypeOK
  OBVIOUS
<1>1. load \in [Loads -> Load]
  <2>1. load \in [Loads -> {[stage |-> "idle", slot |-> s, live |-> FALSE,
                             operation |-> FALSE, timer |-> FALSE, handled |-> FALSE,
                             bid |-> NoBid, consumed |-> FALSE] : s \in Slots}]
    BY DEF Init
  <2>2. ASSUME NEW s \in Slots
        PROVE  [stage |-> "idle", slot |-> s, live |-> FALSE, operation |-> FALSE,
                timer |-> FALSE, handled |-> FALSE, bid |-> NoBid, consumed |-> FALSE]
                  \in Load
    BY DEF Load
  <2> QED
    BY <2>1, <2>2
<1>2. Idle.op = "idle"
  BY DEF Idle
<1>3. cfg \in Config
  BY ConstantsAssumption DEF Init
<1> QED
  BY <1>1, <1>2, <1>3, IdleType DEF Init, TypeOK

\* The cases of a step; the blocks of the barrier queue are well-formed.
LEMMA NextCases ==
    ASSUME TypeOK, [Next]_vars
    PROVE  \/ \E t \in AppThreads, l \in Loads : LoadCdbBid(t, l)
           \/ \E t \in Threads : CacheStep(t)
           \/ \E l \in Loads : GetBidThenFetchBlock(l) \/ Operation(l) \/ TimerFires(l)
           \/ \E post \in unsilenced : UnsilenceBlock(post)
           \/ \E k \in Block : \/ FallBackOnCache(k)
                               \/ SilenceInTime(k)
                               \/ BidInTime(k)
                               \/ LateCompletion(k)
                               \/ TimeoutAfterCompletion(k)
           \/ StoreLate
           \/ \E r \in Requests : SendCall(r) \/ Network(r)
           \/ Register \/ RefreshConfig \/ Tick \/ UNCHANGED vars
<1>1. CASE BarrierBlock
  <2>1. PICK k \in {barrierQ[i] : i \in DOMAIN barrierQ} :
           \/ FallBackOnCache(k)
           \/ SilenceInTime(k)
           \/ BidInTime(k)
           \/ LateCompletion(k)
           \/ TimeoutAfterCompletion(k)
    BY <1>1 DEF BarrierBlock
  <2>2. k \in Block
    <3>1. barrierQ \in Seq(Block)
      BY DEF TypeOK
    <3> QED
      BY <3>1
  <2> QED
    BY <2>1, <2>2
<1>2. CASE Next /\ ~BarrierBlock
  BY <1>2 DEF Next
<1> QED
  BY <1>1, <1>2

LEMMA NextType == TypeOK /\ [Next]_vars => TypeOK'
<1> SUFFICES ASSUME TypeOK, [Next]_vars PROVE TypeOK'
  OBVIOUS
<1>1. ASSUME NEW t \in AppThreads, NEW l \in Loads, LoadCdbBid(t, l) PROVE TypeOK'
  BY <1>1, LoadCdbBidType
<1>2. ASSUME NEW t \in Threads, CacheStep(t) PROVE TypeOK'
  BY <1>2, GetBidType, RemoveBidType, IsSlotSilentType, RereadSilenceType,
     DropSilenceType, NoteCachedType DEF CacheStep
<1>3. ASSUME NEW l \in Loads, GetBidThenFetchBlock(l) \/ Operation(l) \/ TimerFires(l)
      PROVE  TypeOK'
  BY <1>3, GetBidThenFetchBlockType, OperationType, TimerFiresType
<1>4. ASSUME NEW post \in unsilenced, UnsilenceBlock(post) PROVE TypeOK'
  BY <1>4, UnsilenceBlockType
<1>5. ASSUME NEW k \in Block,
             \/ FallBackOnCache(k)
             \/ SilenceInTime(k)
             \/ BidInTime(k)
             \/ LateCompletion(k)
             \/ TimeoutAfterCompletion(k)
      PROVE  TypeOK'
  BY <1>5, FallBackOnCacheType, SilenceInTimeType, BidInTimeType, LateCompletionType,
     TimeoutAfterCompletionType
<1>6. ASSUME StoreLate PROVE TypeOK'
  BY <1>6, StoreLateType
<1>7. ASSUME NEW r \in Requests, SendCall(r) \/ Network(r) PROVE TypeOK'
  BY <1>7, SendCallType, ReplyType, NoContentType, FailType, OtherStepsType DEF Network
<1>8. ASSUME Register \/ RefreshConfig \/ Tick \/ UNCHANGED vars PROVE TypeOK'
  BY <1>8, OtherStepsType
<1> QED
  BY <1>1, <1>2, <1>3, <1>4, <1>5, <1>6, <1>7, <1>8, NextCases

\* Every state of the bid manager is well-formed: in particular a thread inside a
\* function that touches the cache works for one of the loads.
THEOREM TypeCorrect == Spec => []TypeOK
  BY InitType, NextType, PTL DEF Spec

-----------------------------------------------------------------------------
(* Preservation of the inductive invariant *)

\* What a thread's move, or a load's, leaves alone.
LEMMA FrameStep ==
    ASSUME TypeOK, NEW t \in Threads, NEW f, frame' = [frame EXCEPT ![t] = f]
    PROVE  /\ frame'[t] = f
           /\ \A u \in Threads : u # t => frame'[u] = frame[u]
  BY DEF TypeOK

LEMMA LoadStep ==
    ASSUME TypeOK, NEW l \in Loads, NEW x, load' = [load EXCEPT ![l] = x]
    PROVE  /\ load'[l] = x
           /\ \A m \in Loads : m # l => load'[m] = load[m]
  BY DEF TypeOK

LEMMA AnswerStep ==
    ASSUME TypeOK, NEW l \in Loads, NEW b, Answer(l, b)
    PROVE  /\ answers'[l] = Append(answers[l], b)
           /\ \A m \in Loads : m # l => answers'[m] = answers[m]
  BY DEF TypeOK, Answer

LEMMA ThreadsDiffer ==
    /\ Barrier \in Threads /\ Session \in Threads /\ Barrier # Session
    /\ \A t \in AppThreads : t \in Threads /\ t # Barrier /\ t # Session
    /\ \A t \in Threads : t \in AppThreads \/ t = Barrier \/ t = Session
  BY ConstantsAssumption DEF Threads

LEMMA FrameLoads ==
    ASSUME TypeOK
    PROVE  /\ \A t \in Threads : frame[t].op \notin {"idle", "note"}
                                    => frame[t].load \in Loads
           /\ \A i \in DOMAIN barrierQ : barrierQ[i] \in Block
           /\ \A i \in DOMAIN barrierQ : barrierQ[i].load \in Loads
           /\ \A l \in Loads : load[l] \in Load
<1>1. \A i \in DOMAIN barrierQ : barrierQ[i] \in Block
  BY DEF TypeOK
<1> QED
  BY <1>1 DEF TypeOK, Block

\* Steps that touch neither the loads, nor the threads, the cache, the barrier queue
\* or the answers, and start no CDB call of a load.
LEMMA QuietStepInv ==
    ASSUME IInv, UNCHANGED << load, frame, cache, barrierQ, answers >>,
           \A l \in Loads : call[l] = "none" => call'[l] = "none"
    PROVE  AnswerInv' /\ CallerInv' /\ WorkerInv' /\ StageInv' /\ SlotInv'
<1>1. AnswerInv'
  BY DEF IInv, AnswerInv, Unanswered
<1>2. CallerInv'
  BY DEF IInv, CallerInv
<1>3. WorkerInv'
  BY DEF IInv, WorkerInv
<1>4. StageInv'
  BY DEF IInv, StageInv
<1>5. SlotInv'
  BY DEF IInv, SlotInv
<1> QED
  BY <1>1, <1>2, <1>3, <1>4, <1>5

LEMMA LoadCdbBidInv ==
    ASSUME IInv, NEW t \in AppThreads, NEW l \in Loads, LoadCdbBid(t, l)
    PROVE  AnswerInv' /\ CallerInv' /\ WorkerInv' /\ StageInv' /\ SlotInv'
<1> DEFINE op == IF cfg.live /\ ~CannotCallCdb THEN "silent" ELSE "get"
           f == [Idle EXCEPT !.load = l, !.op = op]
           x == [load[l] EXCEPT !.stage = "sync", !.live = cfg.live]
<1>0. TypeOK
  BY DEF IInv
<1>1. frame' = [frame EXCEPT ![t] = f] /\ load' = [load EXCEPT ![l] = x]
  BY DEF LoadCdbBid
<1>2. /\ f.load = l
      /\ f.op \in {"silent", "get"}
      /\ f.op = "silent" => cfg.live
  BY DEF Idle
<1>3. /\ x.stage = "sync"
      /\ x.live = cfg.live
      /\ x.slot = load[l].slot
      /\ x.operation = load[l].operation
      /\ x.timer = load[l].timer
  BY <1>0, FrameLoads DEF Load
<1>4. UNCHANGED << cache, barrierQ, call, answers >>
  BY DEF LoadCdbBid
<1>5. load[l].stage = "idle" /\ frame[t].op = "idle"
  BY DEF LoadCdbBid
<1> HIDE DEF op, f, x
<1>6. /\ frame'[t] = f
      /\ \A u \in Threads : u # t => frame'[u] = frame[u]
  BY <1>0, <1>1, ThreadsDiffer, FrameStep
<1>7. /\ load'[l] = x
      /\ \A m \in Loads : m # l => load'[m] = load[m]
  BY <1>0, <1>1, LoadStep
<1>8. \A u \in Threads : frame[u].op \notin {"idle", "note"} => frame[u].load \in Loads
  BY <1>0, FrameLoads
<1>9. AnswerInv'
  BY <1>3, <1>4, <1>5, <1>7 DEF IInv, AnswerInv, Unanswered
<1>10. CallerInv'
  BY <1>2, <1>3, <1>5, <1>6, <1>7, <1>8, ThreadsDiffer DEF IInv, CallerInv
<1>11. WorkerInv'
  BY <1>5, <1>6, <1>7, <1>8, ThreadsDiffer DEF IInv, WorkerInv
<1>12. StageInv'
  <2>1. \A i \in DOMAIN barrierQ : barrierQ[i].load \in Loads
    BY <1>0, FrameLoads
  <2> QED
    BY <1>3, <1>4, <1>5, <1>7, <2>1 DEF IInv, StageInv
<1>13. SlotInv'
  <2>1. \A i \in DOMAIN barrierQ : barrierQ[i].load \in Loads
    BY <1>0, FrameLoads
  <2> QED
    BY <1>2, <1>3, <1>4, <1>6, <1>7, <1>8, <2>1 DEF IInv, SlotInv
<1> QED
  BY <1>9, <1>10, <1>11, <1>12, <1>13

LEMMA GetBidThenFetchBlockInv ==
    ASSUME IInv, NEW l \in Loads, GetBidThenFetchBlock(l)
    PROVE  AnswerInv' /\ CallerInv' /\ WorkerInv' /\ StageInv' /\ SlotInv'
<1> DEFINE x == [load[l] EXCEPT !.stage = "done"]
<1>0. TypeOK
  BY DEF IInv
<1>1. load' = [load EXCEPT ![l] = x] /\ load[l].stage = "block"
  BY DEF GetBidThenFetchBlock
<1>2. /\ x.stage = "done"
      /\ x.live = load[l].live
      /\ x.slot = load[l].slot
      /\ x.operation = load[l].operation
      /\ x.timer = load[l].timer
  BY <1>0, FrameLoads DEF Load
<1> HIDE DEF x
<1>3. /\ load'[l] = x
      /\ \A m \in Loads : m # l => load'[m] = load[m]
  BY <1>0, <1>1, LoadStep
<1>4. \A m \in Loads : m # l => answers'[m] = answers[m]
  BY <1>0, AnswerStep DEF GetBidThenFetchBlock
<1>5. \A m \in Loads : m # l => call'[m] = call[m]
  BY <1>0 DEF GetBidThenFetchBlock, TypeOK, Requests
<1>6. UNCHANGED << cache, frame, barrierQ >>
  BY DEF GetBidThenFetchBlock
<1>7. /\ \A u \in Threads : frame[u].op \notin {"idle", "note"} => frame[u].load \in Loads
      /\ \A i \in DOMAIN barrierQ : barrierQ[i].load \in Loads
  BY <1>0, FrameLoads
<1>8. AnswerInv'
  BY <1>2, <1>3, <1>4 DEF IInv, AnswerInv, Unanswered
<1>9. CallerInv'
  BY <1>1, <1>2, <1>3, <1>6, <1>7, ThreadsDiffer DEF IInv, CallerInv
<1>10. WorkerInv'
  BY <1>1, <1>3, <1>6, <1>7, ThreadsDiffer DEF IInv, WorkerInv
<1>11. StageInv'
  BY <1>1, <1>2, <1>3, <1>5, <1>6, <1>7 DEF IInv, StageInv
<1>12. SlotInv'
  BY <1>2, <1>3, <1>6, <1>7 DEF IInv, SlotInv
<1> QED
  BY <1>8, <1>9, <1>10, <1>11, <1>12

\* The answer of getBid's caller, by an application thread or by a block of the
\* barrier queue, and the block cache bidding posts instead.
LEMMA AfterGetBidInv ==
    ASSUME IInv, NEW t \in Threads, NEW l \in Loads, l = frame[t].load,
           frame[t].op \in {"get", "remove"},
           NEW b \in Bid \cup {NoBid}, b # NoBid => b.slot = load[l].slot,
           NEW consumed \in BOOLEAN, NEW result,
           AfterGetBid(t, l, b, consumed, result),
           UNCHANGED << barrierQ, call >>,
           \A s \in Slots : cache'[s] # NoBid => cache'[s] = cache[s]
    PROVE  AnswerInv' /\ CallerInv' /\ WorkerInv' /\ StageInv' /\ SlotInv'
<1>0. TypeOK
  BY DEF IInv
<1>1. \/ t \in AppThreads /\ load[l].stage = "sync"
      \/ t = Barrier /\ load[l].stage = "racing" /\ ~load[l].handled /\ load[l].live
  BY ThreadsDiffer DEF IInv, CallerInv, WorkerInv, StageInv
<1>2. /\ frame'[t] = Idle
      /\ \A u \in Threads : u # t => frame'[u] = frame[u]
  BY <1>0, FrameStep DEF AfterGetBid
<1>3. /\ load'[l].live = load[l].live
      /\ load'[l].slot = load[l].slot
      /\ load'[l].operation = load[l].operation
      /\ load'[l].timer = load[l].timer
      /\ IF load[l].live
           THEN IF t = Barrier THEN load'[l].stage = "racing" /\ load'[l].handled
                               ELSE load'[l].stage = "done"
           ELSE load'[l].stage = "block" /\ load'[l].bid = b
      /\ \A m \in Loads : m # l => load'[m] = load[m]
  <2>1. load[l] \in Load
    BY <1>0, FrameLoads
  <2>2. CASE ~load[l].live
    <3> DEFINE x == [load[l] EXCEPT !.stage = "block", !.bid = b, !.consumed = consumed]
    <3>1. load' = [load EXCEPT ![l] = x]
      BY <2>2 DEF AfterGetBid
    <3>2. /\ x.live = load[l].live /\ x.slot = load[l].slot
          /\ x.operation = load[l].operation /\ x.timer = load[l].timer
          /\ x.stage = "block" /\ x.bid = b
      BY <2>1 DEF Load
    <3> HIDE DEF x
    <3> QED
      BY <1>0, <2>2, <3>1, <3>2, LoadStep
  <2>3. CASE load[l].live
    <3> DEFINE stage == IF t = Barrier THEN "racing" ELSE "done"
               handled == t = Barrier
               x == [load[l] EXCEPT !.stage = stage, !.handled = handled]
    <3>1. load' = [load EXCEPT ![l] = x]
      BY <2>3 DEF AfterGetBid
    <3>2. /\ x.live = load[l].live /\ x.slot = load[l].slot
          /\ x.operation = load[l].operation /\ x.timer = load[l].timer
          /\ x.stage = stage /\ x.handled = handled
      <4> HIDE DEF stage, handled
      <4> QED
        BY <2>1 DEF Load
    <3> HIDE DEF x
    <3>3. /\ load'[l] = x
          /\ \A m \in Loads : m # l => load'[m] = load[m]
      BY <1>0, <3>1, LoadStep
    <3> QED
      BY <2>3, <3>2, <3>3
  <2> QED
    BY <2>2, <2>3
<1>4. \A m \in Loads : m # l => answers'[m] = answers[m]
  BY <1>0, AnswerStep DEF AfterGetBid
<1>5. ~load[l].live => answers'[l] = answers[l]
  BY DEF AfterGetBid
<1>6. /\ \A u \in Threads : frame[u].op \notin {"idle", "note"} => frame[u].load \in Loads
      /\ \A i \in DOMAIN barrierQ : barrierQ[i].load \in Loads
  BY <1>0, FrameLoads
<1>7. Idle.op = "idle"
  BY DEF Idle
<1>8. AnswerInv'
  BY <1>1, <1>3, <1>4, <1>5 DEF IInv, AnswerInv, Unanswered
<1>9. CallerInv'
  BY <1>1, <1>2, <1>3, <1>6, <1>7, ThreadsDiffer DEF IInv, CallerInv
<1>10. WorkerInv'
  BY <1>1, <1>2, <1>3, <1>6, <1>7, ThreadsDiffer DEF IInv, WorkerInv
<1>11. StageInv'
  BY <1>1, <1>3, <1>6 DEF IInv, StageInv
<1>12. SlotInv'
  BY <1>1, <1>2, <1>3, <1>6, <1>7 DEF IInv, SlotInv
<1> QED
  BY <1>8, <1>9, <1>10, <1>11, <1>12

\* A thread goes one step further in the function it is inside of.
LEMMA FrameMoveInv ==
    ASSUME IInv, NEW t \in Threads, NEW f, frame' = [frame EXCEPT ![t] = f],
           f.load = frame[t].load,
           \/ frame[t].op = "get" /\ f.op = "remove"
           \/ frame[t].op = "silent" /\ f.op = "unsilence"
           \/ frame[t].op = "unsilence" /\ f.op = "drop",
           f.op = "remove" =>
               /\ f.bid # NoBid => f.bid.slot = load[f.load].slot
               /\ f.result # NoBid => f.result.slot = load[f.load].slot,
           UNCHANGED << load, cache, barrierQ, call, answers >>
    PROVE  AnswerInv' /\ CallerInv' /\ WorkerInv' /\ StageInv' /\ SlotInv'
<1>0. TypeOK
  BY DEF IInv
<1>1. /\ frame'[t] = f
      /\ \A u \in Threads : u # t => frame'[u] = frame[u]
  BY <1>0, FrameStep
<1>2. AnswerInv'
  BY DEF IInv, AnswerInv, Unanswered
<1>3. CallerInv'
  BY <1>1, ThreadsDiffer DEF IInv, CallerInv
<1>4. WorkerInv'
  BY <1>1, ThreadsDiffer DEF IInv, WorkerInv
<1>5. StageInv'
  BY DEF IInv, StageInv
<1>6. SlotInv'
  BY <1>1 DEF IInv, SlotInv
<1> QED
  BY <1>2, <1>3, <1>4, <1>5, <1>6

LEMMA GetBidInv ==
    ASSUME IInv, NEW t \in Threads, GetBid(t)
    PROVE  AnswerInv' /\ CallerInv' /\ WorkerInv' /\ StageInv' /\ SlotInv'
<1> DEFINE l == frame[t].load
           b == cache[load[l].slot]
<1>0. TypeOK
  BY DEF IInv
<1>1. frame[t].op = "get" /\ UNCHANGED << cache, barrierQ, call >>
  BY DEF GetBid
<1>2. frame[t] \in Frame /\ l \in Loads /\ load[l].slot \in Slots
  BY <1>0, <1>1 DEF TypeOK, Load
<1>3. b \in Bid \cup {NoBid} /\ (b # NoBid => b.slot = load[l].slot)
  BY <1>0, <1>2 DEF IInv, SlotInv, TypeOK
<1>4. CASE Consumable(b)
  <2> DEFINE result == IF Expired(b) THEN NoBid ELSE b
             f == [frame[t] EXCEPT !.op = "remove", !.bid = b, !.result = result]
  <2>1. frame' = [frame EXCEPT ![t] = f] /\ UNCHANGED << load, answers >>
    BY <1>4 DEF GetBid
  <2>2. f.load = l /\ f.op = "remove" /\ f.bid = b /\ f.result = result
    <3> HIDE DEF b, result
    <3> QED
      BY <1>2 DEF Frame
  <2>3. result # NoBid => result.slot = load[l].slot
    BY <1>3
  <2> HIDE DEF b, result, f
  <2> QED
    BY <1>1, <1>3, <2>1, <2>2, <2>3, FrameMoveInv
<1>5. CASE ~Consumable(b)
  <2>1. AfterGetBid(t, l, b, FALSE, NoBid)
    BY <1>5 DEF GetBid
  <2> QED
    BY <1>1, <1>2, <1>3, <2>1, AfterGetBidInv
<1> QED
  BY <1>4, <1>5

\* Emptying a slot only takes bids out of the cache.
LEMMA EmptiedStep ==
    ASSUME TypeOK, NEW r \in Slots, cache' = Emptied(r)
    PROVE  \A s \in Slots : cache'[s] # NoBid => cache'[s] = cache[s]
  BY DEF TypeOK, Emptied

LEMMA RemoveBidInv ==
    ASSUME IInv, NEW t \in Threads, RemoveBid(t)
    PROVE  AnswerInv' /\ CallerInv' /\ WorkerInv' /\ StageInv' /\ SlotInv'
<1> DEFINE l == frame[t].load
<1>0. TypeOK
  BY DEF IInv
<1>1. frame[t].op = "remove" /\ UNCHANGED << barrierQ, call >>
  BY DEF RemoveBid
<1>2. l \in Loads /\ load[l].slot \in Slots /\ frame[t].bid \in Bid \cup {NoBid}
  BY <1>0, <1>1 DEF TypeOK, Load, Frame
<1>3. frame[t].bid # NoBid => frame[t].bid.slot = load[l].slot
  BY <1>1 DEF IInv, SlotInv
<1>4. \A s \in Slots : cache'[s] # NoBid => cache'[s] = cache[s]
  BY <1>0, <1>2, EmptiedStep DEF RemoveBid
<1>5. AfterGetBid(t, l, frame[t].bid, TRUE, frame[t].result)
  BY DEF RemoveBid
<1> QED
  BY <1>1, <1>2, <1>3, <1>4, <1>5, AfterGetBidInv

\* A slot that is not silent: the caller's thread starts the race of its live load,
\* the barrier queue goes on to cache the late answer.
LEMMA SlotIsNotSilentInv ==
    ASSUME IInv, NEW t \in Threads, NEW l \in Loads, l = frame[t].load,
           frame[t].op \in {"silent", "drop"}, SlotIsNotSilent(t, l),
           UNCHANGED << barrierQ, call, answers >>,
           \A s \in Slots : cache'[s] # NoBid => cache'[s] = cache[s]
    PROVE  AnswerInv' /\ CallerInv' /\ WorkerInv' /\ StageInv' /\ SlotInv'
<1>0. TypeOK
  BY DEF IInv
<1>1. /\ \A u \in Threads : frame[u].op \notin {"idle", "note"} => frame[u].load \in Loads
      /\ \A i \in DOMAIN barrierQ : barrierQ[i].load \in Loads
      /\ load[l] \in Load /\ frame[t] \in Frame
  BY <1>0, FrameLoads DEF TypeOK
<1>2. CASE t = Barrier
  <2> DEFINE f == [frame[t] EXCEPT !.op = "store"]
  <2>1. f.op = "store" /\ f.load = l
    BY <1>1 DEF Frame
  <2>2. frame' = [frame EXCEPT ![t] = f] /\ load' = load
    BY <1>2 DEF SlotIsNotSilent
  <2> HIDE DEF f
  <2>3. /\ frame'[t] = f
        /\ \A u \in Threads : u # t => frame'[u] = frame[u]
    BY <1>0, <2>2, FrameStep
  <2>4. AnswerInv'
    BY <2>2 DEF IInv, AnswerInv, Unanswered
  <2>5. CallerInv'
    BY <1>2, <2>2, <2>3, ThreadsDiffer DEF IInv, CallerInv
  <2>6. WorkerInv'
    BY <1>2, <2>1, <2>2, <2>3, ThreadsDiffer DEF IInv, WorkerInv
  <2>7. StageInv'
    BY <2>2 DEF IInv, StageInv
  <2>8. SlotInv'
    BY <2>1, <2>2, <2>3 DEF IInv, SlotInv
  <2> QED
    BY <2>4, <2>5, <2>6, <2>7, <2>8
<1>3. CASE t # Barrier
  <2> DEFINE x == [load[l] EXCEPT !.stage = "racing", !.operation = TRUE, !.timer = TRUE]
  <2>1. /\ x.stage = "racing" /\ x.live = load[l].live /\ x.slot = load[l].slot
        /\ x.handled = load[l].handled
    BY <1>1 DEF Load
  <2>2. frame' = [frame EXCEPT ![t] = Idle] /\ load' = [load EXCEPT ![l] = x]
    BY <1>3 DEF SlotIsNotSilent
  <2> HIDE DEF x
  <2>3. /\ load'[l] = x
        /\ \A m \in Loads : m # l => load'[m] = load[m]
    BY <1>0, <2>2, LoadStep
  <2>4. /\ frame'[t] = Idle
        /\ \A u \in Threads : u # t => frame'[u] = frame[u]
    BY <1>0, <2>2, FrameStep
  <2>5. t \in AppThreads /\ load[l].stage = "sync" /\ load[l].live
    BY <1>3, ThreadsDiffer DEF IInv, CallerInv, WorkerInv
  <2>6. Idle.op = "idle"
    BY DEF Idle
  <2>7. AnswerInv'
    BY <2>3, <2>5 DEF IInv, AnswerInv, Unanswered
  <2>8. CallerInv'
    BY <1>1, <2>3, <2>4, <2>5, <2>6, ThreadsDiffer DEF IInv, CallerInv
  <2>9. WorkerInv'
    BY <1>1, <2>3, <2>4, <2>5, <2>6, ThreadsDiffer DEF IInv, WorkerInv
  <2>10. StageInv'
    <3>1. x.stage = "racing" /\ x.live
      BY <2>1, <2>5
    <3>2. \A m \in Loads :
             /\ load'[m].stage = "racing" => load'[m].live
             /\ load'[m].stage = "block" => ~load'[m].live
             /\ load'[m].operation \/ load'[m].timer => load'[m].stage = "racing"
      BY <2>3, <3>1 DEF IInv, StageInv
    <3>3. \A m \in Loads :
             call'[m] # "none" => \/ load'[m].live /\ load'[m].stage = "racing"
                                  \/ ~load'[m].live /\ load'[m].stage = "done"
      BY <2>3, <3>1 DEF IInv, StageInv
    <3>4. \A i \in DOMAIN barrierQ : load'[barrierQ[i].load].stage = "racing"
      BY <1>1, <2>3, <3>1 DEF IInv, StageInv
    <3> QED
      BY <3>2, <3>3, <3>4 DEF StageInv
  <2>11. SlotInv'
    BY <1>1, <2>1, <2>3, <2>4, <2>6 DEF IInv, SlotInv
  <2> QED
    BY <2>7, <2>8, <2>9, <2>10, <2>11
<1> QED
  BY <1>2, <1>3

LEMMA IsSlotSilentInv ==
    ASSUME IInv, NEW t \in Threads, IsSlotSilent(t)
    PROVE  AnswerInv' /\ CallerInv' /\ WorkerInv' /\ StageInv' /\ SlotInv'
<1> DEFINE l == frame[t].load
           b == cache[load[l].slot]
<1>0. TypeOK
  BY DEF IInv
<1>1. frame[t].op = "silent" /\ UNCHANGED << cache, barrierQ, call >>
  BY DEF IsSlotSilent
<1>2. l \in Loads /\ frame[t] \in Frame /\ load[l] \in Load
  BY <1>0, <1>1 DEF TypeOK
<1>3. CASE SlotIsNotSilent(t, l) /\ UNCHANGED answers
  BY <1>1, <1>2, <1>3, SlotIsNotSilentInv
<1>4. CASE frame' = [frame EXCEPT ![t].op = "unsilence"] /\ UNCHANGED << load, answers >>
  <2> DEFINE f == [frame[t] EXCEPT !.op = "unsilence"]
  <2>1. f.op = "unsilence" /\ f.load = l /\ frame' = [frame EXCEPT ![t] = f]
    BY <1>2, <1>4 DEF Frame
  <2> HIDE DEF f
  <2> QED
    BY <1>1, <1>4, <2>1, FrameMoveInv
<1>5. CASE /\ frame' = [frame EXCEPT ![t] = Idle]
           /\ IF t = Barrier
                THEN UNCHANGED << load, answers >>
                ELSE /\ load' = [load EXCEPT ![l].stage = "done"]
                     /\ Answer(l, NoBid)
  <2>1. /\ frame'[t] = Idle
        /\ \A u \in Threads : u # t => frame'[u] = frame[u]
    BY <1>0, <1>5, FrameStep
  <2>2. Idle.op = "idle"
    BY DEF Idle
  <2>3. CASE t = Barrier
    <3>1. AnswerInv'
      BY <1>5, <2>3 DEF IInv, AnswerInv, Unanswered
    <3>2. CallerInv'
      BY <1>5, <2>1, <2>3, ThreadsDiffer DEF IInv, CallerInv
    <3>3. WorkerInv'
      BY <1>5, <2>1, <2>2, <2>3, ThreadsDiffer DEF IInv, WorkerInv
    <3>4. StageInv'
      BY <1>1, <1>5, <2>3 DEF IInv, StageInv
    <3>5. SlotInv'
      BY <1>1, <1>5, <2>1, <2>2, <2>3 DEF IInv, SlotInv
    <3> QED
      BY <3>1, <3>2, <3>3, <3>4, <3>5
  <2>4. CASE t # Barrier
    <3> DEFINE x == [load[l] EXCEPT !.stage = "done"]
    <3>1. /\ x.stage = "done" /\ x.live = load[l].live /\ x.slot = load[l].slot
          /\ x.operation = load[l].operation /\ x.timer = load[l].timer
      BY <1>2 DEF Load
    <3>2. load' = [load EXCEPT ![l] = x] /\ Answer(l, NoBid)
      BY <1>5, <2>4
    <3> HIDE DEF x
    <3>3. /\ load'[l] = x
          /\ \A m \in Loads : m # l => load'[m] = load[m]
      BY <1>0, <1>2, <3>2, LoadStep
    <3>4. \A m \in Loads : m # l => answers'[m] = answers[m]
      BY <1>0, <1>2, <3>2, AnswerStep
    <3>5. t \in AppThreads /\ load[l].stage = "sync"
      BY <1>1, <2>4, ThreadsDiffer DEF IInv, CallerInv, WorkerInv
    <3>6. /\ \A u \in Threads : frame[u].op \notin {"idle", "note"}
                                   => frame[u].load \in Loads
          /\ \A i \in DOMAIN barrierQ : barrierQ[i].load \in Loads
      BY <1>0, FrameLoads
    <3>7. AnswerInv'
      BY <3>1, <3>3, <3>4 DEF IInv, AnswerInv, Unanswered
    <3>8. CallerInv'
      BY <1>1, <2>1, <2>2, <3>3, <3>5, <3>6, ThreadsDiffer DEF IInv, CallerInv
    <3>9. WorkerInv'
      BY <2>1, <3>3, <3>5, <3>6, ThreadsDiffer DEF IInv, WorkerInv
    <3>10. StageInv'
      BY <1>1, <3>1, <3>3, <3>5, <3>6 DEF IInv, StageInv
    <3>11. SlotInv'
      BY <1>1, <2>1, <2>2, <3>1, <3>3, <3>6 DEF IInv, SlotInv
    <3> QED
      BY <3>7, <3>8, <3>9, <3>10, <3>11
  <2> QED
    BY <2>3, <2>4
<1> QED
  BY <1>3, <1>4, <1>5 DEF IsSlotSilent

LEMMA RereadSilenceInv ==
    ASSUME IInv, NEW t \in Threads, RereadSilence(t)
    PROVE  AnswerInv' /\ CallerInv' /\ WorkerInv' /\ StageInv' /\ SlotInv'
<1> DEFINE b == cache[load[frame[t].load].slot]
           f == [frame[t] EXCEPT !.op = "drop", !.bid = b]
<1>1. frame[t] \in Frame
  BY DEF IInv, TypeOK
<1>2. f.op = "drop" /\ f.load = frame[t].load
  <2> HIDE DEF b
  <2> QED
    BY <1>1 DEF Frame
<1>3. /\ frame[t].op = "unsilence"
      /\ frame' = [frame EXCEPT ![t] = f]
      /\ UNCHANGED << load, cache, barrierQ, call, answers >>
  BY DEF RereadSilence
<1> HIDE DEF f
<1> QED
  BY <1>2, <1>3, FrameMoveInv

LEMMA DropSilenceInv ==
    ASSUME IInv, NEW t \in Threads, DropSilence(t)
    PROVE  AnswerInv' /\ CallerInv' /\ WorkerInv' /\ StageInv' /\ SlotInv'
<1> DEFINE l == frame[t].load
<1>0. TypeOK
  BY DEF IInv
<1>1. frame[t].op = "drop" /\ UNCHANGED << barrierQ, call, answers >>
  BY DEF DropSilence
<1>2. l \in Loads /\ load[l].slot \in Slots
  BY <1>0, <1>1 DEF TypeOK, Load
<1>3. \A s \in Slots : cache'[s] # NoBid => cache'[s] = cache[s]
  BY <1>0, <1>2, EmptiedStep DEF DropSilence
<1>4. SlotIsNotSilent(t, l)
  BY DEF DropSilence
<1> QED
  BY <1>1, <1>2, <1>3, <1>4, SlotIsNotSilentInv

\* A block enters the barrier queue for a live load that races.
LEMMA QueueStep ==
    ASSUME TypeOK, NEW k, barrierQ' = Append(barrierQ, k)
    PROVE  \A i \in DOMAIN barrierQ' :
              barrierQ'[i] = k \/ (i \in DOMAIN barrierQ /\ barrierQ'[i] = barrierQ[i])
<1>1. barrierQ \in Seq(Block)
  BY DEF TypeOK
<1> QED
  BY <1>1

\* The two posted blocks of a live load: y is the load without the one that ran, k what
\* it has put in the barrier queue, if anything.
LEMMA PostedBlockInv ==
    ASSUME IInv, NEW l \in Loads, load[l].operation \/ load[l].timer, NEW y,
           load' = [load EXCEPT ![l] = y],
           /\ y.stage = load[l].stage
           /\ y.slot = load[l].slot
           /\ y.handled = load[l].handled
           /\ y.bid = load[l].bid
           /\ y.live = load[l].live,
           NEW k, k.load = l, k.bids = {},
           UNCHANGED barrierQ \/ barrierQ' = Append(barrierQ, k),
           \A m \in Loads : m # l => call'[m] = call[m],
           UNCHANGED << cache, frame, answers >>
    PROVE  AnswerInv' /\ CallerInv' /\ WorkerInv' /\ StageInv' /\ SlotInv'
<1>0. TypeOK
  BY DEF IInv
<1>1. /\ load'[l] = y
      /\ \A m \in Loads : m # l => load'[m] = load[m]
  BY <1>0, LoadStep
<1>2. load[l].stage = "racing" /\ load[l].live
  BY DEF IInv, StageInv
<1>3. /\ \A u \in Threads : frame[u].op \notin {"idle", "note"} => frame[u].load \in Loads
      /\ \A i \in DOMAIN barrierQ : barrierQ[i].load \in Loads
  BY <1>0, FrameLoads
<1>4. \A i \in DOMAIN barrierQ' :
         barrierQ'[i] = k \/ (i \in DOMAIN barrierQ /\ barrierQ'[i] = barrierQ[i])
  BY <1>0, QueueStep
<1>5. AnswerInv'
  BY <1>1 DEF IInv, AnswerInv, Unanswered
<1>6. CallerInv'
  BY <1>1, <1>3, ThreadsDiffer DEF IInv, CallerInv
<1>7. WorkerInv'
  BY <1>1, <1>3, ThreadsDiffer DEF IInv, WorkerInv
<1>8. StageInv'
  <2>0. y.stage = "racing" /\ y.live
    BY <1>2
  <2>1. \A m \in Loads :
           /\ load'[m].stage = "racing" => load'[m].live
           /\ load'[m].stage = "block" => ~load'[m].live
           /\ load'[m].operation \/ load'[m].timer => load'[m].stage = "racing"
    BY <1>1, <2>0 DEF IInv, StageInv
  <2>2. \A m \in Loads :
           call'[m] # "none" => \/ load'[m].live /\ load'[m].stage = "racing"
                                \/ ~load'[m].live /\ load'[m].stage = "done"
    BY <1>1, <2>0 DEF IInv, StageInv
  <2>3. \A i \in DOMAIN barrierQ' : load'[barrierQ'[i].load].stage = "racing"
    BY <1>1, <1>2, <1>3, <1>4 DEF IInv, StageInv
  <2> QED
    BY <2>1, <2>2, <2>3 DEF StageInv
<1>9. SlotInv'
  <2>1. \A i \in DOMAIN barrierQ' : \A b \in barrierQ'[i].bids :
           b.slot = load'[barrierQ'[i].load].slot
    BY <1>1, <1>3, <1>4 DEF IInv, SlotInv
  <2>2. \A m \in Loads : load'[m].stage = "block" /\ load'[m].bid # NoBid
                            => load'[m].bid.slot = load'[m].slot
    BY <1>1 DEF IInv, SlotInv
  <2>3. \A t \in Threads : frame'[t].op = "remove" =>
          /\ frame'[t].bid # NoBid => frame'[t].bid.slot = load'[frame'[t].load].slot
          /\ frame'[t].result # NoBid => frame'[t].result.slot = load'[frame'[t].load].slot
    BY <1>1, <1>3 DEF IInv, SlotInv
  <2>4. \A s \in Slots : cache'[s] # NoBid => cache'[s].slot = s
    BY DEF IInv, SlotInv
  <2> QED
    BY <2>1, <2>2, <2>3, <2>4 DEF SlotInv
<1> QED
  BY <1>5, <1>6, <1>7, <1>8, <1>9

LEMMA OperationInv ==
    ASSUME IInv, NEW l \in Loads, Operation(l)
    PROVE  AnswerInv' /\ CallerInv' /\ WorkerInv' /\ StageInv' /\ SlotInv'
<1> DEFINE y == [load[l] EXCEPT !.operation = FALSE]
           k == [kind |-> "completion", load |-> l, bids |-> {}]
<1>0. TypeOK
  BY DEF IInv
<1>1. /\ y.stage = load[l].stage
      /\ y.slot = load[l].slot
      /\ y.handled = load[l].handled
      /\ y.bid = load[l].bid
      /\ y.live = load[l].live
  BY <1>0, FrameLoads DEF Load
<1>2. k.load = l /\ k.bids = {}
  OBVIOUS
<1>3. /\ load[l].operation
      /\ load' = [load EXCEPT ![l] = y]
      /\ UNCHANGED barrierQ \/ barrierQ' = Append(barrierQ, k)
      /\ UNCHANGED << cache, frame, answers >>
  BY DEF Operation
<1>4. \A m \in Loads : m # l => call'[m] = call[m]
  BY <1>0 DEF Operation, TypeOK, Requests
<1> HIDE DEF y, k
<1> QED
  BY <1>1, <1>2, <1>3, <1>4, PostedBlockInv

LEMMA TimerFiresInv ==
    ASSUME IInv, NEW l \in Loads, TimerFires(l)
    PROVE  AnswerInv' /\ CallerInv' /\ WorkerInv' /\ StageInv' /\ SlotInv'
<1> DEFINE y == [load[l] EXCEPT !.timer = FALSE]
           k == [kind |-> "timeout", load |-> l, bids |-> {}]
<1>0. TypeOK
  BY DEF IInv
<1>1. /\ y.stage = load[l].stage
      /\ y.slot = load[l].slot
      /\ y.handled = load[l].handled
      /\ y.bid = load[l].bid
      /\ y.live = load[l].live
  BY <1>0, FrameLoads DEF Load
<1>2. k.load = l /\ k.bids = {}
  OBVIOUS
<1>3. /\ load[l].timer
      /\ load' = [load EXCEPT ![l] = y]
      /\ barrierQ' = Append(barrierQ, k)
      /\ UNCHANGED << cache, frame, answers, call >>
  BY DEF TimerFires
<1> HIDE DEF y, k
<1> QED
  BY <1>1, <1>2, <1>3, PostedBlockInv

\* The block that leaves the barrier queue belongs to a live load that races; its bids
\* are for the slot of that load.
LEMMA NextBlockInv ==
    ASSUME IInv, NEW k, NextBlock(k)
    PROVE  /\ k \in Block /\ k.load \in Loads
           /\ load[k.load].stage = "racing" /\ load[k.load].live
           /\ \A b \in k.bids : b.slot = load[k.load].slot
           /\ frame[Barrier].op = "idle"
           /\ \A i \in DOMAIN barrierQ' :
                 i + 1 \in DOMAIN barrierQ /\ barrierQ'[i] = barrierQ[i + 1]
           /\ UNCHANGED call
<1>0. TypeOK
  BY DEF IInv
<1>1. k \in Block /\ k = barrierQ[1] /\ 1 \in DOMAIN barrierQ /\ UNCHANGED call
  BY <1>0, NextBlockType
<1>2. k.load \in Loads
  BY <1>1 DEF Block
<1>3. load[k.load].stage = "racing" /\ load[k.load].live
  BY <1>1, <1>2 DEF IInv, StageInv
<1>4. \A b \in k.bids : b.slot = load[k.load].slot
  BY <1>1 DEF IInv, SlotInv
<1>5. \A i \in DOMAIN barrierQ' :
         i + 1 \in DOMAIN barrierQ /\ barrierQ'[i] = barrierQ[i + 1]
  <2>1. barrierQ \in Seq(Block) /\ barrierQ # << >> /\ barrierQ' = Tail(barrierQ)
    BY <1>0 DEF NextBlock, TypeOK
  <2> QED
    BY <2>1
<1> QED
  BY <1>1, <1>2, <1>3, <1>4, <1>5 DEF NextBlock

\* setBid files each bid under its own slot.
LEMMA SetBidsSlot ==
    ASSUME \A s \in Slots : cache[s] # NoBid => cache[s].slot = s,
           NEW B, SetBids(B)
    PROVE  \A s \in Slots : cache'[s] # NoBid => cache'[s].slot = s
  BY DEF SetBids

\* A block of the barrier queue that does not answer by itself: f is where the barrier
\* thread gets to.
LEMMA BarrierBlockInv ==
    ASSUME IInv, NEW k, NextBlock(k), NEW f,
           frame' = [frame EXCEPT ![Barrier] = f],
           \/ f.op = "idle"
           \/ f.op = "silent" /\ f.load = k.load
           \/ f.op \in {"get", "noteSilence"} /\ f.load = k.load /\ ~load[k.load].handled,
           \A s \in Slots : cache'[s] # NoBid => cache'[s].slot = s,
           UNCHANGED << load, answers >>
    PROVE  AnswerInv' /\ CallerInv' /\ WorkerInv' /\ StageInv' /\ SlotInv'
<1>0. TypeOK
  BY DEF IInv
<1>1. /\ k.load \in Loads
      /\ load[k.load].stage = "racing"
      /\ \A i \in DOMAIN barrierQ' :
            i + 1 \in DOMAIN barrierQ /\ barrierQ'[i] = barrierQ[i + 1]
      /\ UNCHANGED call
  BY NextBlockInv
<1>2. /\ frame'[Barrier] = f
      /\ \A u \in Threads : u # Barrier => frame'[u] = frame[u]
  BY <1>0, ThreadsDiffer, FrameStep
<1>3. AnswerInv'
  BY DEF IInv, AnswerInv, Unanswered
<1>4. CallerInv'
  BY <1>2, ThreadsDiffer DEF IInv, CallerInv
<1>5. WorkerInv'
  BY <1>1, <1>2, ThreadsDiffer DEF IInv, WorkerInv
<1>6. StageInv'
  BY <1>1 DEF IInv, StageInv
<1>7. SlotInv'
  BY <1>1, <1>2 DEF IInv, SlotInv
<1> QED
  BY <1>3, <1>4, <1>5, <1>6, <1>7

LEMMA FallBackOnCacheInv ==
    ASSUME IInv, NEW k, FallBackOnCache(k)
    PROVE  AnswerInv' /\ CallerInv' /\ WorkerInv' /\ StageInv' /\ SlotInv'
<1> DEFINE f == [Idle EXCEPT !.op = "get", !.load = k.load]
<1>1. f.op = "get" /\ f.load = k.load
  BY DEF Idle
<1>2. /\ NextBlock(k)
      /\ frame' = [frame EXCEPT ![Barrier] = f]
      /\ ~load[k.load].handled
      /\ UNCHANGED << cache, load, answers >>
  BY DEF FallBackOnCache, Handled
<1>3. \A s \in Slots : cache'[s] # NoBid => cache'[s].slot = s
  BY <1>2 DEF IInv, SlotInv
<1> HIDE DEF f
<1> QED
  BY <1>1, <1>2, <1>3, BarrierBlockInv

LEMMA SilenceInTimeInv ==
    ASSUME IInv, NEW k, SilenceInTime(k)
    PROVE  AnswerInv' /\ CallerInv' /\ WorkerInv' /\ StageInv' /\ SlotInv'
<1> DEFINE f == [Idle EXCEPT !.op = "noteSilence", !.load = k.load, !.arrived = k.bids]
<1>1. f.op = "noteSilence" /\ f.load = k.load
  BY DEF Idle
<1>2. /\ NextBlock(k)
      /\ frame' = [frame EXCEPT ![Barrier] = f]
      /\ ~load[k.load].handled
      /\ SetBids(k.bids)
      /\ UNCHANGED << load, answers >>
  BY DEF SilenceInTime, Handled
<1>3. \A s \in Slots : cache'[s] # NoBid => cache'[s].slot = s
  BY <1>2, SetBidsSlot DEF IInv, SlotInv
<1> HIDE DEF f
<1> QED
  BY <1>1, <1>2, <1>3, BarrierBlockInv

LEMMA LateCompletionInv ==
    ASSUME IInv, NEW k, LateCompletion(k)
    PROVE  AnswerInv' /\ CallerInv' /\ WorkerInv' /\ StageInv' /\ SlotInv'
<1> DEFINE f == [Idle EXCEPT !.op = "silent", !.load = k.load, !.arrived = k.bids]
<1>1. f.op = "silent" /\ f.load = k.load
  BY DEF Idle
<1>2. /\ NextBlock(k)
      /\ frame' = [frame EXCEPT ![Barrier] = f]
      /\ UNCHANGED << cache, load, answers >>
  BY DEF LateCompletion
<1>3. \A s \in Slots : cache'[s] # NoBid => cache'[s].slot = s
  BY <1>2 DEF IInv, SlotInv
<1> HIDE DEF f
<1> QED
  BY <1>1, <1>2, <1>3, BarrierBlockInv

LEMMA TimeoutAfterCompletionInv ==
    ASSUME IInv, NEW k, TimeoutAfterCompletion(k)
    PROVE  AnswerInv' /\ CallerInv' /\ WorkerInv' /\ StageInv' /\ SlotInv'
<1>1. NextBlock(k) /\ UNCHANGED << cache, load, frame, answers >>
  BY DEF TimeoutAfterCompletion
<1>2. frame[Barrier].op = "idle"
  BY <1>1, NextBlockInv
<1>3. frame' = [frame EXCEPT ![Barrier] = frame[Barrier]]
  BY <1>1 DEF IInv, TypeOK
<1>4. \A s \in Slots : cache'[s] # NoBid => cache'[s].slot = s
  BY <1>1 DEF IInv, SlotInv
<1> QED
  BY <1>1, <1>2, <1>3, <1>4, BarrierBlockInv

\* The step of the barrier thread that answers the load l and sets its handled flag.
LEMMA BarrierAnswerInv ==
    ASSUME IInv, NEW l \in Loads, load[l].stage = "racing",
           load' = [load EXCEPT ![l].handled = TRUE],
           frame'[Barrier].op = "idle",
           \A u \in Threads : u # Barrier => frame'[u] = frame[u],
           \A i \in DOMAIN barrierQ' : \E j \in DOMAIN barrierQ : barrierQ'[i] = barrierQ[j],
           \A m \in Loads : m # l => answers'[m] = answers[m],
           UNCHANGED << cache, call >>
    PROVE  AnswerInv' /\ CallerInv' /\ WorkerInv' /\ StageInv' /\ SlotInv'
<1> DEFINE y == [load[l] EXCEPT !.handled = TRUE]
<1>0. TypeOK
  BY DEF IInv
<1>1. load' = [load EXCEPT ![l] = y]
  BY <1>0 DEF TypeOK
<1>2. /\ y.stage = "racing"
      /\ y.handled
      /\ y.slot = load[l].slot
      /\ y.live = load[l].live
      /\ y.operation = load[l].operation
      /\ y.timer = load[l].timer
  BY <1>0, FrameLoads DEF Load
<1> HIDE DEF y
<1>3. /\ load'[l] = y
      /\ \A m \in Loads : m # l => load'[m] = load[m]
  BY <1>0, <1>1 DEF TypeOK
<1>4. /\ \A u \in Threads : frame[u].op \notin {"idle", "note"} => frame[u].load \in Loads
      /\ \A i \in DOMAIN barrierQ : barrierQ[i].load \in Loads
  BY <1>0, FrameLoads
<1>5. AnswerInv'
  BY <1>2, <1>3 DEF IInv, AnswerInv, Unanswered
<1>6. CallerInv'
  BY <1>2, <1>3, <1>4, ThreadsDiffer DEF IInv, CallerInv
<1>7. WorkerInv'
  BY <1>2, <1>3, <1>4, ThreadsDiffer DEF IInv, WorkerInv
<1>8. StageInv'
  BY <1>2, <1>3, <1>4 DEF IInv, StageInv
<1>9. SlotInv'
  <2>1. /\ \A s \in Slots : cache'[s] # NoBid => cache'[s].slot = s
        /\ \A i \in DOMAIN barrierQ' : \A b \in barrierQ'[i].bids :
              b.slot = load'[barrierQ'[i].load].slot
    BY <1>2, <1>3, <1>4 DEF IInv, SlotInv
  <2>2. \A t \in Threads : frame'[t].op = "remove" =>
          /\ frame'[t].bid # NoBid => frame'[t].bid.slot = load'[frame'[t].load].slot
          /\ frame'[t].result # NoBid => frame'[t].result.slot = load'[frame'[t].load].slot
    BY <1>2, <1>3, <1>4 DEF IInv, SlotInv
  <2>3. \A m \in Loads : load'[m].stage = "block" /\ load'[m].bid # NoBid
                            => load'[m].bid.slot = load'[m].slot
    BY <1>2, <1>3 DEF IInv, SlotInv
  <2> QED
    BY <2>1, <2>2, <2>3 DEF SlotInv
<1> QED
  BY <1>5, <1>6, <1>7, <1>8, <1>9

LEMMA BidInTimeInv ==
    ASSUME IInv, NEW k, BidInTime(k)
    PROVE  AnswerInv' /\ CallerInv' /\ WorkerInv' /\ StageInv' /\ SlotInv'
<1>0. TypeOK
  BY DEF IInv
<1>1. /\ NextBlock(k)
      /\ load' = [load EXCEPT ![k.load].handled = TRUE]
      /\ UNCHANGED << cache, frame, call >>
  BY DEF BidInTime, NextBlock
<1>2. /\ frame[Barrier].op = "idle"
      /\ k.load \in Loads
      /\ load[k.load].stage = "racing"
      /\ \A i \in DOMAIN barrierQ' :
            i + 1 \in DOMAIN barrierQ /\ barrierQ'[i] = barrierQ[i + 1]
  BY <1>1, NextBlockInv
<1>3. \A m \in Loads : m # k.load => answers'[m] = answers[m]
  BY <1>0, <1>2, AnswerStep DEF BidInTime
<1> QED
  BY <1>1, <1>2, <1>3, BarrierAnswerInv

LEMMA StoreLateInv ==
    ASSUME IInv, StoreLate
    PROVE  AnswerInv' /\ CallerInv' /\ WorkerInv' /\ StageInv' /\ SlotInv'
<1> DEFINE f == [frame[Barrier] EXCEPT !.op = "note"]
<1>0. TypeOK
  BY DEF IInv
<1>1. /\ frame[Barrier].op = "store"
      /\ SetBids(frame[Barrier].arrived)
      /\ UNCHANGED << load, barrierQ, call, answers >>
  BY DEF StoreLate
<1>2. frame' = [frame EXCEPT ![Barrier] = f]
  BY <1>0 DEF StoreLate, TypeOK
<1>3. f.op = "note"
  BY <1>0, ThreadsDiffer DEF TypeOK, Frame
<1> HIDE DEF f
<1>4. /\ frame'[Barrier].op = "note"
      /\ \A u \in Threads : u # Barrier => frame'[u] = frame[u]
  BY <1>0, <1>2, <1>3, ThreadsDiffer, FrameStep
<1>5. \A s \in Slots : cache'[s] # NoBid => cache'[s].slot = s
  BY <1>1, SetBidsSlot DEF IInv, SlotInv
<1>6. AnswerInv'
  BY <1>1 DEF IInv, AnswerInv, Unanswered
<1>7. CallerInv'
  BY <1>1, <1>4, ThreadsDiffer DEF IInv, CallerInv
<1>8. WorkerInv'
  BY <1>1, <1>4, ThreadsDiffer DEF IInv, WorkerInv
<1>9. StageInv'
  BY <1>1 DEF IInv, StageInv
<1>10. SlotInv'
  BY <1>1, <1>4, <1>5 DEF IInv, SlotInv
<1> QED
  BY <1>6, <1>7, <1>8, <1>9, <1>10

LEMMA NoteCachedInv ==
    ASSUME IInv, NEW t \in Threads, NoteCached(t)
    PROVE  AnswerInv' /\ CallerInv' /\ WorkerInv' /\ StageInv' /\ SlotInv'
<1> DEFINE l == frame[t].load
<1>0. TypeOK
  BY DEF IInv
<1>1. /\ frame' = [frame EXCEPT ![t] = Idle]
      /\ UNCHANGED << cache, barrierQ, call >>
  BY DEF NoteCached
<1>2. /\ frame'[t].op = "idle"
      /\ \A u \in Threads : u # t => frame'[u] = frame[u]
  <2>1. frame'[t] = Idle /\ \A u \in Threads : u # t => frame'[u] = frame[u]
    BY <1>0, <1>1, FrameStep
  <2> QED
    BY <2>1 DEF Idle
<1>3. CASE frame[t].op = "noteSilence"
  <2>1. t = Barrier
    BY <1>3, ThreadsDiffer DEF IInv, CallerInv, WorkerInv
  <2>2. l \in Loads /\ load[l].stage = "racing"
    BY <1>0, <1>3, <2>1, ThreadsDiffer, FrameLoads DEF IInv, WorkerInv
  <2>3. load' = [load EXCEPT ![l].handled = TRUE] /\ Answer(l, NoBid)
    BY <1>3 DEF NoteCached
  <2>4. \A m \in Loads : m # l => answers'[m] = answers[m]
    BY <1>0, <2>2, <2>3, AnswerStep
  <2>5. \A i \in DOMAIN barrierQ' :
           \E j \in DOMAIN barrierQ : barrierQ'[i] = barrierQ[j]
    BY <1>1
  <2> QED
    BY <1>1, <1>2, <2>1, <2>2, <2>3, <2>4, <2>5, BarrierAnswerInv
<1>4. CASE frame[t].op = "note"
  <2>1. UNCHANGED << load, answers >>
    BY <1>4 DEF NoteCached
  <2>2. AnswerInv'
    BY <2>1 DEF IInv, AnswerInv, Unanswered
  <2>3. CallerInv'
    BY <1>2, <2>1, ThreadsDiffer DEF IInv, CallerInv
  <2>4. WorkerInv'
    BY <1>2, <2>1, ThreadsDiffer DEF IInv, WorkerInv
  <2>5. StageInv'
    BY <1>1, <2>1 DEF IInv, StageInv
  <2>6. SlotInv'
    BY <1>1, <1>2, <2>1 DEF IInv, SlotInv
  <2> QED
    BY <2>2, <2>3, <2>4, <2>5, <2>6
<1> QED
  BY <1>3, <1>4 DEF NoteCached

LEMMA SendCallInv ==
    ASSUME IInv, NEW r \in Requests, SendCall(r)
    PROVE  AnswerInv' /\ CallerInv' /\ WorkerInv' /\ StageInv' /\ SlotInv'
<1>1. UNCHANGED << load, frame, cache, barrierQ, answers >>
  BY DEF SendCall
<1>2. \A l \in Loads : call[l] = "none" => call'[l] = "none"
  BY DEF SendCall, IInv, TypeOK, Requests
<1> QED
  BY <1>1, <1>2, QuietStepInv

LEMMA HttpErrorInv ==
    ASSUME IInv, NEW r \in Requests, HttpError(r)
    PROVE  AnswerInv' /\ CallerInv' /\ WorkerInv' /\ StageInv' /\ SlotInv'
<1>1. UNCHANGED << load, frame, cache, barrierQ, answers >>
  BY DEF HttpError
<1>2. \A l \in Loads : call[l] = "none" => call'[l] = "none"
  BY DEF HttpError, Answerable, IInv, TypeOK, Requests
<1> QED
  BY <1>1, <1>2, QuietStepInv

LEMMA UnsilenceBlockInv ==
    ASSUME IInv, NEW post, UnsilenceBlock(post)
    PROVE  AnswerInv' /\ CallerInv' /\ WorkerInv' /\ StageInv' /\ SlotInv'
<1>1. UNCHANGED << load, frame, cache, barrierQ, answers, call >>
  BY DEF UnsilenceBlock
<1> QED
  BY <1>1, QuietStepInv

LEMMA SetupInv ==
    ASSUME IInv, Register \/ RefreshConfig \/ Tick
    PROVE  AnswerInv' /\ CallerInv' /\ WorkerInv' /\ StageInv' /\ SlotInv'
<1>1. UNCHANGED << load, frame, cache, barrierQ, answers >>
  BY DEF Register, RefreshConfig, Tick
<1>2. \A l \in Loads : call'[l] = call[l]
  BY ConstantsAssumption DEF Register, RefreshConfig, Tick, IInv, TypeOK, Requests
<1> QED
  BY <1>1, <1>2, QuietStepInv

LEMMA StutterInv ==
    ASSUME IInv, UNCHANGED vars
    PROVE  AnswerInv' /\ CallerInv' /\ WorkerInv' /\ StageInv' /\ SlotInv'
<1>1. UNCHANGED << load, frame, cache, barrierQ, answers, call >>
  BY DEF vars
<1> QED
  BY <1>1, QuietStepInv

\* A CDB call that was made is for a live load that races, or for a load that is done:
\* its bids are for the slots it asked for.
LEMMA CdbResponseHandlerInv ==
    ASSUME IInv, NEW r \in Requests, call[r] # "none",
           NEW B, \A b \in B : b.slot \in SlotsOf(r),
           CdbResponseHandler(r, B),
           frame[Session].op = "idle" \/ B = {},
           \A q \in Loads : call[q] = "none" => call'[q] = "none",
           UNCHANGED << load, answers >>
    PROVE  AnswerInv' /\ CallerInv' /\ WorkerInv' /\ StageInv' /\ SlotInv'
<1> DEFINE k == [kind |-> "completion", load |-> r, bids |-> B]
<1>0. TypeOK
  BY DEF IInv
<1>1. /\ \A u \in Threads : u # Session => frame'[u] = frame[u]
      /\ frame'[Session].op \in {"idle", "note"}
  <2>1. CASE ForLiveLoad(r)
    BY <2>1 DEF CdbResponseHandler, IInv, WorkerInv
  <2>2. CASE ~ForLiveLoad(r)
    <3> DEFINE op == IF B = {} THEN "idle" ELSE "note"
               f == [frame[Session] EXCEPT !.op = op, !.arrived = B]
    <3>1. frame' = [frame EXCEPT ![Session] = f]
      BY <1>0, <2>2 DEF CdbResponseHandler, TypeOK
    <3>2. f.op = op
      BY <1>0, ThreadsDiffer DEF TypeOK, Frame
    <3>3. op \in {"idle", "note"}
      OBVIOUS
    <3> HIDE DEF f, op
    <3> QED
      BY <1>0, <3>1, <3>2, <3>3, ThreadsDiffer, FrameStep
  <2> QED
    BY <2>1, <2>2
<1>2. \A s \in Slots : cache'[s] # NoBid => cache'[s].slot = s
  <2>1. \A s \in Slots : cache[s] # NoBid => cache[s].slot = s
    BY DEF IInv, SlotInv
  <2>2. UNCHANGED cache \/ SetBids(B)
    BY DEF CdbResponseHandler
  <2> QED
    BY <2>1, <2>2, SetBidsSlot
<1>3. \A i \in DOMAIN barrierQ' :
         \/ r \in Loads /\ load[r].live /\ barrierQ'[i] = k
         \/ i \in DOMAIN barrierQ /\ barrierQ'[i] = barrierQ[i]
  <2>1. CASE ForLiveLoad(r)
    <3>1. barrierQ' = Append(barrierQ, k) /\ r \in Loads /\ load[r].live
      BY <2>1 DEF CdbResponseHandler, ForLiveLoad
    <3> HIDE DEF k
    <3> QED
      BY <1>0, <3>1, QueueStep
  <2>2. CASE ~ForLiveLoad(r)
    BY <2>2 DEF CdbResponseHandler
  <2> QED
    BY <2>1, <2>2
<1>4. r \in Loads /\ load[r].live => load[r].stage = "racing"
  BY DEF IInv, StageInv
<1>5. r \in Loads => \A b \in B : b.slot = load[r].slot
  BY ConstantsAssumption DEF SlotsOf
<1>6. k.load = r /\ k.bids = B
  OBVIOUS
<1> HIDE DEF k
<1>7. AnswerInv'
  BY DEF IInv, AnswerInv, Unanswered
<1>8. CallerInv'
  BY <1>1, ThreadsDiffer DEF IInv, CallerInv
<1>9. WorkerInv'
  BY <1>1, ThreadsDiffer DEF IInv, WorkerInv
<1>10. StageInv'
  BY <1>3, <1>4, <1>6 DEF IInv, StageInv
<1>11. SlotInv'
  BY <1>1, <1>2, <1>3, <1>5, <1>6 DEF IInv, SlotInv
<1> QED
  BY <1>7, <1>8, <1>9, <1>10, <1>11

LEMMA ReplyInv ==
    ASSUME IInv, NEW r \in Requests, Reply(r)
    PROVE  AnswerInv' /\ CallerInv' /\ WorkerInv' /\ StageInv' /\ SlotInv'
<1>1. PICK S \in SUBSET SlotsOf(r) : \E offer \in [S -> Offers] :
         CdbResponseHandler(r, {BidFor(r, s, offer[s]) : s \in S})
  BY DEF Reply
<1>2. PICK offer \in [S -> Offers] :
         CdbResponseHandler(r, {BidFor(r, s, offer[s]) : s \in S})
  BY <1>1
<1> DEFINE B == {BidFor(r, s, offer[s]) : s \in S}
<1>3. \A b \in B : b.slot \in SlotsOf(r)
  BY DEF BidFor
<1>4. CdbResponseHandler(r, B)
  BY <1>2
<1>5. /\ call[r] = "sent"
      /\ frame[Session].op = "idle"
      /\ UNCHANGED << load, answers >>
  BY DEF Reply, Answerable
<1>6. \A q \in Loads : call[q] = "none" => call'[q] = "none"
  BY <1>5 DEF Reply, IInv, TypeOK, Requests
<1> HIDE DEF B
<1> QED
  BY <1>3, <1>4, <1>5, <1>6, CdbResponseHandlerInv

LEMMA NoContentInv ==
    ASSUME IInv, NEW r \in Requests, NoContent(r)
    PROVE  AnswerInv' /\ CallerInv' /\ WorkerInv' /\ StageInv' /\ SlotInv'
<1>1. /\ CdbResponseHandler(r, {})
      /\ call[r] = "sent"
      /\ UNCHANGED << load, answers >>
  BY DEF NoContent, Answerable
<1>2. \A q \in Loads : call[q] = "none" => call'[q] = "none"
  BY <1>1 DEF NoContent, IInv, TypeOK, Requests
<1> QED
  BY <1>1, <1>2, CdbResponseHandlerInv

LEMMA FailInv ==
    ASSUME IInv, NEW r \in Requests, Fail(r)
    PROVE  AnswerInv' /\ CallerInv' /\ WorkerInv' /\ StageInv' /\ SlotInv'
<1>1. /\ CdbResponseHandler(r, {})
      /\ call[r] \in {"sent", "failing"}
      /\ UNCHANGED << load, answers >>
  BY DEF Fail, Answerable
<1>2. \A q \in Loads : call[q] = "none" => call'[q] = "none"
  BY <1>1 DEF Fail, IInv, TypeOK, Requests
<1> QED
  BY <1>1, <1>2, CdbResponseHandlerInv

-----------------------------------------------------------------------------
(* The inductive invariant holds *)

LEMMA InitInv == Init => IInv
<1> SUFFICES ASSUME Init PROVE IInv
  OBVIOUS
<1>1. TypeOK
  BY InitType
<1>2. /\ \A l \in Loads : /\ load[l].stage = "idle"
                          /\ ~load[l].operation
                          /\ ~load[l].timer
                          /\ load[l].bid = NoBid
                          /\ answers[l] = << >>
                          /\ call[l] = "none"
      /\ \A t \in Threads : frame[t].op = "idle"
      /\ barrierQ = << >>
      /\ \A s \in Slots : cache[s] = NoBid
  BY DEF Init, Idle, Requests
<1>3. AnswerInv
  BY <1>2 DEF AnswerInv
<1>4. CallerInv
  BY <1>2, ThreadsDiffer DEF CallerInv
<1>5. WorkerInv
  BY <1>2, ThreadsDiffer DEF WorkerInv
<1>6. StageInv
  BY <1>2 DEF StageInv
<1>7. SlotInv
  BY <1>2 DEF SlotInv
<1> QED
  BY <1>1, <1>3, <1>4, <1>5, <1>6, <1>7 DEF IInv

LEMMA NextInv == IInv /\ [Next]_vars => IInv'
<1> SUFFICES ASSUME IInv, [Next]_vars
             PROVE  AnswerInv' /\ CallerInv' /\ WorkerInv' /\ StageInv' /\ SlotInv'
  BY NextType DEF IInv
<1> DEFINE Goal == AnswerInv' /\ CallerInv' /\ WorkerInv' /\ StageInv' /\ SlotInv'
<1>1. ASSUME NEW t \in AppThreads, NEW l \in Loads, LoadCdbBid(t, l) PROVE Goal
  BY <1>1, LoadCdbBidInv
<1>2. ASSUME NEW t \in Threads, CacheStep(t) PROVE Goal
  BY <1>2, GetBidInv, RemoveBidInv, IsSlotSilentInv, RereadSilenceInv, DropSilenceInv,
     NoteCachedInv DEF CacheStep
<1>3. ASSUME NEW l \in Loads, GetBidThenFetchBlock(l) \/ Operation(l) \/ TimerFires(l)
      PROVE  Goal
  BY <1>3, GetBidThenFetchBlockInv, OperationInv, TimerFiresInv
<1>4. ASSUME NEW post \in unsilenced, UnsilenceBlock(post) PROVE Goal
  BY <1>4, UnsilenceBlockInv
<1>5. ASSUME NEW k \in Block,
             \/ FallBackOnCache(k)
             \/ SilenceInTime(k)
             \/ BidInTime(k)
             \/ LateCompletion(k)
             \/ TimeoutAfterCompletion(k)
      PROVE  Goal
  BY <1>5, FallBackOnCacheInv, SilenceInTimeInv, BidInTimeInv, LateCompletionInv,
     TimeoutAfterCompletionInv
<1>6. ASSUME StoreLate PROVE Goal
  BY <1>6, StoreLateInv
<1>7. ASSUME NEW r \in Requests, SendCall(r) \/ Network(r) PROVE Goal
  BY <1>7, SendCallInv, ReplyInv, NoContentInv, FailInv, HttpErrorInv DEF Network
<1>8. ASSUME Register \/ RefreshConfig \/ Tick \/ UNCHANGED vars PROVE Goal
  BY <1>8, SetupInv, StutterInv
<1>9. TypeOK
  BY DEF IInv
<1> HIDE DEF Goal
<1>10. Goal
  BY <1>1, <1>2, <1>3, <1>4, <1>5, <1>6, <1>7, <1>8, <1>9, NextCases
<1> QED
  BY <1>10 DEF Goal

\* The strengthening of the safety properties below: who may still answer a load, and
\* which slot every bid on its way belongs to.
THEOREM InductiveInvariant == Spec => []IInv
  BY InitInv, NextInv, PTL DEF Spec

-----------------------------------------------------------------------------
(* What the callers see of a step *)

SameLoads ==
    \A l \in Loads : /\ load'[l].slot = load[l].slot
                     /\ load'[l].stage = "idle" <=> load[l].stage = "idle"

\* A caller makes its call.
Asks(l) ==
    /\ load[l].stage = "idle"
    /\ load'[l].stage # "idle"
    /\ load'[l].slot = load[l].slot
    /\ \A m \in Loads \ {l} : load'[m] = load[m]
    /\ UNCHANGED answers

\* A caller that waits gets its one answer.
Answers(l) ==
    /\ load[l].stage # "idle"
    /\ answers[l] = << >>
    /\ \E b \in Bid \cup {NoBid} :
          /\ b # NoBid => b.slot = load[l].slot
          /\ answers' = [answers EXCEPT ![l] = << b >>]
    /\ SameLoads

Unseen == SameLoads /\ UNCHANGED answers

ViewStep == Unseen \/ \E l \in Loads : Asks(l) \/ Answers(l)

\* An answer given while the load is unanswered is its only one.
LEMMA FirstAnswer ==
    ASSUME IInv, NEW l \in Loads, Unanswered(l), load[l].stage # "idle",
           NEW b \in Bid \cup {NoBid}, b # NoBid => b.slot = load[l].slot,
           Answer(l, b), SameLoads
    PROVE  Answers(l)
<1>1. answers[l] = << >>
  BY DEF IInv, AnswerInv
<1>2. Append(answers[l], b) = << b >>
  BY <1>1
<1>3. answers' = [answers EXCEPT ![l] = << b >>]
  BY <1>2 DEF Answer, IInv, TypeOK
<1> QED
  BY <1>1, <1>3 DEF Answers

\* A load that changes stage keeps its slot.
LEMMA SameLoadsStep ==
    ASSUME TypeOK, NEW l \in Loads, NEW x, load' = [load EXCEPT ![l] = x],
           x.slot = load[l].slot, x.stage # "idle", load[l].stage # "idle"
    PROVE  SameLoads
<1>1. /\ load'[l] = x
      /\ \A m \in Loads : m # l => load'[m] = load[m]
  BY LoadStep
<1> QED
  BY <1>1 DEF SameLoads

LEMMA LoadCdbBidView ==
    ASSUME IInv, NEW t \in AppThreads, NEW l \in Loads, LoadCdbBid(t, l)
    PROVE  ViewStep
<1> DEFINE x == [load[l] EXCEPT !.stage = "sync", !.live = cfg.live]
<1>0. TypeOK
  BY DEF IInv
<1>1. x.stage = "sync" /\ x.slot = load[l].slot
  BY <1>0, FrameLoads DEF Load
<1>2. load' = [load EXCEPT ![l] = x] /\ load[l].stage = "idle" /\ UNCHANGED answers
  BY DEF LoadCdbBid
<1> HIDE DEF x
<1>3. /\ load'[l] = x
      /\ \A m \in Loads : m # l => load'[m] = load[m]
  BY <1>0, <1>2, LoadStep
<1>4. Asks(l)
  BY <1>1, <1>2, <1>3 DEF Asks
<1> QED
  BY <1>4 DEF ViewStep

LEMMA AfterGetBidView ==
    ASSUME IInv, NEW t \in Threads, NEW l \in Loads, l = frame[t].load,
           frame[t].op \in {"get", "remove"}, NEW b, NEW consumed,
           NEW result \in Bid \cup {NoBid}, result # NoBid => result.slot = load[l].slot,
           AfterGetBid(t, l, b, consumed, result)
    PROVE  ViewStep
<1>0. TypeOK /\ load[l] \in Load
  BY FrameLoads DEF IInv
<1>1. Unanswered(l) /\ load[l].stage # "idle"
  BY ThreadsDiffer DEF IInv, CallerInv, WorkerInv, Unanswered
<1>2. CASE ~load[l].live
  <2> DEFINE x == [load[l] EXCEPT !.stage = "block", !.bid = b, !.consumed = consumed]
  <2>1. load' = [load EXCEPT ![l] = x] /\ UNCHANGED answers
    BY <1>2 DEF AfterGetBid
  <2>2. x.stage = "block" /\ x.slot = load[l].slot
    BY <1>0 DEF Load
  <2> HIDE DEF x
  <2>3. SameLoads
    BY <1>0, <1>1, <2>1, <2>2, SameLoadsStep
  <2> QED
    BY <2>1, <2>3 DEF ViewStep, Unseen
<1>3. CASE load[l].live
  <2> DEFINE stage == IF t = Barrier THEN "racing" ELSE "done"
             handled == t = Barrier
             x == [load[l] EXCEPT !.stage = stage, !.handled = handled]
  <2>1. load' = [load EXCEPT ![l] = x] /\ Answer(l, result)
    BY <1>3 DEF AfterGetBid
  <2>2. stage # "idle"
    OBVIOUS
  <2>3. x.stage = stage /\ x.slot = load[l].slot
    <3> HIDE DEF stage, handled
    <3> QED
      BY <1>0 DEF Load
  <2> HIDE DEF stage, handled, x
  <2>4. SameLoads
    BY <1>0, <1>1, <2>1, <2>2, <2>3, SameLoadsStep
  <2>5. Answers(l)
    BY <1>1, <2>1, <2>4, FirstAnswer
  <2> QED
    BY <2>5 DEF ViewStep
<1> QED
  BY <1>2, <1>3

LEMMA GetBidView ==
    ASSUME IInv, NEW t \in Threads, GetBid(t)
    PROVE  ViewStep
<1> DEFINE l == frame[t].load
           b == cache[load[l].slot]
<1>1. frame[t].op = "get" /\ l \in Loads
  BY DEF GetBid, IInv, TypeOK
<1>2. CASE Consumable(b)
  BY <1>2 DEF GetBid, ViewStep, Unseen, SameLoads
<1>3. CASE ~Consumable(b)
  <2>1. AfterGetBid(t, l, b, FALSE, NoBid)
    BY <1>3 DEF GetBid
  <2> HIDE DEF b
  <2> QED
    BY <1>1, <2>1, AfterGetBidView
<1> QED
  BY <1>2, <1>3

LEMMA RemoveBidView ==
    ASSUME IInv, NEW t \in Threads, RemoveBid(t)
    PROVE  ViewStep
<1> DEFINE l == frame[t].load
           result == frame[t].result
<1>1. /\ frame[t].op = "remove" /\ l \in Loads
      /\ result \in Bid \cup {NoBid}
      /\ result # NoBid => result.slot = load[l].slot
  BY DEF RemoveBid, IInv, TypeOK, SlotInv, Frame
<1>2. AfterGetBid(t, l, frame[t].bid, TRUE, result)
  BY DEF RemoveBid
<1> HIDE DEF result
<1> QED
  BY <1>1, <1>2, AfterGetBidView

LEMMA SlotIsNotSilentView ==
    ASSUME IInv, NEW t \in Threads, NEW l \in Loads, l = frame[t].load,
           frame[t].op \in {"silent", "drop"}, SlotIsNotSilent(t, l), UNCHANGED answers
    PROVE  ViewStep
<1>0. TypeOK /\ load[l] \in Load
  BY FrameLoads DEF IInv
<1>1. CASE t = Barrier
  BY <1>1 DEF SlotIsNotSilent, ViewStep, Unseen, SameLoads
<1>2. CASE t # Barrier
  <2> DEFINE x == [load[l] EXCEPT !.stage = "racing", !.operation = TRUE, !.timer = TRUE]
  <2>1. x.stage = "racing" /\ x.slot = load[l].slot
    BY <1>0 DEF Load
  <2>2. load' = [load EXCEPT ![l] = x]
    BY <1>2 DEF SlotIsNotSilent
  <2>3. load[l].stage = "sync"
    BY <1>2, ThreadsDiffer DEF IInv, CallerInv, WorkerInv
  <2> HIDE DEF x
  <2>4. SameLoads
    BY <1>0, <2>1, <2>2, <2>3, SameLoadsStep
  <2> QED
    BY <2>4 DEF ViewStep, Unseen
<1> QED
  BY <1>1, <1>2

LEMMA IsSlotSilentView ==
    ASSUME IInv, NEW t \in Threads, IsSlotSilent(t)
    PROVE  ViewStep
<1> DEFINE l == frame[t].load
<1>1. frame[t].op = "silent" /\ l \in Loads /\ TypeOK /\ load[l] \in Load
  BY DEF IsSlotSilent, IInv, TypeOK
<1>2. CASE SlotIsNotSilent(t, l) /\ UNCHANGED answers
  BY <1>1, <1>2, SlotIsNotSilentView
<1>3. CASE UNCHANGED << load, answers >>
  BY <1>3 DEF ViewStep, Unseen, SameLoads
<1>4. CASE /\ t # Barrier
           /\ load' = [load EXCEPT ![l].stage = "done"]
           /\ Answer(l, NoBid)
  <2> DEFINE x == [load[l] EXCEPT !.stage = "done"]
  <2>1. x.stage = "done" /\ x.slot = load[l].slot /\ load' = [load EXCEPT ![l] = x]
    BY <1>1, <1>4 DEF Load
  <2>2. load[l].stage = "sync"
    BY <1>1, <1>4, ThreadsDiffer DEF IInv, CallerInv, WorkerInv
  <2> HIDE DEF x
  <2>3. SameLoads
    BY <1>1, <2>1, <2>2, SameLoadsStep
  <2>4. Answers(l)
    BY <1>1, <1>4, <2>2, <2>3, FirstAnswer DEF Unanswered
  <2> QED
    BY <1>1, <2>4 DEF ViewStep
<1> QED
  BY <1>2, <1>3, <1>4 DEF IsSlotSilent

LEMMA GetBidThenFetchBlockView ==
    ASSUME IInv, NEW l \in Loads, GetBidThenFetchBlock(l)
    PROVE  ViewStep
<1> DEFINE x == [load[l] EXCEPT !.stage = "done"]
           b == load[l].bid
<1>0. TypeOK /\ load[l] \in Load
  BY FrameLoads DEF IInv
<1>1. /\ x.stage = "done" /\ x.slot = load[l].slot
      /\ b \in Bid \cup {NoBid}
  BY <1>0 DEF Load
<1>2. load' = [load EXCEPT ![l] = x] /\ load[l].stage = "block" /\ Answer(l, b)
  BY DEF GetBidThenFetchBlock
<1>3. b # NoBid => b.slot = load[l].slot
  BY <1>2 DEF IInv, SlotInv
<1> HIDE DEF x, b
<1>4. SameLoads
  BY <1>0, <1>1, <1>2, SameLoadsStep
<1>5. Answers(l)
  BY <1>1, <1>2, <1>3, <1>4, FirstAnswer DEF Unanswered
<1> QED
  BY <1>5 DEF ViewStep

LEMMA PostedBlockView ==
    ASSUME IInv, NEW l \in Loads, Operation(l) \/ TimerFires(l)
    PROVE  ViewStep
<1> DEFINE x == [load[l] EXCEPT !.operation = FALSE]
           y == [load[l] EXCEPT !.timer = FALSE]
<1>0. TypeOK /\ load[l] \in Load
  BY FrameLoads DEF IInv
<1>1. load[l].stage = "racing" /\ UNCHANGED answers
  BY DEF Operation, TimerFires, IInv, StageInv
<1>2. /\ x.slot = load[l].slot /\ x.stage = "racing"
      /\ y.slot = load[l].slot /\ y.stage = "racing"
  BY <1>0, <1>1 DEF Load
<1>3. load' = [load EXCEPT ![l] = x] \/ load' = [load EXCEPT ![l] = y]
  BY DEF Operation, TimerFires
<1> HIDE DEF x, y
<1>4. SameLoads
  BY <1>0, <1>1, <1>2, <1>3, SameLoadsStep
<1> QED
  BY <1>1, <1>4 DEF ViewStep, Unseen

\* The barrier queue answers the load l and sets its handled flag.
LEMMA BarrierAnswerView ==
    ASSUME IInv, NEW l \in Loads, load[l].stage = "racing", ~load[l].handled,
           load' = [load EXCEPT ![l].handled = TRUE],
           NEW b \in Bid \cup {NoBid}, b # NoBid => b.slot = load[l].slot, Answer(l, b)
    PROVE  ViewStep
<1> DEFINE x == [load[l] EXCEPT !.handled = TRUE]
<1>0. TypeOK /\ load[l] \in Load
  BY FrameLoads DEF IInv
<1>1. x.stage = "racing" /\ x.slot = load[l].slot
  BY <1>0 DEF Load
<1>2. load' = [load EXCEPT ![l] = x]
  BY <1>0 DEF TypeOK
<1> HIDE DEF x
<1>3. SameLoads
  BY <1>0, <1>1, <1>2, SameLoadsStep
<1>4. Answers(l)
  BY <1>3, FirstAnswer DEF Unanswered
<1> QED
  BY <1>4 DEF ViewStep

LEMMA BidInTimeView ==
    ASSUME IInv, NEW k, BidInTime(k)
    PROVE  ViewStep
<1>1. PICK b \in Usable(k.bids) : Answer(k.load, b)
  BY DEF BidInTime
<1>2. /\ NextBlock(k)
      /\ ~load[k.load].handled
      /\ load' = [load EXCEPT ![k.load].handled = TRUE]
  BY DEF BidInTime, Handled
<1>3. /\ k \in Block /\ k.load \in Loads
      /\ load[k.load].stage = "racing"
      /\ \A c \in k.bids : c.slot = load[k.load].slot
  BY <1>2, NextBlockInv
<1>4. b \in Bid /\ b.slot = load[k.load].slot
  BY <1>3 DEF Usable, Block
<1> QED
  BY <1>1, <1>2, <1>3, <1>4, BarrierAnswerView

LEMMA NoteCachedView ==
    ASSUME IInv, NEW t \in Threads, NoteCached(t)
    PROVE  ViewStep
<1> DEFINE l == frame[t].load
<1>1. CASE frame[t].op = "noteSilence"
  <2>1. t = Barrier
    BY <1>1, ThreadsDiffer DEF IInv, CallerInv, WorkerInv
  <2>2. l \in Loads /\ load[l].stage = "racing" /\ ~load[l].handled
    BY <1>1, <2>1, ThreadsDiffer, FrameLoads DEF IInv, WorkerInv
  <2>3. load' = [load EXCEPT ![l].handled = TRUE] /\ Answer(l, NoBid)
    BY <1>1 DEF NoteCached
  <2> QED
    BY <2>2, <2>3, BarrierAnswerView
<1>2. CASE frame[t].op = "note"
  BY <1>2 DEF NoteCached, ViewStep, Unseen, SameLoads
<1> QED
  BY <1>1, <1>2 DEF NoteCached

\* Steps the callers do not see.
LEMMA UnseenSteps ==
    ASSUME UNCHANGED << load, answers >>
    PROVE  ViewStep
  BY DEF ViewStep, Unseen, SameLoads

LEMMA NextView == IInv /\ [Next]_vars => ViewStep
<1> SUFFICES ASSUME IInv, [Next]_vars PROVE ViewStep
  OBVIOUS
<1>0. TypeOK
  BY DEF IInv
<1>1. ASSUME NEW t \in AppThreads, NEW l \in Loads, LoadCdbBid(t, l) PROVE ViewStep
  BY <1>1, LoadCdbBidView
<1>2. ASSUME NEW t \in Threads, CacheStep(t) PROVE ViewStep
  <2>1. CASE RereadSilence(t)
    BY <2>1, UnseenSteps DEF RereadSilence
  <2>2. CASE DropSilence(t)
    <3>1. /\ frame[t].op = "drop" /\ frame[t].load \in Loads
          /\ SlotIsNotSilent(t, frame[t].load) /\ UNCHANGED answers
      BY <1>0, <2>2, FrameLoads DEF DropSilence
    <3> QED
      BY <3>1, SlotIsNotSilentView
  <2> QED
    BY <1>2, <2>1, <2>2, GetBidView, RemoveBidView, IsSlotSilentView, NoteCachedView
       DEF CacheStep
<1>3. ASSUME NEW l \in Loads, GetBidThenFetchBlock(l) \/ Operation(l) \/ TimerFires(l)
      PROVE  ViewStep
  BY <1>3, GetBidThenFetchBlockView, PostedBlockView
<1>4. ASSUME NEW post \in unsilenced, UnsilenceBlock(post) PROVE ViewStep
  BY <1>4, UnseenSteps DEF UnsilenceBlock
<1>5. ASSUME NEW k \in Block,
             \/ FallBackOnCache(k)
             \/ SilenceInTime(k)
             \/ BidInTime(k)
             \/ LateCompletion(k)
             \/ TimeoutAfterCompletion(k)
      PROVE  ViewStep
  BY <1>5, BidInTimeView, UnseenSteps
     DEF FallBackOnCache, SilenceInTime, LateCompletion, TimeoutAfterCompletion
<1>6. ASSUME StoreLate PROVE ViewStep
  BY <1>6, UnseenSteps DEF StoreLate
<1>7. ASSUME NEW r \in Requests, SendCall(r) \/ Network(r) PROVE ViewStep
  BY <1>7, UnseenSteps DEF SendCall, Network, Reply, NoContent, Fail, HttpError
<1>8. ASSUME Register \/ RefreshConfig \/ Tick \/ UNCHANGED vars PROVE ViewStep
  BY <1>8, UnseenSteps DEF Register, RefreshConfig, Tick, vars
<1> QED
  BY <1>0, <1>1, <1>2, <1>3, <1>4, <1>5, <1>6, <1>7, <1>8, NextCases

-----------------------------------------------------------------------------
(* What follows for the callers *)

\* No response handler is called twice, for any number of loads, threads and ad units.
THEOREM AtMostOnce == Spec => []AnsweredAtMostOnce
<1>1. Init => AnsweredAtMostOnce
  BY DEF Init, AnsweredAtMostOnce
<1>2. IInv /\ [Next]_vars /\ AnsweredAtMostOnce => AnsweredAtMostOnce'
  <2> SUFFICES ASSUME IInv, ViewStep, AnsweredAtMostOnce PROVE AnsweredAtMostOnce'
    BY NextView
  <2>1. CASE UNCHANGED answers
    BY <2>1 DEF AnsweredAtMostOnce
  <2>2. ASSUME NEW l \in Loads, Answers(l) PROVE AnsweredAtMostOnce'
    <3>1. PICK b \in Bid \cup {NoBid} : answers' = [answers EXCEPT ![l] = << b >>]
      BY <2>2 DEF Answers
    <3>2. answers \in [Loads -> Seq(Bid \cup {NoBid})]
      BY DEF IInv, TypeOK
    <3>3. Len(<< b >>) <= 1
      OBVIOUS
    <3>4. \A m \in Loads : answers'[m] = << b >> \/ answers'[m] = answers[m]
      BY <3>1, <3>2
    <3> QED
      BY <3>3, <3>4 DEF AnsweredAtMostOnce
  <2> QED
    BY <2>1, <2>2 DEF ViewStep, Unseen, Asks
<1> QED
  BY <1>1, <1>2, InductiveInvariant, PTL DEF Spec

LEMMA ImpressionOutcome ==
    ASSUME NEW s \in Slots, NEW b \in Bid \cup {NoBid}, b # NoBid => b.slot = s
    PROVE  Impression(b) \in Contract!Outcomes(s)
<1>1. CASE b = NoBid
  BY <1>1 DEF Impression, Contract!Outcomes
<1>2. CASE b # NoBid
  <2>1. b.req \in Requests /\ b.slot = s
    BY <1>2 DEF Bid
  <2>2. << b.req, b.slot >> \in Ids
    BY <2>1 DEF Ids
  <2> QED
    BY <1>2, <2>1, <2>2 DEF Impression, Contract!Outcomes
<1> QED
  BY <1>1, <1>2

LEMMA InitContract == Init => Contract!Init
<1> SUFFICES ASSUME Init PROVE Contract!Init
  OBVIOUS
<1>1. TypeOK
  BY InitType
<1>2. [l \in Loads |-> load[l].slot] \in [Loads -> Slots]
  BY <1>1 DEF TypeOK, Load
<1>3. {l \in Loads : load[l].stage # "idle"} = {}
  BY DEF Init
<1>4. [l \in Loads |-> [i \in DOMAIN answers[l] |-> Impression(answers[l][i])]]
         = [l \in Loads |-> << >>]
  <2>1. ASSUME NEW l \in Loads
        PROVE  [i \in DOMAIN answers[l] |-> Impression(answers[l][i])] = << >>
    <3>1. answers[l] = << >>
      BY DEF Init
    <3> QED
      BY <3>1
  <2> QED
    BY <2>1
<1> QED
  BY <1>2, <1>3, <1>4 DEF Contract!Init

\* The loads seen through the refinement mapping.
Wanted == [l \in Loads |-> load[l].slot]
Asked == {l \in Loads : load[l].stage # "idle"}
Given == [l \in Loads |-> [i \in DOMAIN answers[l] |-> Impression(answers[l][i])]]

LEMMA NextContract == IInv /\ [Next]_vars => [Contract!Next]_(Contract!vars)
<1> SUFFICES ASSUME IInv, ViewStep
             PROVE  Contract!Next \/ UNCHANGED << Wanted, Asked, Given >>
  BY NextView DEF Contract!vars, Wanted, Asked, Given
<1>0. TypeOK
  BY DEF IInv
<1>1. CASE Unseen
  BY <1>1 DEF Unseen, SameLoads, Wanted, Asked, Given
<1>2. ASSUME NEW l \in Loads, Asks(l) PROVE Contract!Next
  <2>1. UNCHANGED << Wanted, Given >>
    BY <1>2 DEF Asks, Wanted, Given
  <2>2. l \notin Asked /\ Asked' = Asked \cup {l}
    BY <1>2 DEF Asks, Asked
  <2>3. Contract!Ask(l)
    BY <2>1, <2>2 DEF Contract!Ask, Wanted, Asked, Given
  <2> QED
    BY <2>3 DEF Contract!Next
<1>3. ASSUME NEW l \in Loads, Answers(l) PROVE Contract!Next
  <2>1. UNCHANGED << Wanted, Asked >> /\ l \in Asked
    BY <1>3 DEF Answers, SameLoads, Wanted, Asked
  <2>2. PICK b \in Bid \cup {NoBid} :
           /\ b # NoBid => b.slot = load[l].slot
           /\ answers' = [answers EXCEPT ![l] = << b >>]
    BY <1>3 DEF Answers
  <2>3. Given[l] = << >>
    BY <1>3 DEF Answers, Given
  <2>4. Given' = [Given EXCEPT ![l] = << Impression(b) >>]
    <3>1. /\ answers'[l] = << b >>
          /\ \A m \in Loads : m # l => answers'[m] = answers[m]
      BY <1>0, <2>2 DEF TypeOK
    <3>2. Given'[l] = << Impression(b) >>
      BY <3>1 DEF Given, Impression
    <3>3. \A m \in Loads : m # l => Given'[m] = Given[m]
      BY <3>1 DEF Given, Impression
    <3>4. /\ Given' = [m \in Loads |-> Given'[m]]
          /\ Given = [m \in Loads |-> Given[m]]
      BY DEF Given
    <3> QED
      BY <3>2, <3>3, <3>4
  <2>5. Impression(b) \in Contract!Outcomes(Wanted[l])
    <3>1. load[l].slot \in Slots
      BY <1>0 DEF TypeOK, Load
    <3> QED
      BY <2>2, <3>1, ImpressionOutcome DEF Wanted
  <2>6. Contract!Respond(l)
    BY <2>1, <2>3, <2>4, <2>5 DEF Contract!Respond, Wanted, Asked, Given
  <2> QED
    BY <2>6 DEF Contract!Next
<1> QED
  BY <1>1, <1>2, <1>3 DEF ViewStep

\* The bid manager implements the contract its callers are written against, whatever
\* the order of CDB's answers, of the time-outs and of the blocks of every queue.
THEOREM Implementation == Spec => KeepsContract
  BY InitContract, NextContract, InductiveInvariant, PTL DEF Spec, KeepsContract, Contract!Spec

-----------------------------------------------------------------------------
(* What is handed over is gone *)

\* A bid is coming while it is in an answer of CDB that waits for the barrier queue, or
\* that its thread holds and has not stored.
PreStore == {"silent", "unsilence", "drop", "store"}
InQueue(b) == \E i \in DOMAIN barrierQ : b \in barrierQ[i].bids
InHand(b) == frame[Barrier].op \in PreStore /\ b \in frame[Barrier].arrived
Coming(b) == InQueue(b) \/ InHand(b)

\* It is reached once a caller may have it.
Cached(b) == \E s \in Slots : cache[s] = b
BeingRead(b) == \E t \in Threads : frame[t].op = "remove" /\ frame[t].bid = b
Captured(b) == \E l \in Loads : load[l].stage = "block" /\ load[l].bid = b
AlreadyGiven(b) == \E l \in Loads : \E i \in DOMAIN answers[l] : answers[l][i] = b
Reached(b) == Cached(b) \/ BeingRead(b) \/ Captured(b) \/ AlreadyGiven(b)

\* It is handed over when a caller has it, or will without another look at the cache.
Handed(b) ==
    \E l \in Loads :
        \/ load[l].stage = "block" /\ load[l].bid = b /\ ~InSilenceMode(b)
        \/ \E i \in DOMAIN answers[l] :
              answers[l][i] = b /\ (load[l].live \/ ~InSilenceMode(b))

\* Nothing comes back to a CDB call that was answered, and a call is made once.
ArrivalInv ==
    /\ \A b \in Bid : Coming(b) \/ Reached(b) => call[b.req] = "done"
    /\ \A b \in Bid : Coming(b) => ~Reached(b)
CallInv ==
    /\ \A l \in Loads : load[l].operation => call[l] = "none"
    /\ setup = "none" => call[AtInit] = "none"

\* A bid is coming once.
OnceInv ==
    /\ \A i, j \in DOMAIN barrierQ : i # j => barrierQ[i].bids \cap barrierQ[j].bids = {}
    /\ \A i \in DOMAIN barrierQ : frame[Barrier].op \in PreStore
                                     => barrierQ[i].bids \cap frame[Barrier].arrived = {}

\* A thread about to empty a slot returns what it read, or nothing.
WellRead(f) == f.result # NoBid => f.result = f.bid /\ ~InSilenceMode(f.result)
ReadInv == \A t \in Threads : frame[t].op = "remove" => WellRead(frame[t])

GoneInv == \A b \in Bid : Handed(b) => ~Cached(b)

\* A live load is given no silence.
LiveAnswerInv ==
    \A l \in Loads : load[l].live =>
        \A i \in DOMAIN answers[l] : answers[l][i] # NoBid => ~InSilenceMode(answers[l][i])

PassageInv == ArrivalInv /\ CallInv /\ OnceInv /\ ReadInv /\ GoneInv /\ LiveAnswerInv

\* What a step may add to a place: members of B.
CacheGains(B) ==
    \A s \in Slots : cache'[s] # NoBid => cache'[s] = cache[s] \/ cache'[s] \in B
ReadsGain(B) ==
    \A t \in Threads : frame'[t].op = "remove" =>
        \/ WellRead(frame'[t]) /\ frame'[t].bid \in B
        \/ frame'[t] = frame[t]
CapturesGain(B) ==
    \A l \in Loads : load'[l].stage = "block" =>
        \/ load'[l].bid \in B \cup {NoBid}
        \/ load[l].stage = "block" /\ load'[l].bid = load[l].bid
AnswersGain(B) ==
    \A l \in Loads : \A i \in DOMAIN answers'[l] :
        \/ answers'[l][i] \in B \cup {NoBid}
        \/ i \in DOMAIN answers[l] /\ answers'[l][i] = answers[l][i]
LiveKept == \A l \in Loads : load'[l].live = load[l].live \/ answers'[l] = << >>
CallsKept == \A r \in Requests : call[r] = "done" => call'[r] = "done"
HandKept ==
    frame'[Barrier].op \in PreStore
       => frame[Barrier].op \in PreStore /\ frame'[Barrier].arrived = frame[Barrier].arrived

LEMMA ReachedStep ==
    ASSUME NEW B, CacheGains(B), ReadsGain(B), CapturesGain(B), AnswersGain(B),
           NEW b \in Bid, Reached(b)'
    PROVE  Reached(b) \/ b \in B
<1>0. b # NoBid
  BY ConstantsAssumption
<1>1. CASE Cached(b)'
  BY <1>0, <1>1 DEF Cached, CacheGains, Reached
<1>2. CASE BeingRead(b)'
  BY <1>2 DEF BeingRead, ReadsGain, Reached
<1>3. CASE Captured(b)'
  BY <1>0, <1>3 DEF Captured, CapturesGain, Reached
<1>4. CASE AlreadyGiven(b)'
  BY <1>0, <1>4 DEF AlreadyGiven, AnswersGain, Reached
<1> QED
  BY <1>1, <1>2, <1>3, <1>4 DEF Reached

LEMMA HandedIsReached ==
    ASSUME NEW b, Handed(b) PROVE Reached(b)
  BY DEF Handed, Reached, Captured, AlreadyGiven

\* A step after which the bids of N have arrived and those of B are within reach.
LEMMA PassageStep ==
    ASSUME ArrivalInv, GoneInv, CallsKept, NEW N, NEW B,
           \A b \in N : call[b.req] # "done" /\ call'[b.req] = "done",
           \A b \in Bid : Coming(b)' => Coming(b) \/ b \in N,
           \A b \in B : Reached(b) \/ ((Coming(b) \/ b \in N) /\ ~Coming(b)'),
           CacheGains(B), ReadsGain(B), CapturesGain(B), AnswersGain(B),
           \A b \in Bid : Handed(b)' => Handed(b) \/ ~Cached(b)',
           \A b \in Bid : Cached(b)' => Cached(b) \/ Coming(b) \/ b \in N
    PROVE  ArrivalInv' /\ GoneInv'
<1>1. ASSUME NEW b \in Bid PROVE b.req \in Requests
  BY DEF Bid
<1>2. ASSUME NEW b \in Bid, Reached(b)'
      PROVE  Reached(b) \/ ((Coming(b) \/ b \in N) /\ ~Coming(b)')
  BY <1>2, ReachedStep
<1>3. ASSUME NEW b \in Bid, Coming(b)' \/ Reached(b)' PROVE call'[b.req] = "done"
  BY <1>1, <1>2, <1>3 DEF ArrivalInv, CallsKept
<1>4. ASSUME NEW b \in Bid, Coming(b)', Reached(b)' PROVE FALSE
  BY <1>2, <1>4 DEF ArrivalInv
<1>5. ASSUME NEW b \in Bid, Handed(b)', Cached(b)' PROVE FALSE
  <2>1. Handed(b) /\ Reached(b)
    BY <1>5, HandedIsReached
  <2> QED
    BY <1>5, <2>1 DEF ArrivalInv, GoneInv
<1> QED
  BY <1>3, <1>4, <1>5 DEF ArrivalInv, GoneInv

LEMMA CachedStep ==
    ASSUME NEW B, CacheGains(B), NEW b \in Bid, Cached(b)'
    PROVE  Cached(b) \/ b \in B
  BY ConstantsAssumption DEF Cached, CacheGains

LEMMA GainsMore ==
    ASSUME NEW B, CacheGains({}) \/ CacheGains(B), ReadsGain({}) \/ ReadsGain(B),
           CapturesGain({}) \/ CapturesGain(B), AnswersGain({}) \/ AnswersGain(B)
    PROVE  CacheGains(B) /\ ReadsGain(B) /\ CapturesGain(B) /\ AnswersGain(B)
<1>1. CacheGains(B)
  BY DEF CacheGains
<1>2. ReadsGain(B)
  BY DEF ReadsGain
<1>3. CapturesGain(B)
  BY DEF CapturesGain
<1>4. AnswersGain(B)
  BY DEF AnswersGain
<1> QED
  BY <1>1, <1>2, <1>3, <1>4

LEMMA ReadInvStep ==
    ASSUME ReadInv, NEW B, ReadsGain(B)
    PROVE  ReadInv'
  BY DEF ReadInv, ReadsGain, WellRead, InSilenceMode

LEMMA LiveAnswerStep ==
    ASSUME LiveAnswerInv, NEW B, AnswersGain(B), \A b \in B : ~InSilenceMode(b), LiveKept
    PROVE  LiveAnswerInv'
  BY DEF LiveAnswerInv, AnswersGain, LiveKept, InSilenceMode

LEMMA HandedStep ==
    ASSUME CapturesGain({}), AnswersGain({}), LiveKept, NEW b \in Bid, Handed(b)'
    PROVE  Handed(b)
<1>0. b # NoBid
  BY ConstantsAssumption
<1> QED
  BY <1>0 DEF Handed, CapturesGain, AnswersGain, LiveKept, InSilenceMode

\* A step that hands over nothing.
LEMMA QuietPassage ==
    ASSUME PassageInv, CallsKept, NEW N, NEW B,
           \A b \in N : call[b.req] # "done" /\ call'[b.req] = "done",
           \A b \in Bid : Coming(b)' => Coming(b) \/ b \in N,
           \A b \in B : (Coming(b) \/ b \in N) /\ ~Coming(b)',
           CacheGains(B), ReadsGain({}), CapturesGain({}), AnswersGain({}), LiveKept
    PROVE  ArrivalInv' /\ GoneInv' /\ ReadInv' /\ LiveAnswerInv'
<1>1. CacheGains(B) /\ ReadsGain(B) /\ CapturesGain(B) /\ AnswersGain(B)
  BY GainsMore
<1>2. \A b \in Bid : Handed(b)' => Handed(b)
  BY HandedStep
<1>3. \A b \in Bid : Cached(b)' => Cached(b) \/ Coming(b) \/ b \in N
  BY CachedStep
<1>4. ArrivalInv' /\ GoneInv'
  BY <1>1, <1>2, <1>3, PassageStep DEF PassageInv
<1>5. ReadInv'
  BY ReadInvStep DEF PassageInv
<1>6. LiveAnswerInv'
  BY LiveAnswerStep DEF PassageInv
<1> QED
  BY <1>4, <1>5, <1>6

\* The barrier queue as it is, longer by a block, shorter by one.
LEMMA SameQueue ==
    ASSUME OnceInv, barrierQ' = barrierQ, HandKept
    PROVE  /\ OnceInv'
           /\ \A b \in Bid : Coming(b)' => Coming(b)
<1>1. OnceInv'
  BY DEF OnceInv, HandKept
<1>2. ASSUME NEW b \in Bid, Coming(b)' PROVE Coming(b)
  BY <1>2 DEF Coming, InQueue, InHand, HandKept
<1> QED
  BY <1>1, <1>2

LEMMA LongerQueue ==
    ASSUME TypeOK, OnceInv, NEW k \in Block, barrierQ' = Append(barrierQ, k), HandKept,
           \A b \in k.bids : ~Coming(b)
    PROVE  /\ OnceInv'
           /\ \A b \in Bid : Coming(b)' => Coming(b) \/ b \in k.bids
<1>0. barrierQ \in Seq(Block)
  BY DEF TypeOK
<1>1. /\ DOMAIN barrierQ' = DOMAIN barrierQ \cup {Len(barrierQ) + 1}
      /\ barrierQ'[Len(barrierQ) + 1] = k
      /\ \A i \in DOMAIN barrierQ : barrierQ'[i] = barrierQ[i] /\ i # Len(barrierQ) + 1
  BY <1>0
<1>2. \A i \in DOMAIN barrierQ : barrierQ[i].bids \cap k.bids = {}
  BY DEF Coming, InQueue
<1>3. frame[Barrier].op \in PreStore => k.bids \cap frame[Barrier].arrived = {}
  BY DEF Coming, InHand
<1>4. OnceInv'
  <2>1. \A i, j \in DOMAIN barrierQ' : i # j => barrierQ'[i].bids \cap barrierQ'[j].bids = {}
    BY <1>1, <1>2 DEF OnceInv
  <2>2. \A i \in DOMAIN barrierQ' : frame'[Barrier].op \in PreStore
                                     => barrierQ'[i].bids \cap frame'[Barrier].arrived = {}
    BY <1>1, <1>3 DEF OnceInv, HandKept
  <2> QED
    BY <2>1, <2>2 DEF OnceInv
<1>5. ASSUME NEW b \in Bid, Coming(b)' PROVE Coming(b) \/ b \in k.bids
  BY <1>1, <1>5 DEF Coming, InQueue, InHand, HandKept
<1> QED
  BY <1>4, <1>5

LEMMA ShorterQueue ==
    ASSUME TypeOK, OnceInv, NEW k, NextBlock(k),
           frame'[Barrier].op \in PreStore => frame'[Barrier].arrived = k.bids
    PROVE  /\ OnceInv'
           /\ \A b \in Bid : Coming(b)' => Coming(b)
           /\ \A b \in k.bids : Coming(b)
           /\ frame'[Barrier].op \notin PreStore => \A b \in k.bids : ~Coming(b)'
<1>0. /\ barrierQ \in Seq(Block) /\ barrierQ # << >>
      /\ k = Head(barrierQ) /\ barrierQ' = Tail(barrierQ)
  BY DEF TypeOK, NextBlock
<1>1. /\ 1 \in DOMAIN barrierQ /\ k = barrierQ[1]
      /\ \A i \in DOMAIN barrierQ' : /\ i + 1 \in DOMAIN barrierQ /\ i + 1 # 1
                                     /\ barrierQ'[i] = barrierQ[i + 1]
      /\ \A i, j \in DOMAIN barrierQ' : i # j => i + 1 # j + 1
  BY <1>0
<1>2. \A i \in DOMAIN barrierQ' : barrierQ'[i].bids \cap k.bids = {}
  BY <1>1 DEF OnceInv
<1>3. OnceInv'
  <2>1. \A i, j \in DOMAIN barrierQ' : i # j => barrierQ'[i].bids \cap barrierQ'[j].bids = {}
    BY <1>1 DEF OnceInv
  <2> QED
    BY <1>2, <2>1 DEF OnceInv
<1>4. \A b \in k.bids : Coming(b)
  BY <1>1 DEF Coming, InQueue
<1>5. ASSUME NEW b \in Bid, Coming(b)' PROVE Coming(b)
  BY <1>1, <1>4, <1>5 DEF Coming, InQueue, InHand
<1>6. ASSUME frame'[Barrier].op \notin PreStore, NEW b \in k.bids PROVE ~Coming(b)'
  BY <1>2, <1>6 DEF Coming, InQueue, InHand
<1> QED
  BY <1>3, <1>4, <1>5, <1>6

\* Nothing added to a place, in the forms in which the actions say so.
LEMMA SameCache == cache' = cache => CacheGains({})
  BY DEF CacheGains
LEMMA SameFrames == frame' = frame => ReadsGain({}) /\ HandKept
  BY DEF ReadsGain, HandKept
LEMMA SameLoadsGain ==
    ASSUME load' = load PROVE CapturesGain({}) /\ LiveKept
<1>1. CapturesGain({})
  BY DEF CapturesGain
<1>2. LiveKept
  BY DEF LiveKept
<1> QED
  BY <1>1, <1>2
LEMMA SameAnswers == answers' = answers => AnswersGain({})
  BY DEF AnswersGain

\* A thread goes where it empties no slot.
LEMMA MoveGain ==
    ASSUME TypeOK, NEW t \in Threads, NEW f, frame' = [frame EXCEPT ![t] = f],
           f.op # "remove"
    PROVE  ReadsGain({})
<1>1. frame'[t] = f /\ \A u \in Threads : u # t => frame'[u] = frame[u]
  BY FrameStep
<1> QED
  BY <1>1 DEF ReadsGain

LEMMA MoveHand ==
    ASSUME TypeOK, NEW t \in Threads, NEW f, frame' = [frame EXCEPT ![t] = f],
           t = Barrier /\ f.op \in PreStore
              => frame[t].op \in PreStore /\ f.arrived = frame[t].arrived
    PROVE  HandKept
<1>1. frame'[t] = f /\ \A u \in Threads : u # t => frame'[u] = frame[u]
  BY FrameStep
<1> QED
  BY <1>1, ThreadsDiffer DEF HandKept

\* A load changes without a block of getBidThenFetch being posted.
LEMMA LoadGain ==
    ASSUME TypeOK, NEW l \in Loads, NEW x, load' = [load EXCEPT ![l] = x],
           x.stage # "block", x.live = load[l].live
    PROVE  CapturesGain({}) /\ LiveKept
<1>1. load'[l] = x /\ \A m \in Loads : m # l => load'[m] = load[m]
  BY LoadStep
<1>2. CapturesGain({})
  BY <1>1 DEF CapturesGain
<1>3. LiveKept
  BY <1>1 DEF LiveKept
<1> QED
  BY <1>2, <1>3

LEMMA AnswerGain ==
    ASSUME TypeOK, NEW l \in Loads, NEW b, Answer(l, b)
    PROVE  AnswersGain({b})
<1>1. answers'[l] = Append(answers[l], b) /\ \A m \in Loads : m # l => answers'[m] = answers[m]
  BY AnswerStep
<1>2. answers[l] \in Seq(Bid \cup {NoBid})
  BY DEF TypeOK
<1>3. \A i \in DOMAIN answers'[l] :
          answers'[l][i] = b \/ (i \in DOMAIN answers[l] /\ answers'[l][i] = answers[l][i])
  <2>1. DOMAIN Append(answers[l], b) = 1 .. (Len(answers[l]) + 1)
    BY <1>2
  <2>2. \A i \in 1 .. (Len(answers[l]) + 1) :
           Append(answers[l], b)[i] = IF i = Len(answers[l]) + 1 THEN b ELSE answers[l][i]
    BY <1>2
  <2> QED
    BY <1>1, <1>2, <2>1, <2>2
<1> QED
  BY <1>1, <1>3 DEF AnswersGain

LEMMA NoAnswerGain ==
    ASSUME TypeOK, NEW l \in Loads, Answer(l, NoBid)
    PROVE  AnswersGain({})
<1>1. AnswersGain({NoBid})
  BY AnswerGain
<1> QED
  BY <1>1 DEF AnswersGain

LEMMA EmptiedGain ==
    ASSUME TypeOK, NEW s \in Slots, cache' = Emptied(s)
    PROVE  CacheGains({})
  BY EmptiedStep DEF CacheGains

LEMMA SetBidsGain ==
    ASSUME NEW B, SetBids(B)
    PROVE  CacheGains(B)
  BY DEF SetBids, CacheGains

\* The CDB calls: none moves, or a load changes, or one call moves.
LEMMA SameCalls ==
    ASSUME CallInv, UNCHANGED << call, setup, load >>
    PROVE  CallInv' /\ CallsKept
  BY DEF CallInv, CallsKept

LEMMA LoadCalls ==
    ASSUME TypeOK, CallInv, UNCHANGED << call, setup >>, NEW l \in Loads, NEW x,
           load' = [load EXCEPT ![l] = x],
           x.operation => load[l].operation \/ call[l] = "none"
    PROVE  CallInv' /\ CallsKept
<1>1. load'[l] = x /\ \A m \in Loads : m # l => load'[m] = load[m]
  BY LoadStep
<1> QED
  BY <1>1 DEF CallInv, CallsKept

LEMMA CallMoves ==
    ASSUME TypeOK, CallInv, setup' = setup, NEW r \in Requests, NEW c,
           call' = [call EXCEPT ![r] = c],
           call[r] # "done" \/ c = "done",
           call[r] # "none" \/ r \in Loads,
           \A l \in Loads : load'[l].operation => load[l].operation /\ l # r
    PROVE  CallInv' /\ CallsKept
<1>1. call'[r] = c /\ \A q \in Requests : q # r => call'[q] = call[q]
  BY DEF TypeOK
<1>2. \A l \in Loads : l \in Requests
  BY DEF Requests
<1>3. setup = "none" => r # AtInit
  BY ConstantsAssumption DEF CallInv
<1>4. AtInit \in Requests
  BY DEF Requests
<1>5. CallInv'
  BY <1>1, <1>2, <1>3, <1>4 DEF CallInv
<1>6. CallsKept
  BY <1>1 DEF CallsKept
<1> QED
  BY <1>5, <1>6

\* A quiet step without arrivals, and without a bid brought within reach.
LEMMA StillPassage ==
    ASSUME PassageInv, CallInv', CallsKept, OnceInv',
           \A b \in Bid : Coming(b)' => Coming(b),
           CacheGains({}), ReadsGain({}), CapturesGain({}), AnswersGain({}), LiveKept
    PROVE  PassageInv'
<1>1. ArrivalInv' /\ GoneInv' /\ ReadInv' /\ LiveAnswerInv'
  <2> DEFINE N == {}
             B == {}
  <2>1. /\ \A b \in N : call[b.req] # "done" /\ call'[b.req] = "done"
        /\ \A b \in Bid : Coming(b)' => Coming(b) \/ b \in N
        /\ \A b \in B : (Coming(b) \/ b \in N) /\ ~Coming(b)'
        /\ CacheGains(B)
    OBVIOUS
  <2> HIDE DEF N, B
  <2> QED
    BY <2>1, QuietPassage
<1> QED
  BY <1>1 DEF PassageInv

LEMMA LoadCdbBidPassage ==
    ASSUME IInv, PassageInv, NEW t \in AppThreads, NEW l \in Loads, LoadCdbBid(t, l)
    PROVE  PassageInv'
<1> DEFINE f == [Idle EXCEPT !.load = l, !.op = IF cfg.live /\ ~CannotCallCdb THEN "silent"
                                                                              ELSE "get"]
           x == [load[l] EXCEPT !.stage = "sync", !.live = cfg.live]
<1>0. TypeOK /\ t \in Threads /\ t # Barrier /\ load[l] \in Load
  BY ThreadsDiffer, FrameLoads DEF IInv
<1>1. f.op # "remove"
  BY DEF Idle
<1>2. x.stage = "sync" /\ x.operation = load[l].operation
  BY <1>0 DEF Load
<1>3. /\ frame' = [frame EXCEPT ![t] = f] /\ load' = [load EXCEPT ![l] = x]
      /\ load[l].stage = "idle"
      /\ UNCHANGED << cache, barrierQ, call, setup, answers >>
  BY DEF LoadCdbBid, envVars
<1> HIDE DEF f, x
<1>4. answers[l] = << >>
  BY <1>3 DEF IInv, AnswerInv, Unanswered
<1>5. load'[l] = x /\ \A m \in Loads : m # l => load'[m] = load[m]
  BY <1>0, <1>3, LoadStep
<1>6. CapturesGain({})
  BY <1>2, <1>5 DEF CapturesGain
<1>7. LiveKept
  BY <1>3, <1>4, <1>5 DEF LiveKept
<1>8. ReadsGain({}) /\ HandKept
  BY <1>0, <1>1, <1>3, MoveGain, MoveHand
<1>9. CallInv' /\ CallsKept
  BY <1>0, <1>2, <1>3, LoadCalls DEF PassageInv
<1>10. OnceInv' /\ \A b \in Bid : Coming(b)' => Coming(b)
  BY <1>3, <1>8, SameQueue DEF PassageInv
<1>11. CacheGains({}) /\ AnswersGain({})
  BY <1>3, SameCache, SameAnswers
<1> QED
  BY <1>6, <1>7, <1>8, <1>9, <1>10, <1>11, StillPassage

\* What follows getBid, of a bid b that the cache held: result is b or nothing, and what
\* will be handed over is out of the cache.
LEMMA AfterGetBidPassage ==
    ASSUME IInv, PassageInv, NEW t \in Threads, NEW l \in Loads, NEW b, NEW consumed,
           NEW result, AfterGetBid(t, l, b, consumed, result),
           UNCHANGED << setup, barrierQ, call >>, CacheGains({}),
           frame[t].op \in {"get", "remove"}, l = frame[t].load,
           b = NoBid \/ Reached(b),
           result \in {NoBid, b},
           result # NoBid => ~InSilenceMode(result),
           b # NoBid /\ (result = NoBid => ~load[l].live /\ ~InSilenceMode(b)) => ~Cached(b)'
    PROVE  PassageInv'
<1> DEFINE x == IF load[l].live
                THEN [load[l] EXCEPT !.stage = IF t = Barrier THEN "racing" ELSE "done",
                                     !.handled = (t = Barrier)]
                ELSE [load[l] EXCEPT !.stage = "block", !.bid = b, !.consumed = consumed]
           B == {b} \ {NoBid}
<1>0. TypeOK /\ load[l] \in Load
  BY FrameLoads DEF IInv
<1>1. load' = [load EXCEPT ![l] = x] /\ frame' = [frame EXCEPT ![t] = Idle]
  BY DEF AfterGetBid
<1>2. /\ x.live = load[l].live /\ x.operation = load[l].operation
      /\ x.live => x.stage # "block"
      /\ ~x.live => x.bid = b
  BY <1>0 DEF Load
<1> HIDE DEF x
<1>3. load'[l] = x /\ \A m \in Loads : m # l => load'[m] = load[m]
  BY <1>0, <1>1, LoadStep
<1>4. Idle.op # "remove" /\ Idle.op \notin PreStore
  BY DEF Idle, PreStore
<1>5. ReadsGain({}) /\ HandKept
  BY <1>0, <1>1, <1>4, MoveGain, MoveHand
<1>6. CallInv' /\ CallsKept
  BY <1>0, <1>1, <1>2, LoadCalls DEF PassageInv
<1>7. OnceInv' /\ \A c \in Bid : Coming(c)' => Coming(c)
  BY <1>5, SameQueue DEF PassageInv
<1>8. LiveKept
  BY <1>2, <1>3 DEF LiveKept
<1>9. AnswersGain(B \cap {result}) /\ (~load[l].live => answers' = answers)
  <2>1. CASE load[l].live
    <3>1. AnswersGain({result})
      BY <1>0, <2>1, AnswerGain DEF AfterGetBid
    <3> QED
      BY <2>1, <3>1 DEF AnswersGain
  <2>2. CASE ~load[l].live
    BY <2>2, SameAnswers DEF AfterGetBid, AnswersGain
  <2> QED
    BY <2>1, <2>2
<1>10. CapturesGain(B)
  BY <1>2, <1>3 DEF CapturesGain
<1>11. AnswersGain(B)
  BY <1>9 DEF AnswersGain
<1>12. CacheGains(B) /\ ReadsGain(B)
  BY <1>5 DEF CacheGains, ReadsGain
<1>13. ASSUME NEW c \in Bid, Handed(c)' PROVE Handed(c) \/ ~Cached(c)'
  <2>0. c # NoBid
    BY ConstantsAssumption
  <2>1. PICK m \in Loads :
           \/ load'[m].stage = "block" /\ load'[m].bid = c /\ ~InSilenceMode(c)
           \/ \E i \in DOMAIN answers'[m] :
                 answers'[m][i] = c /\ (load'[m].live \/ ~InSilenceMode(c))
    BY <1>13 DEF Handed, InSilenceMode
  <2>2. CASE load'[m].stage = "block" /\ load'[m].bid = c /\ ~InSilenceMode(c)
    <3>1. CASE m = l
      <4>1. ~load[l].live /\ c = b
        BY <1>2, <1>3, <2>2, <3>1
      <4> QED
        BY <2>0, <2>2, <4>1
    <3>2. CASE m # l
      BY <1>3, <2>2, <3>2 DEF Handed
    <3> QED
      BY <3>1, <3>2
  <2>3. ASSUME NEW i \in DOMAIN answers'[m],
               answers'[m][i] = c /\ (load'[m].live \/ ~InSilenceMode(c))
        PROVE  Handed(c) \/ ~Cached(c)'
    <3>1. load'[m].live = load[m].live
      BY <1>2, <1>3
    <3>2. CASE c \in B \cap {result}
      BY <2>0, <3>2
    <3>3. CASE i \in DOMAIN answers[m] /\ answers[m][i] = c
      BY <2>3, <3>1, <3>3 DEF Handed
    <3> HIDE DEF B
    <3> QED
      BY <1>9, <2>0, <2>3, <3>2, <3>3 DEF AnswersGain
  <2> QED
    BY <2>1, <2>2, <2>3
<1>14. \A c \in Bid : Cached(c)' => Cached(c)
  BY CachedStep
<1>15. ArrivalInv' /\ GoneInv'
  <2> DEFINE N == {}
  <2>1. /\ \A c \in N : call[c.req] # "done" /\ call'[c.req] = "done"
        /\ \A c \in Bid : Coming(c)' => Coming(c) \/ c \in N
        /\ \A c \in B : Reached(c) \/ ((Coming(c) \/ c \in N) /\ ~Coming(c)')
        /\ \A c \in Bid : Cached(c)' => Cached(c) \/ Coming(c) \/ c \in N
    BY <1>7, <1>14
  <2> HIDE DEF N, B
  <2> QED
    BY <1>6, <1>10, <1>11, <1>12, <1>13, <2>1, PassageStep DEF PassageInv
<1>16. ReadInv'
  BY <1>5, ReadInvStep DEF PassageInv
<1>17. LiveAnswerInv'
  <2>1. \A c \in B \cap {result} : ~InSilenceMode(c)
    OBVIOUS
  <2> HIDE DEF B
  <2> QED
    BY <1>8, <1>9, <2>1, LiveAnswerStep DEF PassageInv
<1> QED
  BY <1>6, <1>7, <1>15, <1>16, <1>17 DEF PassageInv

LEMMA GetBidPassage ==
    ASSUME IInv, PassageInv, NEW t \in Threads, GetBid(t)
    PROVE  PassageInv'
<1> DEFINE l == frame[t].load
           b == cache[load[l].slot]
           result == IF Expired(b) THEN NoBid ELSE b
           f == [frame[t] EXCEPT !.op = "remove", !.bid = b, !.result = result]
<1>0. TypeOK /\ frame[t].op = "get" /\ frame[t] \in Frame
  BY DEF IInv, GetBid, TypeOK
<1>1. l \in Loads /\ load[l].slot \in Slots /\ b \in Bid \cup {NoBid}
  BY <1>0 DEF TypeOK, Load
<1>2. b # NoBid => Cached(b)
  BY <1>1 DEF Cached
<1>3. UNCHANGED << cache, barrierQ, call, setup >>
  BY DEF GetBid, envVars
<1>4. CacheGains({})
  BY <1>3, SameCache
<1>5. CASE Consumable(b)
  <2>1. frame' = [frame EXCEPT ![t] = f] /\ UNCHANGED << load, answers >>
    BY <1>5 DEF GetBid
  <2>2. f.op = "remove" /\ f.bid = b /\ f.result = result
    BY <1>0 DEF Frame
  <2>3. b # NoBid /\ WellRead(f)
    BY <1>5, <2>2 DEF Consumable, Renewable, WellRead
  <2> HIDE DEF f, b, result
  <2>4. frame'[t] = f /\ \A u \in Threads : u # t => frame'[u] = frame[u]
    BY <1>0, <2>1, FrameStep
  <2>5. ReadsGain({b})
    BY <2>2, <2>3, <2>4 DEF ReadsGain
  <2>6. HandKept
    BY <1>0, <2>1, <2>2, MoveHand DEF PreStore
  <2>7. CallInv' /\ CallsKept
    BY <1>3, <2>1, SameCalls DEF PassageInv
  <2>8. OnceInv' /\ \A c \in Bid : Coming(c)' => Coming(c)
    BY <1>3, <2>6, SameQueue DEF PassageInv
  <2>9. CapturesGain({}) /\ LiveKept /\ AnswersGain({})
    BY <2>1, SameLoadsGain, SameAnswers
  <2>10. CacheGains({b}) /\ CapturesGain({b}) /\ AnswersGain({b})
    BY <1>4, <2>5, <2>9, GainsMore
  <2>11. ArrivalInv' /\ GoneInv'
    <3> DEFINE N == {}
               B == {b}
    <3>1. /\ \A c \in N : call[c.req] # "done" /\ call'[c.req] = "done"
          /\ \A c \in Bid : Coming(c)' => Coming(c) \/ c \in N
          /\ \A c \in B : Reached(c) \/ ((Coming(c) \/ c \in N) /\ ~Coming(c)')
          /\ \A c \in Bid : Handed(c)' => Handed(c) \/ ~Cached(c)'
          /\ \A c \in Bid : Cached(c)' => Cached(c) \/ Coming(c) \/ c \in N
          /\ CacheGains(B) /\ ReadsGain(B) /\ CapturesGain(B) /\ AnswersGain(B)
      BY <1>2, <1>4, <2>3, <2>5, <2>8, <2>9, <2>10, HandedStep, CachedStep DEF Reached
    <3> HIDE DEF N, B
    <3> QED
      BY <2>7, <3>1, PassageStep DEF PassageInv
  <2>12. ReadInv'
    BY <2>5, ReadInvStep DEF PassageInv
  <2>13. LiveAnswerInv'
    BY <2>9, LiveAnswerStep DEF PassageInv
  <2> QED
    BY <2>7, <2>8, <2>11, <2>12, <2>13 DEF PassageInv
<1>6. CASE ~Consumable(b)
  <2>1. AfterGetBid(t, l, b, FALSE, NoBid)
    BY <1>6 DEF GetBid
  <2>2. b # NoBid => InSilenceMode(b)
    BY <1>6 DEF Consumable, Renewable
  <2>3. b = NoBid \/ Reached(b)
    BY <1>2 DEF Reached
  <2> HIDE DEF b, l
  <2> QED
    BY <1>0, <1>1, <1>3, <1>4, <2>1, <2>2, <2>3, AfterGetBidPassage DEF l
<1> QED
  BY <1>5, <1>6

LEMMA RemoveBidPassage ==
    ASSUME IInv, PassageInv, NEW t \in Threads, RemoveBid(t)
    PROVE  PassageInv'
<1> DEFINE l == frame[t].load
<1> PICK b : b = frame[t].bid
  OBVIOUS
<1>0. TypeOK /\ frame[t].op = "remove" /\ frame[t] \in Frame
  BY DEF IInv, RemoveBid, TypeOK
<1>1. l \in Loads /\ load[l].slot \in Slots /\ b \in Bid \cup {NoBid}
  BY <1>0 DEF TypeOK, Load, Frame
<1>2. UNCHANGED << barrierQ, call, setup >> /\ cache' = Emptied(load[l].slot)
  BY DEF RemoveBid, envVars
<1>3. CacheGains({})
  BY <1>0, <1>1, <1>2, EmptiedGain
<1>4. AfterGetBid(t, l, b, TRUE, frame[t].result)
  BY DEF RemoveBid
<1>5. b # NoBid => Reached(b)
  BY <1>0 DEF Reached, BeingRead
<1>6. /\ frame[t].result \in {NoBid, b}
      /\ frame[t].result # NoBid => ~InSilenceMode(frame[t].result)
  BY <1>0 DEF PassageInv, ReadInv, WellRead
<1>7. ASSUME b # NoBid PROVE ~Cached(b)'
  <2>1. b.slot = load[l].slot
    BY <1>0, <1>7 DEF IInv, SlotInv
  <2>2. ASSUME NEW s \in Slots, cache'[s] = b PROVE FALSE
    <3>1. s # load[l].slot /\ cache[s] = b
      BY <1>0, <1>1, <1>2, <1>7, <2>2 DEF Emptied, TypeOK
    <3> QED
      BY <1>7, <2>1, <3>1 DEF IInv, SlotInv
  <2> QED
    BY <2>2 DEF Cached
<1> QED
  BY <1>0, <1>1, <1>2, <1>3, <1>4, <1>5, <1>6, <1>7, AfterGetBidPassage

LEMMA GetBidThenFetchBlockPassage ==
    ASSUME IInv, PassageInv, NEW l \in Loads, GetBidThenFetchBlock(l)
    PROVE  PassageInv'
<1> DEFINE b == load[l].bid
           x == [load[l] EXCEPT !.stage = "done"]
           B == {b}
<1>0. TypeOK /\ load[l] \in Load /\ l \in Requests
  BY FrameLoads DEF IInv, Requests
<1>1. /\ load[l].stage = "block" /\ ~load[l].live /\ ~load[l].operation
      /\ call[l] = "none"
  BY DEF GetBidThenFetchBlock, IInv, StageInv
<1>2. /\ load' = [load EXCEPT ![l] = x] /\ Answer(l, b)
      /\ UNCHANGED << cache, frame, barrierQ, setup >>
  BY DEF GetBidThenFetchBlock, envVars
<1>3. PICK made : call' = [call EXCEPT ![l] = made]
  <2>1. call' = [call EXCEPT ![l] = call'[l]]
    BY <1>0 DEF GetBidThenFetchBlock, TypeOK
  <2> QED
    BY <2>1
<1>4. x.stage = "done" /\ x.live = load[l].live /\ x.operation = load[l].operation
  BY <1>0 DEF Load
<1>5. b # NoBid => Captured(b)
  BY <1>1 DEF Captured
<1> HIDE DEF x, b
<1>6. load'[l] = x /\ \A m \in Loads : m # l => load'[m] = load[m]
  BY <1>0, <1>2, LoadStep
<1>7. CallInv' /\ CallsKept
  <2>1. \A m \in Loads : load'[m].operation => load[m].operation /\ m # l
    BY <1>1, <1>4, <1>6
  <2> QED
    BY <1>0, <1>1, <1>2, <1>3, <2>1, CallMoves DEF PassageInv
<1>8. ReadsGain({}) /\ HandKept /\ CacheGains({})
  BY <1>2, SameFrames, SameCache
<1>9. OnceInv' /\ \A c \in Bid : Coming(c)' => Coming(c)
  BY <1>2, <1>8, SameQueue DEF PassageInv
<1>10. CapturesGain({}) /\ LiveKept
  BY <1>0, <1>2, <1>4, LoadGain
<1>11. AnswersGain(B \ {NoBid})
  <2>1. AnswersGain({b})
    BY <1>0, <1>2, AnswerGain
  <2> QED
    BY <2>1 DEF AnswersGain
<1>12. ASSUME NEW c \in Bid, Handed(c)' PROVE Handed(c)
  <2>0. c # NoBid
    BY ConstantsAssumption
  <2>1. PICK m \in Loads :
           \/ load'[m].stage = "block" /\ load'[m].bid = c /\ ~InSilenceMode(c)
           \/ \E i \in DOMAIN answers'[m] :
                 answers'[m][i] = c /\ (load'[m].live \/ ~InSilenceMode(c))
    BY <1>12 DEF Handed, InSilenceMode
  <2>2. CASE load'[m].stage = "block" /\ load'[m].bid = c /\ ~InSilenceMode(c)
    BY <1>4, <1>6, <2>2 DEF Handed
  <2>3. ASSUME NEW i \in DOMAIN answers'[m],
               answers'[m][i] = c /\ (load'[m].live \/ ~InSilenceMode(c))
        PROVE  Handed(c)
    <3>1. load'[m].live = load[m].live
      BY <1>4, <1>6
    <3>2. CASE i \in DOMAIN answers[m] /\ answers[m][i] = c
      BY <2>3, <3>1, <3>2 DEF Handed
    <3>3. CASE m = l /\ c = b
      BY <1>1, <2>3, <3>1, <3>3 DEF Handed, b
    <3>4. \/ i \in DOMAIN answers[m] /\ answers[m][i] = c
          \/ m = l /\ c = b
      <4>1. CASE m = l
        BY <1>11, <2>0, <2>3, <4>1 DEF AnswersGain
      <4>2. CASE m # l
        BY <1>0, <1>2, <2>3, <4>2, AnswerStep
      <4> QED
        BY <4>1, <4>2
    <3> QED
      BY <3>2, <3>3, <3>4
  <2> QED
    BY <2>1, <2>2, <2>3
<1>13. ArrivalInv' /\ GoneInv'
  <2> DEFINE N == {}
             R == B \ {NoBid}
  <2>1. /\ \A c \in N : call[c.req] # "done" /\ call'[c.req] = "done"
        /\ \A c \in Bid : Coming(c)' => Coming(c) \/ c \in N
        /\ \A c \in R : Reached(c) \/ ((Coming(c) \/ c \in N) /\ ~Coming(c)')
        /\ \A c \in Bid : Handed(c)' => Handed(c) \/ ~Cached(c)'
        /\ \A c \in Bid : Cached(c)' => Cached(c) \/ Coming(c) \/ c \in N
    BY <1>5, <1>8, <1>9, <1>12, CachedStep DEF Reached
  <2>2. CacheGains(R) /\ ReadsGain(R) /\ CapturesGain(R) /\ AnswersGain(R)
    BY <1>8, <1>10, <1>11, GainsMore
  <2> HIDE DEF N, B, R
  <2> QED
    BY <1>7, <2>1, <2>2, PassageStep DEF PassageInv
<1>14. ReadInv'
  BY <1>8, ReadInvStep DEF PassageInv
<1>15. LiveAnswerInv'
  <2>1. ASSUME NEW m \in Loads, load'[m].live PROVE m # l /\ load'[m] = load[m]
    BY <1>1, <1>4, <1>6, <2>1
  <2>2. ASSUME NEW m \in Loads, load'[m].live PROVE answers'[m] = answers[m]
    BY <1>0, <1>2, <2>1, <2>2, AnswerStep
  <2> QED
    BY <2>1, <2>2 DEF PassageInv, LiveAnswerInv, InSilenceMode
<1> QED
  BY <1>7, <1>9, <1>13, <1>14, <1>15 DEF PassageInv

LEMMA SlotIsNotSilentPassage ==
    ASSUME IInv, PassageInv, NEW t \in Threads, NEW l \in Loads, l = frame[t].load,
           frame[t].op \in {"silent", "drop"}, SlotIsNotSilent(t, l),
           UNCHANGED << setup, barrierQ, call, answers >>, CacheGains({})
    PROVE  PassageInv'
<1>0. TypeOK /\ load[l] \in Load /\ frame[t] \in Frame
  BY FrameLoads DEF IInv, TypeOK
<1>1. ReadsGain({}) /\ HandKept
  <2>1. CASE t = Barrier
    <3> DEFINE f == [frame[t] EXCEPT !.op = "store"]
    <3>1. frame' = [frame EXCEPT ![t] = f]
      BY <2>1 DEF SlotIsNotSilent
    <3>2. f.op = "store" /\ f.arrived = frame[t].arrived
      BY <1>0 DEF Frame
    <3> HIDE DEF f
    <3>3. ReadsGain({})
      BY <1>0, <3>1, <3>2, MoveGain
    <3>4. HandKept
      BY <1>0, <3>1, <3>2, MoveHand DEF PreStore
    <3> QED
      BY <3>3, <3>4
  <2>2. CASE t # Barrier
    <3>1. frame' = [frame EXCEPT ![t] = Idle] /\ Idle.op # "remove"
      BY <2>2 DEF SlotIsNotSilent, Idle
    <3> QED
      BY <1>0, <2>2, <3>1, MoveGain, MoveHand
  <2> QED
    BY <2>1, <2>2
<1>2. CapturesGain({}) /\ LiveKept /\ CallInv' /\ CallsKept
  <2>1. CASE t = Barrier
    <3>1. load' = load
      BY <2>1 DEF SlotIsNotSilent
    <3> QED
      BY <3>1, SameLoadsGain, SameCalls DEF PassageInv
  <2>2. CASE t # Barrier
    <3> DEFINE x == [load[l] EXCEPT !.stage = "racing", !.operation = TRUE, !.timer = TRUE]
    <3>1. load' = [load EXCEPT ![l] = x]
      BY <2>2 DEF SlotIsNotSilent
    <3>2. x.stage = "racing" /\ x.live = load[l].live
      BY <1>0 DEF Load
    <3>3. load[l].stage = "sync"
      BY <2>2, ThreadsDiffer DEF IInv, CallerInv, WorkerInv
    <3>4. call[l] = "none"
      BY <3>3 DEF IInv, StageInv
    <3> HIDE DEF x
    <3>5. CapturesGain({}) /\ LiveKept
      BY <1>0, <3>1, <3>2, LoadGain
    <3>6. CallInv' /\ CallsKept
      BY <1>0, <3>1, <3>4, LoadCalls DEF PassageInv
    <3> QED
      BY <3>5, <3>6
  <2> QED
    BY <2>1, <2>2
<1>3. OnceInv' /\ \A b \in Bid : Coming(b)' => Coming(b)
  BY <1>1, SameQueue DEF PassageInv
<1>4. AnswersGain({})
  BY SameAnswers
<1> QED
  BY <1>1, <1>2, <1>3, <1>4, StillPassage

\* A thread moves inside isSlotSilent, or leaves it: only its frame changes.
LEMMA FramePassage ==
    ASSUME IInv, PassageInv, NEW t \in Threads, NEW f, frame' = [frame EXCEPT ![t] = f],
           UNCHANGED << setup, load, barrierQ, call, answers >>, CacheGains({}),
           f.op # "remove",
           t = Barrier /\ f.op \in PreStore
              => frame[t].op \in PreStore /\ f.arrived = frame[t].arrived
    PROVE  PassageInv'
<1>0. TypeOK
  BY DEF IInv
<1>1. ReadsGain({}) /\ HandKept
  BY <1>0, MoveGain, MoveHand
<1>2. CapturesGain({}) /\ LiveKept /\ AnswersGain({})
  BY SameLoadsGain, SameAnswers
<1>3. CallInv' /\ CallsKept
  BY SameCalls DEF PassageInv
<1>4. OnceInv' /\ \A b \in Bid : Coming(b)' => Coming(b)
  BY <1>1, SameQueue DEF PassageInv
<1> QED
  BY <1>1, <1>2, <1>3, <1>4, StillPassage

LEMMA IsSlotSilentPassage ==
    ASSUME IInv, PassageInv, NEW t \in Threads, IsSlotSilent(t)
    PROVE  PassageInv'
<1> DEFINE l == frame[t].load
           b == cache[load[l].slot]
<1>0. TypeOK /\ frame[t] \in Frame /\ frame[t].op = "silent" /\ l \in Loads
      /\ load[l] \in Load
  BY FrameLoads DEF IsSlotSilent, IInv, TypeOK
<1>1. UNCHANGED << setup, cache, barrierQ, call >> /\ CacheGains({})
  BY SameCache DEF IsSlotSilent, envVars
<1>2. CASE SlotIsNotSilent(t, l) /\ UNCHANGED answers
  BY <1>0, <1>1, <1>2, SlotIsNotSilentPassage
<1>3. CASE frame' = [frame EXCEPT ![t].op = "unsilence"] /\ UNCHANGED << load, answers >>
  <2> DEFINE f == [frame[t] EXCEPT !.op = "unsilence"]
  <2>1. frame' = [frame EXCEPT ![t] = f]
    BY <1>3
  <2>2. f.op = "unsilence" /\ f.arrived = frame[t].arrived
    BY <1>0 DEF Frame
  <2> HIDE DEF f
  <2> QED
    BY <1>0, <1>1, <1>3, <2>1, <2>2, FramePassage DEF PreStore
<1>4. CASE /\ frame' = [frame EXCEPT ![t] = Idle]
           /\ IF t = Barrier
                THEN UNCHANGED << load, answers >>
                ELSE /\ load' = [load EXCEPT ![l].stage = "done"]
                     /\ Answer(l, NoBid)
  <2>0. Idle.op = "idle" /\ Idle.op \notin PreStore
    BY DEF Idle, PreStore
  <2>1. CASE t = Barrier
    BY <1>1, <1>4, <2>0, <2>1, FramePassage
  <2>2. CASE t # Barrier
    <3> DEFINE x == [load[l] EXCEPT !.stage = "done"]
    <3>1. load' = [load EXCEPT ![l] = x] /\ Answer(l, NoBid)
      BY <1>4, <2>2
    <3>2. x.stage = "done" /\ x.live = load[l].live /\ x.operation = load[l].operation
      BY <1>0 DEF Load
    <3> HIDE DEF x, l
    <3>3. CapturesGain({}) /\ LiveKept
      BY <1>0, <3>1, <3>2, LoadGain
    <3>4. CallInv' /\ CallsKept
      BY <1>0, <1>1, <3>1, <3>2, LoadCalls DEF PassageInv
    <3>5. AnswersGain({})
      BY <1>0, <3>1, NoAnswerGain
    <3>6. ReadsGain({}) /\ HandKept
      BY <1>0, <1>4, <2>0, MoveGain, MoveHand
    <3>7. OnceInv' /\ \A c \in Bid : Coming(c)' => Coming(c)
      BY <1>1, <3>6, SameQueue DEF PassageInv
    <3> QED
      BY <1>1, <3>3, <3>4, <3>5, <3>6, <3>7, StillPassage
  <2> QED
    BY <2>1, <2>2
<1> QED
  BY <1>2, <1>3, <1>4 DEF IsSlotSilent

LEMMA RereadSilencePassage ==
    ASSUME IInv, PassageInv, NEW t \in Threads, RereadSilence(t)
    PROVE  PassageInv'
<1> DEFINE f == [frame[t] EXCEPT !.op = "drop", !.bid = cache[load[frame[t].load].slot]]
<1>0. TypeOK /\ frame[t] \in Frame /\ frame[t].op = "unsilence"
  BY DEF RereadSilence, IInv, TypeOK
<1>1. /\ frame' = [frame EXCEPT ![t] = f]
      /\ UNCHANGED << setup, cache, load, barrierQ, call, answers >>
  BY DEF RereadSilence, envVars
<1>2. f.op = "drop" /\ f.arrived = frame[t].arrived
  BY <1>0 DEF Frame
<1> HIDE DEF f
<1>3. CacheGains({})
  BY <1>1, SameCache
<1> QED
  BY <1>0, <1>1, <1>2, <1>3, FramePassage DEF PreStore

LEMMA DropSilencePassage ==
    ASSUME IInv, PassageInv, NEW t \in Threads, DropSilence(t)
    PROVE  PassageInv'
<1> DEFINE l == frame[t].load
<1>0. TypeOK /\ frame[t].op = "drop" /\ l \in Loads /\ load[l].slot \in Slots
  BY FrameLoads DEF DropSilence, IInv, Load
<1>1. /\ cache' = Emptied(load[l].slot) /\ SlotIsNotSilent(t, l)
      /\ UNCHANGED << setup, barrierQ, call, answers >>
  BY DEF DropSilence, envVars
<1>2. CacheGains({})
  BY <1>0, <1>1, EmptiedGain
<1> QED
  BY <1>0, <1>1, <1>2, SlotIsNotSilentPassage

LEMMA OperationPassage ==
    ASSUME IInv, PassageInv, NEW l \in Loads, Operation(l)
    PROVE  PassageInv'
<1> DEFINE x == [load[l] EXCEPT !.operation = FALSE]
           k == [kind |-> "completion", load |-> l, bids |-> {}]
<1>0. TypeOK /\ load[l] \in Load /\ l \in Requests
  BY FrameLoads DEF IInv, Requests
<1>1. /\ load[l].operation /\ load' = [load EXCEPT ![l] = x]
      /\ UNCHANGED << setup, cache, frame, answers >>
  BY DEF Operation, envVars
<1>2. x.stage = load[l].stage /\ x.live = load[l].live /\ ~x.operation
  BY <1>0 DEF Load
<1>3. x.stage # "block" /\ call[l] = "none"
  BY <1>1, <1>2 DEF IInv, StageInv, PassageInv, CallInv
<1> HIDE DEF x
<1>4. CapturesGain({}) /\ LiveKept
  BY <1>0, <1>1, <1>2, <1>3, LoadGain
<1>5. CacheGains({}) /\ ReadsGain({}) /\ HandKept /\ AnswersGain({})
  BY <1>1, SameCache, SameFrames, SameAnswers
<1>6. load'[l] = x /\ \A m \in Loads : m # l => load'[m] = load[m]
  BY <1>0, <1>1, LoadStep
<1>7. CASE CannotCallCdb
  <2>1. barrierQ' = Append(barrierQ, k) /\ call' = call
    BY <1>7 DEF Operation
  <2>2. k \in Block /\ k.bids = {}
    BY DEF Block
  <2>3. OnceInv' /\ \A b \in Bid : Coming(b)' => Coming(b)
    BY <1>0, <1>5, <2>1, <2>2, LongerQueue DEF PassageInv
  <2>4. CallInv' /\ CallsKept
    BY <1>0, <1>1, <1>2, <2>1, LoadCalls DEF PassageInv
  <2> QED
    BY <1>4, <1>5, <2>3, <2>4, StillPassage
<1>8. CASE ~CannotCallCdb
  <2>1. call' = [call EXCEPT ![l] = "queued"] /\ barrierQ' = barrierQ
    BY <1>8 DEF Operation
  <2>2. OnceInv' /\ \A b \in Bid : Coming(b)' => Coming(b)
    BY <1>5, <2>1, SameQueue DEF PassageInv
  <2>3. CallInv' /\ CallsKept
    <3>1. \A m \in Loads : load'[m].operation => load[m].operation /\ m # l
      BY <1>2, <1>6
    <3> QED
      BY <1>0, <1>1, <1>3, <2>1, <3>1, CallMoves DEF PassageInv
  <2> QED
    BY <1>4, <1>5, <2>2, <2>3, StillPassage
<1> QED
  BY <1>7, <1>8

LEMMA TimerFiresPassage ==
    ASSUME IInv, PassageInv, NEW l \in Loads, TimerFires(l)
    PROVE  PassageInv'
<1> DEFINE x == [load[l] EXCEPT !.timer = FALSE]
           k == [kind |-> "timeout", load |-> l, bids |-> {}]
<1>0. TypeOK /\ load[l] \in Load
  BY FrameLoads DEF IInv
<1>1. /\ load[l].timer /\ load' = [load EXCEPT ![l] = x] /\ barrierQ' = Append(barrierQ, k)
      /\ UNCHANGED << setup, call, cache, frame, answers >>
  BY DEF TimerFires, envVars
<1>2. x.stage = load[l].stage /\ x.live = load[l].live /\ x.operation = load[l].operation
  BY <1>0 DEF Load
<1>3. x.stage # "block"
  BY <1>1, <1>2 DEF IInv, StageInv
<1>4. k \in Block /\ k.bids = {}
  BY DEF Block
<1> HIDE DEF x, k
<1>5. CapturesGain({}) /\ LiveKept
  BY <1>0, <1>1, <1>2, <1>3, LoadGain
<1>6. CacheGains({}) /\ ReadsGain({}) /\ HandKept /\ AnswersGain({})
  BY <1>1, SameCache, SameFrames, SameAnswers
<1>7. OnceInv' /\ \A b \in Bid : Coming(b)' => Coming(b)
  BY <1>0, <1>1, <1>4, <1>6, LongerQueue DEF PassageInv
<1>8. CallInv' /\ CallsKept
  BY <1>0, <1>1, <1>2, LoadCalls DEF PassageInv
<1> QED
  BY <1>5, <1>6, <1>7, <1>8, StillPassage

\* A block of the barrier queue that answers nobody: f is where the barrier thread gets
\* to, B what of the answer is cached at once.
LEMMA BarrierBlockPassage ==
    ASSUME IInv, PassageInv, NEW k \in Block, NextBlock(k), NEW f, NEW B,
           frame' = [frame EXCEPT ![Barrier] = f],
           UNCHANGED << load, answers >>, CacheGains(B), B \subseteq k.bids,
           f.op # "remove",
           f.op \in PreStore => f.arrived = k.bids /\ B = {}
    PROVE  PassageInv'
<1>0. TypeOK /\ Barrier \in Threads /\ UNCHANGED << setup, call >>
  BY ThreadsDiffer DEF IInv, NextBlock, envVars
<1>1. frame'[Barrier] = f
  BY <1>0, FrameStep
<1>2. /\ OnceInv'
      /\ \A b \in Bid : Coming(b)' => Coming(b)
      /\ \A b \in k.bids : Coming(b)
      /\ f.op \notin PreStore => \A b \in k.bids : ~Coming(b)'
  BY <1>0, <1>1, ShorterQueue DEF PassageInv
<1>3. ReadsGain({}) /\ CapturesGain({}) /\ LiveKept /\ AnswersGain({})
  BY <1>0, MoveGain, SameLoadsGain, SameAnswers
<1>4. CallInv' /\ CallsKept
  BY <1>0, SameCalls DEF PassageInv
<1>5. ArrivalInv' /\ GoneInv' /\ ReadInv' /\ LiveAnswerInv'
  <2> DEFINE N == {}
  <2>1. /\ \A b \in N : call[b.req] # "done" /\ call'[b.req] = "done"
        /\ \A b \in Bid : Coming(b)' => Coming(b) \/ b \in N
        /\ \A b \in B : (Coming(b) \/ b \in N) /\ ~Coming(b)'
    BY <1>2
  <2> HIDE DEF N
  <2> QED
    BY <1>3, <1>4, <2>1, QuietPassage
<1> QED
  BY <1>2, <1>4, <1>5 DEF PassageInv

LEMMA FallBackOnCachePassage ==
    ASSUME IInv, PassageInv, NEW k \in Block, FallBackOnCache(k)
    PROVE  PassageInv'
<1> DEFINE f == [Idle EXCEPT !.op = "get", !.load = k.load]
<1>1. /\ NextBlock(k) /\ frame' = [frame EXCEPT ![Barrier] = f]
      /\ UNCHANGED << cache, load, answers >>
  BY DEF FallBackOnCache
<1>2. f.op = "get" /\ f.op \notin PreStore
  BY DEF Idle, PreStore
<1>3. CacheGains({})
  BY <1>1, SameCache
<1> HIDE DEF f
<1> QED
  BY <1>1, <1>2, <1>3, BarrierBlockPassage

LEMMA SilenceInTimePassage ==
    ASSUME IInv, PassageInv, NEW k \in Block, SilenceInTime(k)
    PROVE  PassageInv'
<1> DEFINE f == [Idle EXCEPT !.op = "noteSilence", !.load = k.load, !.arrived = k.bids]
<1>1. /\ NextBlock(k) /\ frame' = [frame EXCEPT ![Barrier] = f] /\ SetBids(k.bids)
      /\ UNCHANGED << load, answers >>
  BY DEF SilenceInTime
<1>2. f.op = "noteSilence" /\ f.op \notin PreStore
  BY DEF Idle, PreStore
<1>3. CacheGains(k.bids)
  BY <1>1, SetBidsGain
<1> HIDE DEF f
<1> QED
  BY <1>1, <1>2, <1>3, BarrierBlockPassage

LEMMA LateCompletionPassage ==
    ASSUME IInv, PassageInv, NEW k \in Block, LateCompletion(k)
    PROVE  PassageInv'
<1> DEFINE f == [Idle EXCEPT !.op = "silent", !.load = k.load, !.arrived = k.bids]
<1>1. /\ NextBlock(k) /\ frame' = [frame EXCEPT ![Barrier] = f]
      /\ UNCHANGED << cache, load, answers >>
  BY DEF LateCompletion
<1>2. f.op = "silent" /\ f.arrived = k.bids
  BY DEF Idle
<1>3. CacheGains({})
  BY <1>1, SameCache
<1> HIDE DEF f
<1> QED
  BY <1>1, <1>2, <1>3, BarrierBlockPassage

LEMMA TimeoutAfterCompletionPassage ==
    ASSUME IInv, PassageInv, NEW k \in Block, TimeoutAfterCompletion(k)
    PROVE  PassageInv'
<1>0. TypeOK
  BY DEF IInv
<1>1. NextBlock(k) /\ UNCHANGED << cache, load, frame, answers >>
  BY DEF TimeoutAfterCompletion
<1>2. frame' = [frame EXCEPT ![Barrier] = frame[Barrier]] /\ frame[Barrier].op = "idle"
  BY <1>0, <1>1 DEF NextBlock, TypeOK
<1>3. frame[Barrier].op \notin PreStore
  BY <1>2 DEF PreStore
<1>4. CacheGains({})
  BY <1>1, SameCache
<1> QED
  BY <1>1, <1>2, <1>3, <1>4, BarrierBlockPassage

LEMMA BidInTimePassage ==
    ASSUME IInv, PassageInv, NEW k \in Block, BidInTime(k)
    PROVE  PassageInv'
<1> DEFINE l == k.load
           x == [load[l] EXCEPT !.handled = TRUE]
<1>0. TypeOK /\ l \in Loads /\ load[l] \in Load /\ k.bids \subseteq Bid
  BY FrameLoads DEF IInv, Block
<1>1. /\ NextBlock(k) /\ load' = [load EXCEPT ![l] = x]
      /\ UNCHANGED << setup, call, cache, frame >>
  BY DEF BidInTime, NextBlock, envVars
<1>2. PICK b \in k.bids : ~InSilenceMode(b) /\ Answer(l, b)
  BY DEF BidInTime, Usable
<1>3. /\ x.stage = load[l].stage /\ x.live = load[l].live /\ x.operation = load[l].operation
  BY <1>0 DEF Load
<1>4. x.stage # "block"
  <2>1. \E i \in DOMAIN barrierQ : barrierQ[i] = k
    <3>1. barrierQ \in Seq(Block) /\ barrierQ # << >> /\ k = Head(barrierQ)
      BY <1>0, <1>1 DEF TypeOK, NextBlock
    <3>2. 1 \in DOMAIN barrierQ /\ barrierQ[1] = k
      BY <3>1
    <3> QED
      BY <3>2
  <2>2. load[l].stage = "racing"
    BY <2>1 DEF IInv, StageInv
  <2> QED
    BY <1>3, <2>2
<1>5. frame'[Barrier].op \notin PreStore
  BY <1>1 DEF NextBlock, PreStore
<1> HIDE DEF x
<1>6. /\ OnceInv'
      /\ \A c \in Bid : Coming(c)' => Coming(c)
      /\ Coming(b) /\ ~Coming(b)'
  BY <1>0, <1>1, <1>5, ShorterQueue DEF PassageInv
<1>7. CapturesGain({}) /\ LiveKept /\ CallInv' /\ CallsKept
  BY <1>0, <1>1, <1>3, <1>4, LoadGain, LoadCalls DEF PassageInv
<1>8. CacheGains({}) /\ ReadsGain({}) /\ AnswersGain({b})
  BY <1>0, <1>1, <1>2, SameCache, SameFrames, AnswerGain
<1>9. ~Cached(b)'
  BY <1>0, <1>1, <1>6 DEF PassageInv, ArrivalInv, Reached, Cached
<1>10. load'[l] = x /\ \A m \in Loads : m # l => load'[m] = load[m]
  BY <1>0, <1>1, LoadStep
<1>11. ASSUME NEW c \in Bid, Handed(c)' PROVE Handed(c) \/ ~Cached(c)'
  <2>0. c # NoBid
    BY ConstantsAssumption
  <2>1. PICK m \in Loads :
           \/ load'[m].stage = "block" /\ load'[m].bid = c /\ ~InSilenceMode(c)
           \/ \E i \in DOMAIN answers'[m] :
                 answers'[m][i] = c /\ (load'[m].live \/ ~InSilenceMode(c))
    BY <1>11 DEF Handed, InSilenceMode
  <2>2. CASE load'[m].stage = "block" /\ load'[m].bid = c /\ ~InSilenceMode(c)
    BY <1>3, <1>4, <1>10, <2>2 DEF Handed
  <2>3. ASSUME NEW i \in DOMAIN answers'[m],
               answers'[m][i] = c /\ (load'[m].live \/ ~InSilenceMode(c))
        PROVE  Handed(c) \/ ~Cached(c)'
    <3>1. load'[m].live = load[m].live
      BY <1>3, <1>10
    <3>2. CASE c = b
      BY <1>9, <3>2
    <3>3. CASE i \in DOMAIN answers[m] /\ answers[m][i] = c
      BY <2>3, <3>1, <3>3 DEF Handed
    <3> QED
      BY <1>8, <2>0, <2>3, <3>2, <3>3 DEF AnswersGain
  <2> QED
    BY <2>1, <2>2, <2>3
<1>12. ArrivalInv' /\ GoneInv'
  <2> DEFINE N == {}
             B == {b}
  <2>1. /\ \A c \in N : call[c.req] # "done" /\ call'[c.req] = "done"
        /\ \A c \in Bid : Coming(c)' => Coming(c) \/ c \in N
        /\ \A c \in B : Reached(c) \/ ((Coming(c) \/ c \in N) /\ ~Coming(c)')
        /\ \A c \in Bid : Cached(c)' => Cached(c) \/ Coming(c) \/ c \in N
    BY <1>6, <1>8, CachedStep
  <2>2. CacheGains(B) /\ ReadsGain(B) /\ CapturesGain(B) /\ AnswersGain(B)
    BY <1>7, <1>8, GainsMore
  <2> HIDE DEF N, B
  <2> QED
    BY <1>7, <1>11, <2>1, <2>2, PassageStep DEF PassageInv
<1>13. ReadInv'
  BY <1>8, ReadInvStep DEF PassageInv
<1>14. LiveAnswerInv'
  BY <1>2, <1>7, <1>8, LiveAnswerStep DEF PassageInv
<1> QED
  BY <1>6, <1>7, <1>12, <1>13, <1>14 DEF PassageInv

LEMMA StoreLatePassage ==
    ASSUME IInv, PassageInv, StoreLate
    PROVE  PassageInv'
<1> DEFINE f == [frame[Barrier] EXCEPT !.op = "note"]
<1> PICK B : B = frame[Barrier].arrived
  OBVIOUS
<1>0. TypeOK /\ Barrier \in Threads /\ frame[Barrier] \in Frame
  BY ThreadsDiffer DEF IInv, TypeOK
<1>1. /\ frame[Barrier].op = "store" /\ frame' = [frame EXCEPT ![Barrier] = f] /\ SetBids(B)
      /\ UNCHANGED << setup, call, load, barrierQ, answers >>
  BY DEF StoreLate, envVars
<1>2. f.op = "note"
  BY <1>0 DEF Frame
<1> HIDE DEF f
<1>3. frame'[Barrier] = f
  BY <1>0, <1>1, FrameStep
<1>4. CacheGains(B) /\ ReadsGain({}) /\ CapturesGain({}) /\ LiveKept /\ AnswersGain({})
  BY <1>0, <1>1, <1>2, SetBidsGain, MoveGain, SameLoadsGain, SameAnswers
<1>5. HandKept
  BY <1>0, <1>1, <1>2, MoveHand DEF PreStore
<1>6. CallInv' /\ CallsKept
  BY <1>1, SameCalls DEF PassageInv
<1>7. OnceInv' /\ \A b \in Bid : Coming(b)' => Coming(b)
  BY <1>1, <1>5, SameQueue DEF PassageInv
<1>8. ASSUME NEW b \in B PROVE Coming(b) /\ ~Coming(b)'
  <2>1. InHand(b) /\ ~InHand(b)'
    BY <1>1, <1>2, <1>3 DEF InHand, PreStore
  <2>2. ~InQueue(b)
    BY <1>1 DEF InQueue, PassageInv, OnceInv, PreStore
  <2>3. ~InQueue(b)'
    BY <1>1, <2>2 DEF InQueue
  <2> QED
    BY <2>1, <2>3 DEF Coming
<1>9. ArrivalInv' /\ GoneInv' /\ ReadInv' /\ LiveAnswerInv'
  <2> DEFINE N == {}
  <2>1. /\ \A b \in N : call[b.req] # "done" /\ call'[b.req] = "done"
        /\ \A b \in Bid : Coming(b)' => Coming(b) \/ b \in N
        /\ \A b \in B : (Coming(b) \/ b \in N) /\ ~Coming(b)'
    BY <1>7, <1>8
  <2> HIDE DEF N
  <2> QED
    BY <1>4, <1>6, <2>1, QuietPassage
<1> QED
  BY <1>6, <1>7, <1>9 DEF PassageInv

LEMMA NoteCachedPassage ==
    ASSUME IInv, PassageInv, NEW t \in Threads, NoteCached(t)
    PROVE  PassageInv'
<1> DEFINE l == frame[t].load
           x == [load[l] EXCEPT !.handled = TRUE]
<1>0. TypeOK /\ Idle.op = "idle" /\ Idle.op \notin PreStore
  BY DEF IInv, Idle, PreStore
<1>1. /\ frame' = [frame EXCEPT ![t] = Idle]
      /\ UNCHANGED << setup, call, cache, barrierQ >>
  BY DEF NoteCached, envVars
<1>2. CacheGains({})
  BY <1>1, SameCache
<1>3. CASE frame[t].op # "noteSilence"
  <2>1. UNCHANGED << load, answers >>
    BY <1>3 DEF NoteCached
  <2> QED
    BY <1>0, <1>1, <1>2, <2>1, FramePassage
<1>4. CASE frame[t].op = "noteSilence"
  <2>0. l \in Loads /\ load[l] \in Load
    BY <1>0, <1>4, FrameLoads
  <2>1. load' = [load EXCEPT ![l] = x] /\ Answer(l, NoBid)
    BY <1>4 DEF NoteCached
  <2>2. /\ x.stage = load[l].stage /\ x.live = load[l].live
        /\ x.operation = load[l].operation
    BY <2>0 DEF Load
  <2>3. load[l].stage = "racing"
    BY <1>4, ThreadsDiffer DEF IInv, WorkerInv, CallerInv
  <2> HIDE DEF x, l
  <2>4. CapturesGain({}) /\ LiveKept
    BY <1>0, <2>0, <2>1, <2>2, <2>3, LoadGain
  <2>5. CallInv' /\ CallsKept
    BY <1>0, <1>1, <2>0, <2>1, <2>2, LoadCalls DEF PassageInv
  <2>6. AnswersGain({})
    BY <1>0, <2>0, <2>1, NoAnswerGain
  <2>7. ReadsGain({}) /\ HandKept
    BY <1>0, <1>1, MoveGain, MoveHand
  <2>8. OnceInv' /\ \A b \in Bid : Coming(b)' => Coming(b)
    BY <1>1, <2>7, SameQueue DEF PassageInv
  <2> QED
    BY <1>2, <2>4, <2>5, <2>6, <2>7, <2>8, StillPassage
<1> QED
  BY <1>3, <1>4

\* A step of the calls or the configuration alone.
LEMMA CallsPassage ==
    ASSUME IInv, PassageInv, UNCHANGED << cache, load, frame, barrierQ, answers >>,
           CallInv', CallsKept
    PROVE  PassageInv'
<1>1. CacheGains({}) /\ ReadsGain({}) /\ HandKept /\ CapturesGain({}) /\ LiveKept
      /\ AnswersGain({})
  BY SameCache, SameFrames, SameLoadsGain, SameAnswers
<1>2. OnceInv' /\ \A b \in Bid : Coming(b)' => Coming(b)
  BY <1>1, SameQueue DEF PassageInv
<1> QED
  BY <1>1, <1>2, StillPassage

\* The call of r, which was made, moves to c.
LEMMA MadeCallMoves ==
    ASSUME IInv, PassageInv, UNCHANGED << setup, load >>, NEW r \in Requests, NEW c,
           call' = [call EXCEPT ![r] = c], call[r] \notin {"none", "done"}
    PROVE  CallInv' /\ CallsKept /\ call'[r] = c
<1>1. TypeOK /\ call'[r] = c
  BY DEF IInv, TypeOK
<1>2. \A l \in Loads : load'[l].operation => load[l].operation /\ l # r
  BY DEF PassageInv, CallInv
<1> QED
  BY <1>1, <1>2, CallMoves DEF PassageInv

LEMMA SendCallPassage ==
    ASSUME IInv, PassageInv, NEW r \in Requests, SendCall(r)
    PROVE  PassageInv'
<1>1. /\ UNCHANGED << setup, cache, load, frame, barrierQ, answers >>
      /\ call' = [call EXCEPT ![r] = "sent"] /\ call[r] = "queued"
  BY DEF SendCall, envVars
<1> QED
  BY <1>1, MadeCallMoves, CallsPassage

LEMMA HttpErrorPassage ==
    ASSUME IInv, PassageInv, NEW r \in Requests, HttpError(r)
    PROVE  PassageInv'
<1>1. /\ UNCHANGED << setup, cache, load, frame, barrierQ, answers >>
      /\ call' = [call EXCEPT ![r] = "done"] /\ call[r] = "sent"
  BY DEF HttpError, Answerable, envVars
<1> QED
  BY <1>1, MadeCallMoves, CallsPassage

LEMMA SetupPassage ==
    ASSUME IInv, PassageInv,
           \/ \E post \in unsilenced : UnsilenceBlock(post)
           \/ Register \/ RefreshConfig \/ Tick \/ UNCHANGED vars
    PROVE  PassageInv'
<1>1. UNCHANGED << cache, load, frame, barrierQ, answers >>
  BY DEF UnsilenceBlock, Register, RefreshConfig, Tick, vars
<1>2. CASE Register
  <2>1. setup = "none" /\ setup' = "registered"
    BY <1>2 DEF Register
  <2>2. \A q \in Requests : q # AtInit => call'[q] = call[q]
    BY <1>2 DEF Register, IInv, TypeOK
  <2>3. \A l \in Loads : l \in Requests /\ l # AtInit
    BY ConstantsAssumption DEF Requests
  <2>4. CallInv'
    BY <1>1, <2>1, <2>2, <2>3 DEF PassageInv, CallInv
  <2>5. CallsKept
    BY <2>1, <2>2 DEF PassageInv, CallInv, CallsKept
  <2> QED
    BY <1>1, <2>4, <2>5, CallsPassage
<1>3. CASE ~Register
  <2>1. call' = call /\ (setup' = "none" => setup = "none")
    BY <1>3 DEF UnsilenceBlock, RefreshConfig, Tick, vars, envVars
  <2>2. CallInv'
    BY <1>1, <2>1 DEF PassageInv, CallInv
  <2>3. CallsKept
    BY <2>1 DEF CallsKept
  <2> QED
    BY <1>1, <2>2, <2>3, CallsPassage
<1> QED
  BY <1>2, <1>3

\* The handler of a CDB call is given the bids B of the request r, which was not answered
\* before.
LEMMA CdbResponsePassage ==
    ASSUME IInv, PassageInv, NEW r \in Requests, NEW B \in SUBSET Bid, NEW c,
           CdbResponseHandler(r, B), call' = [call EXCEPT ![r] = c],
           call[r] \notin {"none", "done"},
           \A b \in B : b.req = r, B # {} => c = "done",
           UNCHANGED << setup, load, answers >>
    PROVE  PassageInv'
<1>0. TypeOK /\ Session \in Threads /\ Session # Barrier /\ frame[Session] \in Frame
  BY ThreadsDiffer DEF IInv, TypeOK
<1>1. CallInv' /\ CallsKept /\ call'[r] = c
  BY MadeCallMoves
<1>2. CapturesGain({}) /\ LiveKept /\ AnswersGain({})
  BY SameLoadsGain, SameAnswers
<1>3. \A b \in B : ~Coming(b)
  BY DEF PassageInv, ArrivalInv
<1>4. \A b \in B : call[b.req] # "done" /\ call'[b.req] = "done"
  BY <1>1
<1>5. CASE ForLiveLoad(r)
  <2> DEFINE k == [kind |-> "completion", load |-> r, bids |-> B]
  <2>1. barrierQ' = Append(barrierQ, k) /\ UNCHANGED << cache, frame >>
    BY <1>5 DEF CdbResponseHandler
  <2>2. k \in Block /\ k.bids = B
    BY <1>5 DEF ForLiveLoad, Block
  <2> HIDE DEF k
  <2>3. CacheGains({}) /\ ReadsGain({}) /\ HandKept
    BY <2>1, SameCache, SameFrames
  <2>4. OnceInv' /\ \A b \in Bid : Coming(b)' => Coming(b) \/ b \in B
    BY <1>0, <1>3, <2>1, <2>2, <2>3, LongerQueue DEF PassageInv
  <2>5. ArrivalInv' /\ GoneInv' /\ ReadInv' /\ LiveAnswerInv'
    <3> DEFINE Q == {}
    <3>1. CacheGains(Q) /\ \A b \in Q : (Coming(b) \/ b \in B) /\ ~Coming(b)'
      BY <2>3
    <3> HIDE DEF Q
    <3> QED
      BY <1>1, <1>2, <1>4, <2>3, <2>4, <3>1, QuietPassage
  <2> QED
    BY <1>1, <2>4, <2>5 DEF PassageInv
<1>6. CASE ~ForLiveLoad(r)
  <2> DEFINE f == [frame[Session] EXCEPT !.op = IF B = {} THEN "idle" ELSE "note",
                                         !.arrived = B]
  <2>1. SetBids(B) /\ frame' = [frame EXCEPT ![Session] = f] /\ barrierQ' = barrierQ
    BY <1>6 DEF CdbResponseHandler
  <2>2. f.op # "remove"
    BY <1>0 DEF Frame
  <2> HIDE DEF f
  <2>3. CacheGains(B) /\ ReadsGain({}) /\ HandKept
    BY <1>0, <2>1, <2>2, SetBidsGain, MoveGain, MoveHand
  <2>4. OnceInv' /\ \A b \in Bid : Coming(b)' => Coming(b)
    BY <2>1, <2>3, SameQueue DEF PassageInv
  <2>5. ArrivalInv' /\ GoneInv' /\ ReadInv' /\ LiveAnswerInv'
    <3>1. \A b \in B : (Coming(b) \/ b \in B) /\ ~Coming(b)'
      BY <1>3, <2>4
    <3>2. \A b \in Bid : Coming(b)' => Coming(b) \/ b \in B
      BY <2>4
    <3> QED
      BY <1>1, <1>2, <1>4, <2>3, <3>1, <3>2, QuietPassage
  <2> QED
    BY <1>1, <2>4, <2>5 DEF PassageInv
<1> QED
  BY <1>5, <1>6

LEMMA ReplyPassage ==
    ASSUME IInv, PassageInv, NEW r \in Requests, Reply(r)
    PROVE  PassageInv'
<1>0. TypeOK
  BY DEF IInv
<1>1. /\ call' = [call EXCEPT ![r] = "done"] /\ call[r] = "sent"
      /\ UNCHANGED << setup, load, answers >>
  BY DEF Reply, Answerable, envVars
<1>2. PICK S \in SUBSET SlotsOf(r) : \E offer \in [S -> Offers] :
         CdbResponseHandler(r, {BidFor(r, s, offer[s]) : s \in S})
  BY DEF Reply
<1>3. PICK offer \in [S -> Offers] : CdbResponseHandler(r, {BidFor(r, s, offer[s]) : s \in S})
  BY <1>2
<1>4. S \subseteq Slots
  BY <1>0, FrameLoads DEF SlotsOf, Requests, Load
<1> PICK B : B = {BidFor(r, s, offer[s]) : s \in S}
  OBVIOUS
<1>5. ASSUME NEW s \in S PROVE BidFor(r, s, offer[s]) \in Bid /\ BidFor(r, s, offer[s]).req = r
  BY <1>0, <1>4, <1>5, BidForType DEF BidFor
<1>6. B \in SUBSET Bid /\ \A b \in B : b.req = r
  BY <1>5
<1>7. CdbResponseHandler(r, B)
  BY <1>3
<1> QED
  BY <1>1, <1>6, <1>7, CdbResponsePassage

LEMMA EmptyResponsePassage ==
    ASSUME IInv, PassageInv, NEW r \in Requests, NoContent(r) \/ Fail(r)
    PROVE  PassageInv'
<1>1. /\ CdbResponseHandler(r, {}) /\ UNCHANGED << setup, load, answers >>
      /\ call[r] \in {"sent", "failing"}
      /\ \E c : call' = [call EXCEPT ![r] = c]
  <2>1. CASE NoContent(r)
    BY <2>1 DEF NoContent, Answerable, envVars
  <2>2. CASE Fail(r)
    BY <2>2 DEF Fail, Answerable, envVars
  <2> QED
    BY <2>1, <2>2
<1>2. PICK c : call' = [call EXCEPT ![r] = c]
  BY <1>1
<1>3. PICK B \in SUBSET Bid : B = {}
  OBVIOUS
<1>4. CdbResponseHandler(r, B) /\ call[r] \notin {"none", "done"}
  BY <1>1, <1>3
<1>5. (\A b \in B : b.req = r) /\ (B # {} => c = "done")
  BY <1>3
<1>6. UNCHANGED << setup, load, answers >>
  BY <1>1
<1> HIDE DEF PassageInv
<1> QED
  BY <1>2, <1>4, <1>5, <1>6, CdbResponsePassage

LEMMA InitPassage == Init => PassageInv
<1> SUFFICES ASSUME Init PROVE PassageInv
  OBVIOUS
<1>1. /\ \A t \in Threads : frame[t].op = "idle"
      /\ \A l \in Loads : load[l].stage = "idle" /\ ~load[l].operation
      /\ \A r \in Requests : call[r] = "none"
      /\ \A l \in Loads : answers[l] = << >>
      /\ \A s \in Slots : cache[s] = NoBid
      /\ barrierQ = << >>
  BY DEF Init, Idle
<1>2. ASSUME NEW b \in Bid PROVE ~Coming(b) /\ ~Reached(b) /\ ~Handed(b)
  <2>0. b # NoBid
    BY ConstantsAssumption
  <2>1. ~Coming(b)
    BY <1>1, ThreadsDiffer DEF Coming, InQueue, InHand, PreStore
  <2>2. ~Reached(b)
    BY <1>1, <2>0 DEF Reached, Cached, BeingRead, Captured, AlreadyGiven
  <2> QED
    BY <2>1, <2>2, HandedIsReached
<1>3. ArrivalInv /\ GoneInv
  BY <1>2 DEF ArrivalInv, GoneInv
<1>4. CallInv
  BY <1>1 DEF CallInv, Requests
<1>5. OnceInv
  BY <1>1 DEF OnceInv
<1>6. ReadInv /\ LiveAnswerInv
  BY <1>1 DEF ReadInv, LiveAnswerInv
<1> QED
  BY <1>3, <1>4, <1>5, <1>6 DEF PassageInv

LEMMA NextPassage == IInv /\ PassageInv /\ [Next]_vars => PassageInv'
<1> SUFFICES ASSUME IInv, PassageInv, [Next]_vars PROVE PassageInv'
  OBVIOUS
<1>1. ASSUME NEW t \in AppThreads, NEW l \in Loads, LoadCdbBid(t, l) PROVE PassageInv'
  BY <1>1, LoadCdbBidPassage
<1>2. ASSUME NEW t \in Threads, CacheStep(t) PROVE PassageInv'
  BY <1>2, GetBidPassage, RemoveBidPassage, IsSlotSilentPassage, RereadSilencePassage,
     DropSilencePassage, NoteCachedPassage DEF CacheStep
<1>3. ASSUME NEW l \in Loads, GetBidThenFetchBlock(l) \/ Operation(l) \/ TimerFires(l)
      PROVE  PassageInv'
  BY <1>3, GetBidThenFetchBlockPassage, OperationPassage, TimerFiresPassage
<1>4. ASSUME NEW k \in Block,
             \/ FallBackOnCache(k)
             \/ SilenceInTime(k)
             \/ BidInTime(k)
             \/ LateCompletion(k)
             \/ TimeoutAfterCompletion(k)
      PROVE  PassageInv'
  BY <1>4, FallBackOnCachePassage, SilenceInTimePassage, BidInTimePassage,
     LateCompletionPassage, TimeoutAfterCompletionPassage
<1>5. ASSUME StoreLate PROVE PassageInv'
  BY <1>5, StoreLatePassage
<1>6. ASSUME NEW r \in Requests, SendCall(r) \/ Network(r) PROVE PassageInv'
  BY <1>6, SendCallPassage, ReplyPassage, EmptyResponsePassage, HttpErrorPassage
  DEF Network
<1>7. ASSUME \/ \E post \in unsilenced : UnsilenceBlock(post)
             \/ Register \/ RefreshConfig \/ Tick \/ UNCHANGED vars
      PROVE  PassageInv'
  BY <1>7, SetupPassage
<1>8. TypeOK
  BY DEF IInv
<1> QED
  BY <1>1, <1>2, <1>3, <1>4, <1>5, <1>6, <1>7, <1>8, NextCases

\* Where a bid may be on its way from CDB to a caller.
LEMMA Passage == Spec => [](IInv /\ PassageInv)
<1>1. IInv /\ PassageInv /\ [Next]_vars => (IInv /\ PassageInv)'
  BY NextInv, NextPassage
<1> QED
  BY InitInv, InitPassage, <1>1, PTL DEF Spec

\* A bid that a caller was given is out of the cache, in both bidding modes and with any
\* prefetch: no later load is given it by the cache, unless it had read it already.
THEOREM HandedOverIsGone == Spec => []HandedBidNotCached
<1>1. ASSUME IInv, PassageInv PROVE HandedBidNotCached
  <2> SUFFICES ASSUME NEW l \in Loads, NEW i \in DOMAIN answers[l],
                      answers[l][i] # NoBid,
                      load[l].live \/ ~InSilenceMode(answers[l][i]),
                      NEW s \in Slots, cache[s] = answers[l][i]
               PROVE  FALSE
    BY DEF HandedBidNotCached
  <2>1. PICK b : b = answers[l][i]
    OBVIOUS
  <2>2. b \in Bid
    BY <1>1, <2>1 DEF IInv, TypeOK
  <2>3. Handed(b) /\ Cached(b)
    BY <2>1 DEF Handed, Cached
  <2> QED
    BY <1>1, <2>2, <2>3 DEF PassageInv, GoneInv
<1> QED
  BY <1>1, Passage, PTL

\* While the backend asks for live bidding only, no caller is given a silence.  With cache
\* bidding one is.
LiveOnly == \A c \in Configs : c.live
LiveModeInv == cfg.live /\ \A l \in Loads : load[l].stage # "idle" => load[l].live

\* A load keeps its mode once its caller has asked.
SameModes ==
    \A m \in Loads : /\ load'[m].live = load[m].live
                     /\ load[m].stage = "idle" => load'[m].stage = "idle"

LEMMA SameMode ==
    ASSUME TypeOK, NEW l \in Loads, NEW x, load' = [load EXCEPT ![l] = x],
           x.live = load[l].live, load[l].stage # "idle"
    PROVE  SameModes
  BY LoadStep DEF SameModes

LEMMA AfterGetBidMode ==
    ASSUME TypeOK, NEW t \in Threads, NEW l \in Loads, NEW b, NEW consumed, NEW result,
           AfterGetBid(t, l, b, consumed, result), load[l].stage # "idle"
    PROVE  SameModes
<1> DEFINE x == IF load[l].live
                THEN [load[l] EXCEPT !.stage = IF t = Barrier THEN "racing" ELSE "done",
                                     !.handled = (t = Barrier)]
                ELSE [load[l] EXCEPT !.stage = "block", !.bid = b, !.consumed = consumed]
<1>1. load' = [load EXCEPT ![l] = x]
  BY DEF AfterGetBid
<1>2. x.live = load[l].live
  BY FrameLoads DEF Load
<1> HIDE DEF x
<1> QED
  BY <1>1, <1>2, SameMode

LEMMA CacheStepMode ==
    ASSUME IInv, NEW t \in Threads, CacheStep(t)
    PROVE  SameModes
<1> DEFINE l == frame[t].load
<1>0. frame[t].op \notin {"idle", "note"} => l \in Loads /\ load[l] \in Load
  BY FrameLoads DEF IInv
<1>c. /\ frame[t].op \notin {"idle", "note"}
      /\ t = Barrier => frame[t].op \in {"get", "remove", "noteSilence"}
      => load[l].stage # "idle"
  <2>1. CASE t \in AppThreads
    BY <2>1 DEF IInv, CallerInv
  <2>2. CASE t = Barrier
    BY <2>2 DEF IInv, WorkerInv
  <2>3. CASE t = Session
    BY <2>3 DEF IInv, WorkerInv
  <2> QED
    BY <2>1, <2>2, <2>3 DEF Threads
<1>a. load' = load => SameModes
  BY DEF SameModes
<1>b. TypeOK
  BY DEF IInv
<1>1. ASSUME NEW x, load' = [load EXCEPT ![l] = x], x.live = load[l].live, l \in Loads,
             load[l].stage # "idle"
      PROVE  SameModes
  BY <1>b, <1>1, SameMode
<1>2. CASE GetBid(t) \/ RemoveBid(t)
  <2>1. load' = load \/ \E b, consumed, result : AfterGetBid(t, l, b, consumed, result)
    BY <1>2 DEF GetBid, RemoveBid
  <2>2. l \in Loads /\ load[l].stage # "idle"
    BY <1>0, <1>c, <1>2 DEF GetBid, RemoveBid
  <2> QED
    BY <1>a, <1>b, <2>1, <2>2, AfterGetBidMode
<1>3. ASSUME SlotIsNotSilent(t, l), frame[t].op \in {"silent", "drop"} PROVE SameModes
  <2> DEFINE x == [load[l] EXCEPT !.stage = "racing", !.operation = TRUE, !.timer = TRUE]
  <2>1. load' = load \/ (t # Barrier /\ load' = [load EXCEPT ![l] = x])
    BY <1>3 DEF SlotIsNotSilent
  <2>2. x.live = load[l].live /\ l \in Loads /\ (t # Barrier => load[l].stage # "idle")
    BY <1>0, <1>c, <1>3 DEF Load
  <2> HIDE DEF x, l
  <2> QED
    BY <1>a, <1>1, <2>1, <2>2
<1>4. CASE IsSlotSilent(t)
  <2> DEFINE x == [load[l] EXCEPT !.stage = "done"]
  <2>1. frame[t].op = "silent" /\ l \in Loads /\ (t # Barrier => load[l].stage # "idle")
    BY <1>0, <1>c, <1>4 DEF IsSlotSilent
  <2>2. SlotIsNotSilent(t, l) \/ load' = load \/ (t # Barrier /\ load' = [load EXCEPT ![l] = x])
    BY <1>4 DEF IsSlotSilent
  <2>3. x.live = load[l].live
    BY <1>0, <2>1 DEF Load
  <2> HIDE DEF x, l
  <2> QED
    BY <1>a, <1>1, <1>3, <2>1, <2>2, <2>3
<1>5. CASE RereadSilence(t)
  BY <1>a, <1>5 DEF RereadSilence
<1>6. CASE DropSilence(t)
  BY <1>3, <1>6 DEF DropSilence
<1>7. CASE NoteCached(t)
  <2> DEFINE x == [load[l] EXCEPT !.handled = TRUE]
  <2>1. load' = load \/ (frame[t].op = "noteSilence" /\ load' = [load EXCEPT ![l] = x])
    BY <1>7 DEF NoteCached
  <2>2. frame[t].op = "noteSilence" =>
           x.live = load[l].live /\ l \in Loads /\ load[l].stage # "idle"
    BY <1>0, <1>c DEF Load
  <2> HIDE DEF x, l
  <2> QED
    BY <1>a, <1>1, <2>1, <2>2
<1> QED
  BY <1>2, <1>4, <1>5, <1>6, <1>7 DEF CacheStep

LEMMA NextMode ==
    ASSUME IInv, [Next]_vars
    PROVE  \/ SameModes
           \/ \E l \in Loads : /\ load[l].stage = "idle"
                               /\ load'[l].live = cfg.live
                               /\ \A m \in Loads \ {l} : load'[m] = load[m]
<1>0. TypeOK /\ \A l \in Loads : load[l] \in Load
  BY FrameLoads DEF IInv
<1>1. ASSUME NEW l \in Loads, NEW x, load' = [load EXCEPT ![l] = x], x.live = load[l].live,
             load[l].stage # "idle"
      PROVE  SameModes
  BY <1>0, <1>1, SameMode
<1>2. ASSUME NEW t \in AppThreads, NEW l \in Loads, LoadCdbBid(t, l)
      PROVE  /\ load[l].stage = "idle"
             /\ load'[l].live = cfg.live
             /\ \A m \in Loads \ {l} : load'[m] = load[m]
  <2> DEFINE x == [load[l] EXCEPT !.stage = "sync", !.live = cfg.live]
  <2>1. load[l].stage = "idle" /\ load' = [load EXCEPT ![l] = x]
    BY <1>2 DEF LoadCdbBid
  <2>2. x.live = cfg.live
    BY <1>0 DEF Load
  <2> HIDE DEF x
  <2> QED
    BY <1>0, <2>1, <2>2, LoadStep
<1>3. ASSUME NEW t \in Threads, CacheStep(t) PROVE SameModes
  BY <1>3, CacheStepMode
<1>4. ASSUME NEW l \in Loads, GetBidThenFetchBlock(l) \/ Operation(l) \/ TimerFires(l)
      PROVE  SameModes
  <2>1. CASE GetBidThenFetchBlock(l)
    <3>1. load' = [load EXCEPT ![l] = [load[l] EXCEPT !.stage = "done"]]
      BY <2>1 DEF GetBidThenFetchBlock
    <3>2. [load[l] EXCEPT !.stage = "done"].live = load[l].live /\ load[l].stage # "idle"
      BY <1>0, <2>1 DEF Load, GetBidThenFetchBlock
    <3> QED
      BY <1>1, <3>1, <3>2
  <2>2. CASE Operation(l)
    <3>1. load' = [load EXCEPT ![l] = [load[l] EXCEPT !.operation = FALSE]]
      BY <2>2 DEF Operation
    <3>2. [load[l] EXCEPT !.operation = FALSE].live = load[l].live /\ load[l].stage # "idle"
      BY <1>0, <2>2 DEF Load, Operation, IInv, StageInv
    <3> QED
      BY <1>1, <3>1, <3>2
  <2>3. CASE TimerFires(l)
    <3>1. load' = [load EXCEPT ![l] = [load[l] EXCEPT !.timer = FALSE]]
      BY <2>3 DEF TimerFires
    <3>2. [load[l] EXCEPT !.timer = FALSE].live = load[l].live /\ load[l].stage # "idle"
      BY <1>0, <2>3 DEF Load, TimerFires, IInv, StageInv
    <3> QED
      BY <1>1, <3>1, <3>2
  <2> QED
    BY <1>4, <2>1, <2>2, <2>3
<1>5. ASSUME NEW k \in Block,
             \/ FallBackOnCache(k)
             \/ SilenceInTime(k)
             \/ BidInTime(k)
             \/ LateCompletion(k)
             \/ TimeoutAfterCompletion(k)
      PROVE  SameModes
  <2>1. CASE BidInTime(k)
    <3>1. load' = [load EXCEPT ![k.load] = [load[k.load] EXCEPT !.handled = TRUE]]
      BY <2>1 DEF BidInTime
    <3>2. k.load \in Loads /\ load[k.load].stage # "idle"
      BY <2>1, NextBlockInv DEF BidInTime, Handled
    <3>3. [load[k.load] EXCEPT !.handled = TRUE].live = load[k.load].live
      BY <1>0, <3>2 DEF Load
    <3> QED
      BY <1>1, <3>1, <3>2, <3>3
  <2>2. CASE ~BidInTime(k)
    BY <1>5, <2>2
    DEF FallBackOnCache, SilenceInTime, LateCompletion, TimeoutAfterCompletion, SameModes
  <2> QED
    BY <2>1, <2>2
<1>6. ASSUME \/ StoreLate
             \/ \E r \in Requests : SendCall(r) \/ Network(r)
             \/ \E post \in unsilenced : UnsilenceBlock(post)
             \/ Register \/ RefreshConfig \/ Tick \/ UNCHANGED vars
      PROVE  SameModes
  BY <1>6 DEF StoreLate, SendCall, Network, Reply, NoContent, Fail, HttpError,
     UnsilenceBlock, Register, RefreshConfig, Tick, vars, SameModes
<1> QED
  BY <1>0, <1>2, <1>3, <1>4, <1>5, <1>6, NextCases

LEMMA NextLiveMode ==
    LiveOnly /\ IInv /\ LiveModeInv /\ [Next]_vars => LiveModeInv'
<1> SUFFICES ASSUME LiveOnly, IInv, LiveModeInv, [Next]_vars PROVE LiveModeInv'
  OBVIOUS
<1>0. TypeOK
  BY DEF IInv
<1>1. cfg'.live
  <2>1. cfg' = cfg \/ cfg' \in Configs
    BY DEF Next, LoadCdbBid, CacheStep, GetBid, RemoveBid, IsSlotSilent, RereadSilence,
       DropSilence, NoteCached, GetBidThenFetchBlock, Operation, TimerFires,
       UnsilenceBlock, BarrierBlock, FallBackOnCache, SilenceInTime, BidInTime,
       LateCompletion, TimeoutAfterCompletion, NextBlock, StoreLate, SendCall, Network,
       Reply, NoContent, Fail, HttpError, Register, RefreshConfig, Tick, envVars, vars
  <2> QED
    BY <2>1 DEF LiveOnly, LiveModeInv
<1>2. CASE SameModes
  BY <1>1, <1>2 DEF SameModes, LiveModeInv
<1>3. ASSUME NEW l \in Loads, load'[l].live = cfg.live,
             \A m \in Loads \ {l} : load'[m] = load[m]
      PROVE  LiveModeInv'
  BY <1>1, <1>3 DEF LiveModeInv
<1> QED
  BY <1>2, <1>3, NextMode

\* A session of live bidding gives no caller a bid that means silence: whichever of the
\* cache, the backend and the timer answers, the silence stays inside the SDK.
THEOREM SilenceStaysInside == LiveOnly => (Spec => []SilenceNeverSurfaces)
<1> SUFFICES ASSUME LiveOnly PROVE Spec => []SilenceNeverSurfaces
  OBVIOUS
<1>1. Init => LiveModeInv
  BY DEF LiveOnly, LiveModeInv, Init
<1>2. IInv /\ LiveModeInv /\ [Next]_vars => LiveModeInv'
  BY NextLiveMode
<1>3. IInv /\ PassageInv /\ LiveModeInv => SilenceNeverSurfaces
  <2> SUFFICES ASSUME IInv, PassageInv, LiveModeInv,
                      NEW l \in Loads, NEW i \in DOMAIN answers[l],
                      answers[l][i] # NoBid
               PROVE  ~InSilenceMode(answers[l][i])
    BY DEF SilenceNeverSurfaces
  <2>1. load[l].stage # "idle"
    BY DEF IInv, AnswerInv, Unanswered
  <2> QED
    BY <2>1 DEF PassageInv, LiveAnswerInv, LiveModeInv
<1> QED
  BY <1>1, <1>2, <1>3, InitInv, NextInv, Passage, PTL DEF Spec

-----------------------------------------------------------------------------
(* A silence stays until it expires *)

LiveSilence(s) == cache[s] # NoBid /\ InSilenceMode(cache[s]) /\ ForLiveLoad(cache[s].req)

\* The barrier thread is about to replace no silence that a live answer brought: it looked
\* (isSlotSilent), and no other live answer is stored meanwhile.
StoreInv ==
    frame[Barrier].op = "store" => ~LiveSilence(load[frame[Barrier].load].slot)

\* A late answer is for the slot of its load, and a live answer holds one bid at most.
ArrivedInv ==
    frame[Barrier].op \in PreStore =>
        \A b \in frame[Barrier].arrived : b.slot = load[frame[Barrier].load].slot
SingleInv == \A i \in DOMAIN barrierQ : \A b, c \in barrierQ[i].bids : b = c

\* Whoever is about to take a bid away read one that is no unexpired silence.
RenewableInv == \A t \in Threads : frame[t].op = "remove" => Consumable(frame[t].bid)

SilenceInv == StoreInv /\ ArrivedInv /\ SingleInv /\ RenewableInv

\* What a step may do to what these parts speak of.  A thread takes the bid of a slot when
\* it has read it and is about to empty the slot.
Taking == {"remove", "drop"}
ReadsMove ==
    \A t \in Threads : frame'[t].op \in Taking =>
        \/ frame'[t] = frame[t]
        \/ /\ frame'[t].bid = cache[load[frame'[t].load].slot]
           /\ frame'[t].op = "remove" => Consumable(frame'[t].bid)
ArrivedMove ==
    frame'[Barrier].op \in PreStore =>
        \/ /\ frame[Barrier].op \in PreStore
           /\ frame'[Barrier].load = frame[Barrier].load
           /\ frame'[Barrier].arrived = frame[Barrier].arrived
        \/ \E i \in DOMAIN barrierQ : /\ frame'[Barrier].load = barrierQ[i].load
                                      /\ frame'[Barrier].arrived = barrierQ[i].bids
StoreMove ==
    frame'[Barrier].op = "store" =>
        \/ /\ frame[Barrier].op = "store"
           /\ frame'[Barrier].load = frame[Barrier].load
           /\ LET s == load[frame[Barrier].load].slot
              IN  \/ cache'[s] \in {cache[s], NoBid}
                  \/ \E r \in Requests : r = cache'[s].req /\ ~ForLiveLoad(r)'
        \/ LET s == load[frame'[Barrier].load].slot
           IN  /\ cache'[s] \in {cache[s], NoBid}
               /\ cache'[s] # NoBid => ~InSilenceMode(cache'[s])
QueueMove ==
    \A i \in DOMAIN barrierQ' :
        \/ \E j \in DOMAIN barrierQ : barrierQ'[i].bids = barrierQ[j].bids
        \/ /\ \A b, c \in barrierQ'[i].bids : b = c
           /\ \A b \in barrierQ'[i].bids : call[b.req] # "done"
CacheMove ==
    \A s \in Slots :
        \/ cache'[s] \in {cache[s], NoBid}
        \/ cache'[s].valid /\ (Coming(cache'[s]) \/ call[cache'[s].req] # "done")
Moves == ReadsMove /\ ArrivedMove /\ StoreMove /\ QueueMove /\ CacheMove

LEMMA SlotsKept ==
    ASSUME IInv, [Next]_vars, NEW l \in Loads
    PROVE  load'[l].slot = load[l].slot
  BY NextView DEF ViewStep, Unseen, Asks, Answers, SameLoads

LEMMA ModesKept ==
    ASSUME IInv, [Next]_vars, NEW r \in Requests, call[r] # "none"
    PROVE  ForLiveLoad(r)' <=> ForLiveLoad(r)
<1>1. r \in Loads => load[r].stage # "idle"
  BY DEF IInv, StageInv
<1> QED
  BY <1>1, NextMode DEF SameModes, ForLiveLoad

LEMMA TimePasses ==
    ASSUME TypeOK, [Next]_vars
    PROVE  now' \in Nat /\ now' >= now
<1>1. now' = now \/ now' = now + 1
  BY DEF Next, LoadCdbBid, CacheStep, GetBid, RemoveBid, IsSlotSilent, RereadSilence,
     DropSilence, NoteCached, GetBidThenFetchBlock, Operation, TimerFires,
     UnsilenceBlock, BarrierBlock, FallBackOnCache, SilenceInTime, BidInTime,
     LateCompletion, TimeoutAfterCompletion, NextBlock, StoreLate, SendCall, Network,
     Reply, NoContent, Fail, HttpError, Register, RefreshConfig, Tick, envVars, vars
<1> QED
  BY <1>1 DEF TypeOK

\* A bid that may be consumed stays so: an expired one does not get younger.
LEMMA StaysConsumable ==
    ASSUME TypeOK, [Next]_vars, NEW b \in Bid \cup {NoBid}, Consumable(b)
    PROVE  Consumable(b)'
<1>1. b \in Bid /\ now \in Nat /\ now' \in Nat /\ now' >= now
  BY TimePasses DEF Consumable, TypeOK
<1>2. b.ttl \in Nat /\ b.born \in Nat
  BY <1>1 DEF Bid
<1>3. Expired(b) => Expired(b)'
  BY <1>1, <1>2 DEF Expired
<1> QED
  BY <1>3 DEF Consumable, Renewable, InSilenceMode

LEMMA SilenceStep ==
    ASSUME IInv, PassageInv, SilenceInv, [Next]_vars, Moves
    PROVE  SilenceInv'
<1>0. TypeOK /\ Barrier \in Threads /\ TypeOK'
  BY ThreadsDiffer, NextType DEF IInv
<1>1. \A t \in Threads : frame[t].bid \in Bid \cup {NoBid} /\ frame'[t].bid \in Bid \cup {NoBid}
  BY <1>0 DEF TypeOK, Frame
<1>2. RenewableInv'
  <2> SUFFICES ASSUME NEW t \in Threads, frame'[t].op = "remove"
               PROVE  Consumable(frame[t].bid)'
    BY DEF RenewableInv
  <2>1. PICK b : b = frame'[t].bid
    OBVIOUS
  <2>2. b \in Bid \cup {NoBid} /\ Consumable(b)
    BY <1>1, <2>1 DEF Moves, ReadsMove, SilenceInv, RenewableInv, Taking
  <2>3. Consumable(b)'
    BY <1>0, <2>2, StaysConsumable
  <2> QED
    BY <2>1, <2>3 DEF Consumable, Renewable, InSilenceMode, Expired
<1>3. frame'[Barrier].op \in PreStore =>
         /\ frame'[Barrier].load \in Loads
         /\ load'[frame'[Barrier].load].slot = load[frame'[Barrier].load].slot
         /\ load[frame'[Barrier].load].slot \in Slots
  <2> SUFFICES ASSUME frame'[Barrier].op \in PreStore
               PROVE  /\ frame'[Barrier].load \in Loads
                      /\ load'[frame'[Barrier].load].slot = load[frame'[Barrier].load].slot
                      /\ load[frame'[Barrier].load].slot \in Slots
    OBVIOUS
  <2>1. frame'[Barrier].load \in Loads
    BY <1>0 DEF TypeOK, PreStore
  <2> QED
    BY <1>0, <2>1, SlotsKept, FrameLoads DEF Load
<1>4. ArrivedInv'
  <2> SUFFICES ASSUME frame'[Barrier].op \in PreStore, NEW b \in frame'[Barrier].arrived
               PROVE  b.slot = load[frame'[Barrier].load].slot
    BY <1>3 DEF ArrivedInv
  <2>1. CASE frame[Barrier].op \in PreStore /\ frame'[Barrier].load = frame[Barrier].load
             /\ frame'[Barrier].arrived = frame[Barrier].arrived
    BY <2>1 DEF SilenceInv, ArrivedInv
  <2>2. CASE \E i \in DOMAIN barrierQ : frame'[Barrier].load = barrierQ[i].load
                                       /\ frame'[Barrier].arrived = barrierQ[i].bids
    BY <2>2 DEF IInv, SlotInv
  <2> QED
    BY <2>1, <2>2 DEF Moves, ArrivedMove
<1>5. SingleInv'
  BY DEF SingleInv, Moves, QueueMove, SilenceInv
<1>6. StoreInv'
  <2> SUFFICES ASSUME frame'[Barrier].op = "store", NEW s, s = load[frame'[Barrier].load].slot,
                      NEW r, r = cache'[s].req, cache'[s] # NoBid,
                      InSilenceMode(cache'[s]), ForLiveLoad(r)'
               PROVE  FALSE
    BY <1>3 DEF StoreInv, LiveSilence, InSilenceMode, ForLiveLoad, PreStore
  <2>1. /\ frame[Barrier].op = "store"
        /\ frame'[Barrier].load = frame[Barrier].load
        /\ cache'[s] = cache[s]
    BY DEF Moves, StoreMove
  <2>2. PICK b : b = cache[s]
    OBVIOUS
  <2>3. b \in Bid /\ s \in Slots
    BY <1>0, <1>3, <2>1, <2>2 DEF TypeOK, PreStore
  <2>4. b.req \in Requests /\ call[b.req] = "done"
    BY <2>2, <2>3 DEF PassageInv, ArrivalInv, Reached, Cached, Bid
  <2>5. ForLiveLoad(b.req)
    BY <2>1, <2>2, <2>4, ModesKept
  <2> QED
    BY <2>1, <2>2, <2>5 DEF SilenceInv, StoreInv, LiveSilence
<1> QED
  BY <1>2, <1>4, <1>5, <1>6 DEF SilenceInv

SilenceGoal == Moves /\ \A s \in Slots : SilenceStays(s)

\* Steps that touch neither the cache nor the threads.
LEMMA QuietSilence ==
    ASSUME UNCHANGED << cache, frame >>, QueueMove
    PROVE  SilenceGoal
  BY DEF SilenceGoal, Moves, ReadsMove, ArrivedMove, StoreMove, CacheMove, SilenceStays

LEMMA SameQueueSilence ==
    ASSUME UNCHANGED barrierQ
    PROVE  QueueMove
  BY DEF QueueMove

LEMMA LongerQueueSilence ==
    ASSUME TypeOK, NEW k, barrierQ' = Append(barrierQ, k), \A b, c \in k.bids : b = c,
           \A b \in k.bids : call[b.req] # "done"
    PROVE  QueueMove
<1>1. barrierQ \in Seq(Block)
  BY DEF TypeOK
<1>2. ASSUME NEW i \in DOMAIN barrierQ'
      PROVE  \/ i \in DOMAIN barrierQ /\ barrierQ'[i] = barrierQ[i]
             \/ barrierQ'[i] = k
  BY <1>1, <1>2
<1> QED
  BY <1>2 DEF QueueMove

\* A step of the thread t that leaves the cache and the barrier queue alone.
LEMMA FrameSilence ==
    ASSUME TypeOK, UNCHANGED << cache, barrierQ >>, NEW t \in Threads, NEW f,
           frame' = [frame EXCEPT ![t] = f],
           f.op \in Taking => f.bid = cache[load[f.load].slot],
           f.op = "remove" => Consumable(f.bid),
           t = Barrier /\ f.op \in PreStore =>
              /\ frame[t].op \in PreStore
              /\ f.load = frame[t].load
              /\ f.arrived = frame[t].arrived
              /\ f.op = "store" =>
                    LET b == cache[load[frame[t].load].slot]
                    IN  b # NoBid => ~InSilenceMode(b)
    PROVE  SilenceGoal
<1>1. /\ frame'[t] = f
      /\ \A u \in Threads : u # t => frame'[u] = frame[u]
  BY FrameStep
<1>2. ReadsMove
  BY <1>1 DEF ReadsMove, Taking
<1>3. ArrivedMove
  BY <1>1, ThreadsDiffer DEF ArrivedMove
<1>4. StoreMove
  BY <1>1, ThreadsDiffer DEF StoreMove, PreStore
<1> QED
  BY <1>2, <1>3, <1>4, SameQueueSilence DEF SilenceGoal, Moves, CacheMove, SilenceStays

LEMMA LoadCdbBidSilence ==
    ASSUME IInv, NEW t \in AppThreads, NEW l \in Loads, LoadCdbBid(t, l)
    PROVE  SilenceGoal
<1> DEFINE f == [Idle EXCEPT !.load = l,
                             !.op = IF cfg.live /\ ~CannotCallCdb THEN "silent" ELSE "get"]
<1>1. /\ frame' = [frame EXCEPT ![t] = f]
      /\ UNCHANGED << cache, barrierQ >>
  BY DEF LoadCdbBid
<1>2. f.op \notin Taking
  BY DEF Idle, Taking
<1>3. t \in Threads /\ t # Barrier
  BY ThreadsDiffer
<1> HIDE DEF f
<1> QED
  BY <1>1, <1>2, <1>3, FrameSilence DEF IInv, Taking

LEMMA GetBidSilence ==
    ASSUME IInv, NEW t \in Threads, GetBid(t)
    PROVE  SilenceGoal
<1> DEFINE b == cache[load[frame[t].load].slot]
           f == [frame[t] EXCEPT !.op = "remove", !.bid = b,
                                 !.result = IF Expired(b) THEN NoBid ELSE b]
<1>1. UNCHANGED << cache, barrierQ >>
  BY DEF GetBid
<1>2. CASE frame' = [frame EXCEPT ![t] = f] /\ Consumable(b)
  <2>1. /\ f.op = "remove" /\ f.bid = b /\ f.load = frame[t].load
        /\ f.bid = cache[load[f.load].slot]
    BY DEF IInv, TypeOK, Frame
  <2> HIDE DEF f, b
  <2> QED
    BY <1>1, <1>2, <2>1, FrameSilence DEF IInv, PreStore, Taking
<1>3. CASE frame' = [frame EXCEPT ![t] = Idle]
  <2>1. Idle.op = "idle"
    BY DEF Idle
  <2> QED
    BY <1>1, <1>3, <2>1, FrameSilence DEF IInv, PreStore, Taking
<1> QED
  BY <1>2, <1>3 DEF GetBid, AfterGetBid

LEMMA RereadSilenceSilence ==
    ASSUME IInv, NEW t \in Threads, RereadSilence(t)
    PROVE  SilenceGoal
<1> DEFINE f == [frame[t] EXCEPT !.op = "drop", !.bid = cache[load[frame[t].load].slot]]
<1>1. /\ UNCHANGED << cache, barrierQ >>
      /\ frame' = [frame EXCEPT ![t] = f]
      /\ frame[t].op = "unsilence"
  BY DEF RereadSilence
<1>2. /\ f.op = "drop" /\ f.load = frame[t].load /\ f.arrived = frame[t].arrived
      /\ f.bid = cache[load[f.load].slot]
  BY DEF IInv, TypeOK, Frame
<1> HIDE DEF f
<1> QED
  BY <1>1, <1>2, FrameSilence DEF IInv, PreStore, Taking

LEMMA IsSlotSilentSilence ==
    ASSUME IInv, NEW t \in Threads, IsSlotSilent(t)
    PROVE  SilenceGoal
<1> DEFINE b == cache[load[frame[t].load].slot]
           f(op) == [frame[t] EXCEPT !.op = op]
<1>0. TypeOK /\ frame[t].op = "silent" /\ UNCHANGED << cache, barrierQ >>
  BY DEF IsSlotSilent, IInv
<1>1. CASE frame' = [frame EXCEPT ![t] = f("store")] /\ (b # NoBid => ~InSilenceMode(b))
  <2>1. PICK g : g = f("store")
    OBVIOUS
  <2>2. g.op = "store" /\ g.load = frame[t].load /\ g.arrived = frame[t].arrived
    BY <1>0, <2>1 DEF TypeOK, Frame
  <2>3. frame' = [frame EXCEPT ![t] = g]
    BY <1>1, <2>1
  <2> HIDE DEF f
  <2> QED
    BY <1>0, <1>1, <2>2, <2>3, FrameSilence DEF PreStore, Taking
<1>2. CASE frame' = [frame EXCEPT ![t] = f("unsilence")]
  <2>1. PICK g : g = f("unsilence")
    OBVIOUS
  <2>2. g.op = "unsilence" /\ g.load = frame[t].load /\ g.arrived = frame[t].arrived
    BY <1>0, <2>1 DEF TypeOK, Frame
  <2>3. frame' = [frame EXCEPT ![t] = g]
    BY <1>2, <2>1
  <2> HIDE DEF f
  <2> QED
    BY <1>0, <2>2, <2>3, FrameSilence DEF PreStore, Taking
<1>3. CASE frame' = [frame EXCEPT ![t] = Idle]
  <2>1. Idle.op = "idle"
    BY DEF Idle
  <2> QED
    BY <1>0, <1>3, <2>1, FrameSilence DEF PreStore, Taking
<1> QED
  BY <1>1, <1>2, <1>3 DEF IsSlotSilent, SlotIsNotSilent

LEMMA EmptiedSilence ==
    ASSUME TypeOK, NEW t \in Threads, NEW f, frame' = [frame EXCEPT ![t] = f],
           frame[t].load \in Loads, cache' = Emptied(load[frame[t].load].slot),
           UNCHANGED barrierQ, f.op \notin Taking,
           t = Barrier /\ f.op \in PreStore =>
              /\ frame[t].op \in PreStore
              /\ f.load = frame[t].load
              /\ f.arrived = frame[t].arrived
    PROVE  Moves
<1>1. /\ frame'[t] = f
      /\ \A u \in Threads : u # t => frame'[u] = frame[u]
  BY FrameStep
<1>2. /\ \A s \in Slots : cache'[s] \in {cache[s], NoBid}
      /\ cache'[load[frame[t].load].slot] = NoBid
  BY FrameLoads DEF TypeOK, Emptied, Load
<1>3. frame[Barrier].op = "store" => load[frame[Barrier].load].slot \in Slots
  BY FrameLoads, ThreadsDiffer DEF Load
<1>4. ReadsMove
  BY <1>1 DEF ReadsMove, Taking
<1>5. ArrivedMove
  BY <1>1, ThreadsDiffer DEF ArrivedMove
<1>6. StoreMove
  <2>1. CASE t = Barrier
    BY <1>1, <1>2, <2>1 DEF StoreMove, PreStore
  <2>2. CASE t # Barrier
    BY <1>1, <1>2, <1>3, <2>2, ThreadsDiffer DEF StoreMove
  <2> QED
    BY <2>1, <2>2
<1>7. CacheMove
  BY <1>2 DEF CacheMove
<1> QED
  BY <1>4, <1>5, <1>6, <1>7, SameQueueSilence DEF Moves

LEMMA RemoveBidSilence ==
    ASSUME IInv, SilenceInv, NEW t \in Threads, RemoveBid(t)
    PROVE  SilenceGoal
<1>0. TypeOK /\ frame[t].op = "remove" /\ frame[t].load \in Loads
  BY FrameLoads DEF RemoveBid, IInv
<1>1. /\ cache' = Emptied(load[frame[t].load].slot)
      /\ frame' = [frame EXCEPT ![t] = Idle]
      /\ UNCHANGED barrierQ
  BY DEF RemoveBid, AfterGetBid
<1>2. Idle.op = "idle"
  BY DEF Idle
<1>3. Moves
  BY <1>0, <1>1, <1>2, EmptiedSilence DEF PreStore, Taking
<1>4. ASSUME NEW s \in Slots PROVE SilenceStays(s)
  <2>1. CASE s = load[frame[t].load].slot
    <3>1. cache'[s] = NoBid
      BY <1>0, <1>1, <2>1 DEF TypeOK, Emptied
    <3>2. Consumable(frame[t].bid)
      BY <1>0 DEF SilenceInv, RenewableInv
    <3>3. InSilenceMode(cache[s]) /\ ~Expired(cache[s]) => frame[t].bid # cache[s]
      BY <3>2 DEF Consumable, Renewable
    <3>4. frame[t].bid # cache[s] => RemovalDecidedEarlier(s)
      BY <2>1 DEF RemovalDecidedEarlier
    <3> QED
      BY <3>1, <3>3, <3>4 DEF SilenceStays
  <2>2. CASE s # load[frame[t].load].slot
    BY <1>0, <1>1, <2>2 DEF TypeOK, Emptied, SilenceStays
  <2> QED
    BY <2>1, <2>2
<1> QED
  BY <1>3, <1>4 DEF SilenceGoal

LEMMA DropSilenceSilence ==
    ASSUME IInv, NEW t \in Threads, DropSilence(t)
    PROVE  SilenceGoal
<1>0. TypeOK /\ frame[t].op = "drop" /\ frame[t].load \in Loads
  BY FrameLoads DEF DropSilence, IInv
<1>1. PICK f : f = IF t = Barrier THEN [frame[t] EXCEPT !.op = "store"] ELSE Idle
  OBVIOUS
<1>2. /\ cache' = Emptied(load[frame[t].load].slot)
      /\ frame' = [frame EXCEPT ![t] = f]
      /\ UNCHANGED barrierQ
  BY <1>1 DEF DropSilence, SlotIsNotSilent
<1>3. Moves
  <2>1. t = Barrier => f.op = "store" /\ f.load = frame[t].load /\ f.arrived = frame[t].arrived
    BY <1>0, <1>1 DEF TypeOK, Frame
  <2>2. t # Barrier => f.op = "idle"
    BY <1>1 DEF Idle
  <2> QED
    BY <1>0, <1>2, <2>1, <2>2, EmptiedSilence DEF PreStore, Taking
<1>4. ASSUME NEW s \in Slots PROVE SilenceStays(s)
  BY <1>0, <1>2 DEF TypeOK, Emptied, SilenceStays, RemovalDecidedEarlier
<1> QED
  BY <1>3, <1>4 DEF SilenceGoal

LEMMA NoteCachedSilence ==
    ASSUME IInv, NEW t \in Threads, NoteCached(t)
    PROVE  SilenceGoal
<1>1. /\ frame' = [frame EXCEPT ![t] = Idle]
      /\ UNCHANGED << cache, barrierQ >>
  BY DEF NoteCached
<1>2. Idle.op = "idle"
  BY DEF Idle
<1> QED
  BY <1>1, <1>2, FrameSilence DEF IInv, PreStore, Taking

\* setBid files bids under their own slots, and only there.
LEMMA SetBidsFiles ==
    ASSUME TypeOK, NEW B, SetBids(B), NEW s \in Slots
    PROVE  \/ cache'[s] = cache[s]
           \/ cache'[s] \in B /\ cache'[s].slot = s /\ cache'[s].valid
  BY DEF SetBids, TypeOK

LEMMA StoreLateSilence ==
    ASSUME IInv, SilenceInv, StoreLate
    PROVE  SilenceGoal
<1>0. /\ TypeOK /\ Barrier \in Threads /\ frame[Barrier].op = "store"
      /\ SetBids(frame[Barrier].arrived)
      /\ UNCHANGED barrierQ
  BY ThreadsDiffer DEF StoreLate, IInv
<1>1. PICK f : f = [frame[Barrier] EXCEPT !.op = "note"]
  OBVIOUS
<1>2. frame' = [frame EXCEPT ![Barrier] = f]
  BY <1>1 DEF StoreLate
<1>3. f.op = "note"
  BY <1>0, <1>1 DEF TypeOK, Frame
<1>4. /\ frame'[Barrier] = f
      /\ \A u \in Threads : u # Barrier => frame'[u] = frame[u]
  BY <1>0, <1>2, FrameStep
<1>5. ReadsMove /\ ArrivedMove /\ StoreMove
  BY <1>3, <1>4 DEF ReadsMove, ArrivedMove, StoreMove, PreStore, Taking
<1>7. CacheMove
  <2> SUFFICES ASSUME NEW s \in Slots, cache'[s] # cache[s]
               PROVE  cache'[s].valid /\ Coming(cache'[s])
    BY DEF CacheMove
  <2>1. cache'[s] \in frame[Barrier].arrived /\ cache'[s].valid
    BY <1>0, SetBidsFiles
  <2> QED
    BY <1>0, <2>1 DEF Coming, InHand, PreStore
<1>6. ASSUME NEW s \in Slots PROVE SilenceStays(s)
  <2>1. CASE s = load[frame[Barrier].load].slot
    BY <1>0, <2>1 DEF SilenceInv, StoreInv, LiveSilence, SilenceStays
  <2>2. CASE s # load[frame[Barrier].load].slot
    <3>1. \A b \in frame[Barrier].arrived : b.slot # s
      BY <1>0, <2>2 DEF SilenceInv, ArrivedInv, PreStore
    <3>2. cache'[s] = cache[s]
      BY <1>0, <3>1, SetBidsFiles
    <3> QED
      BY <3>2 DEF SilenceStays
  <2> QED
    BY <2>1, <2>2
<1> QED
  BY <1>0, <1>5, <1>6, <1>7, SameQueueSilence DEF SilenceGoal, Moves

\* The blocks of the barrier queue.
LEMMA ShorterQueueSilence ==
    ASSUME IInv, NEW k, NextBlock(k)
    PROVE  QueueMove
  BY NextBlockInv DEF QueueMove

LEMMA FallBackSilence ==
    ASSUME IInv, NEW k, FallBackOnCache(k) \/ LateCompletion(k)
    PROVE  SilenceGoal
<1>0. TypeOK /\ Barrier \in Threads
  BY ThreadsDiffer DEF IInv
<1>1. NextBlock(k) /\ UNCHANGED cache
  BY DEF FallBackOnCache, LateCompletion
<1>2. PICK f : /\ frame' = [frame EXCEPT ![Barrier] = f]
               /\ f.op \in {"get", "silent"}
               /\ f.op = "silent" => f.load = k.load /\ f.arrived = k.bids
  <2>1. CASE FallBackOnCache(k)
    <3>1. [Idle EXCEPT !.op = "get", !.load = k.load].op = "get"
      BY DEF Idle
    <3> QED
      BY <2>1, <3>1 DEF FallBackOnCache
  <2>2. CASE LateCompletion(k)
    <3>1. PICK g : g = [Idle EXCEPT !.op = "silent", !.load = k.load, !.arrived = k.bids]
      OBVIOUS
    <3>2. g.op = "silent" /\ g.load = k.load /\ g.arrived = k.bids
      BY <3>1 DEF Idle
    <3> QED
      BY <2>2, <3>1, <3>2 DEF LateCompletion
  <2> QED
    BY <2>1, <2>2
<1>3. /\ frame'[Barrier] = f
      /\ \A u \in Threads : u # Barrier => frame'[u] = frame[u]
  BY <1>0, <1>2, FrameStep
<1>4. ReadsMove
  BY <1>2, <1>3 DEF ReadsMove, Taking
<1>5. ArrivedMove
  <2>1. \E i \in DOMAIN barrierQ : barrierQ[i] = k
    BY <1>0, <1>1, NextBlockType
  <2> QED
    BY <1>2, <1>3, <2>1 DEF ArrivedMove, PreStore
<1>6. StoreMove
  BY <1>2, <1>3 DEF StoreMove
<1>7. CacheMove /\ \A s \in Slots : SilenceStays(s)
  BY <1>1 DEF CacheMove, SilenceStays
<1> QED
  BY <1>1, <1>4, <1>5, <1>6, <1>7, ShorterQueueSilence DEF SilenceGoal, Moves

LEMMA SilenceInTimeSilence ==
    ASSUME IInv, SilenceInv, NEW k, SilenceInTime(k)
    PROVE  SilenceGoal
<1>0. TypeOK /\ Barrier \in Threads
  BY ThreadsDiffer DEF IInv
<1>1. /\ NextBlock(k) /\ k \in Block /\ SetBids(k.bids)
      /\ \E c \in k.bids : InSilenceMode(c)
  BY NextBlockInv DEF SilenceInTime, Silences
<1>2. \A b, c \in k.bids : b = c
  <2>1. \E i \in DOMAIN barrierQ : barrierQ[i] = k
    BY <1>0, <1>1, NextBlockType
  <2> QED
    BY <2>1 DEF SilenceInv, SingleInv
<1>3. PICK f : f = [Idle EXCEPT !.op = "noteSilence", !.load = k.load, !.arrived = k.bids]
  OBVIOUS
<1>4. f.op = "noteSilence" /\ frame' = [frame EXCEPT ![Barrier] = f]
  BY <1>3 DEF Idle, SilenceInTime
<1>5. /\ frame'[Barrier] = f
      /\ \A u \in Threads : u # Barrier => frame'[u] = frame[u]
  BY <1>0, <1>4, FrameStep
<1>6. ReadsMove /\ ArrivedMove /\ StoreMove
  BY <1>4, <1>5 DEF ReadsMove, ArrivedMove, StoreMove, PreStore, Taking
<1>8. CacheMove
  <2> SUFFICES ASSUME NEW s \in Slots, cache'[s] # cache[s]
               PROVE  cache'[s].valid /\ Coming(cache'[s])
    BY DEF CacheMove
  <2>1. cache'[s] \in k.bids /\ cache'[s].valid
    BY <1>0, <1>1, SetBidsFiles
  <2>2. \E i \in DOMAIN barrierQ : barrierQ[i] = k
    BY <1>0, <1>1, NextBlockType
  <2> QED
    BY <2>1, <2>2 DEF Coming, InQueue
<1>7. ASSUME NEW s \in Slots PROVE SilenceStays(s)
  <2>1. CASE cache'[s] = cache[s]
    BY <2>1 DEF SilenceStays
  <2>2. CASE cache'[s] \in k.bids
    <3>1. PICK b : b = cache'[s]
      OBVIOUS
    <3>2. InSilenceMode(b) /\ b # NoBid
      BY <1>1, <1>2, <2>2, <3>1, ConstantsAssumption DEF Block
    <3> QED
      BY <3>1, <3>2 DEF SilenceStays, InSilenceMode
  <2> QED
    BY <1>0, <1>1, <2>1, <2>2, SetBidsFiles
<1> QED
  BY <1>1, <1>6, <1>7, <1>8, ShorterQueueSilence DEF SilenceGoal, Moves

\* An answer of CDB, whose bids are bids of the call r.
LEMMA CdbResponseSilence ==
    ASSUME IInv, NEW r \in Requests, NEW B \in SUBSET Bid, CdbResponseHandler(r, B),
           \A b \in B : b.req = r, call[r] # "done",
           ForLiveLoad(r) => \A b, c \in B : b = c,
           UNCHANGED load
    PROVE  SilenceGoal
<1>0. TypeOK /\ Session \in Threads /\ Barrier \in Threads /\ Barrier # Session
  BY ThreadsDiffer DEF IInv
<1>1. CASE ForLiveLoad(r)
  <2>1. PICK k : k = [kind |-> "completion", load |-> r, bids |-> B]
    OBVIOUS
  <2>2. barrierQ' = Append(barrierQ, k) /\ UNCHANGED << cache, frame >>
    BY <1>1, <2>1 DEF CdbResponseHandler
  <2>3. (\A b, c \in k.bids : b = c) /\ \A b \in k.bids : call[b.req] # "done"
    BY <1>1, <2>1
  <2> QED
    BY <1>0, <2>2, <2>3, LongerQueueSilence, QuietSilence
<1>2. CASE ~ForLiveLoad(r)
  <2>1. PICK f : f = [frame[Session] EXCEPT !.op = IF B = {} THEN "idle" ELSE "note",
                                            !.arrived = B]
    OBVIOUS
  <2>2. /\ SetBids(B) /\ UNCHANGED barrierQ
        /\ frame' = [frame EXCEPT ![Session] = f]
    BY <1>2, <2>1 DEF CdbResponseHandler
  <2>3. f.op \in {"idle", "note"}
    BY <1>0, <2>1 DEF TypeOK, Frame
  <2>4. /\ frame'[Session] = f
        /\ \A u \in Threads : u # Session => frame'[u] = frame[u]
    BY <1>0, <2>2, FrameStep
  <2>5. ASSUME NEW s \in Slots, cache'[s] # cache[s]
        PROVE  cache'[s] # NoBid /\ cache'[s].req = r /\ cache'[s].valid
    BY <1>0, <2>2, <2>5, SetBidsFiles, ConstantsAssumption
  <2>6. ~ForLiveLoad(r)'
    BY <1>2 DEF ForLiveLoad
  <2>7. ReadsMove
    BY <2>3, <2>4 DEF ReadsMove, Taking
  <2>8. ArrivedMove
    BY <1>0, <2>4 DEF ArrivedMove
  <2>9. StoreMove
    <3> SUFFICES ASSUME frame[Barrier].op = "store",
                        NEW s, s = load[frame[Barrier].load].slot
                 PROVE  \/ cache'[s] = cache[s]
                        \/ \E q \in Requests : q = cache'[s].req /\ ~ForLiveLoad(q)'
      BY <1>0, <2>4 DEF StoreMove
    <3>1. s \in Slots
      BY <1>0, FrameLoads DEF Load
    <3> QED
      BY <2>5, <2>6, <3>1
  <2>10. ASSUME NEW s \in Slots PROVE SilenceStays(s)
    BY <1>2, <2>5 DEF SilenceStays
  <2>11. CacheMove
    BY <2>5 DEF CacheMove
  <2> QED
    BY <2>2, <2>7, <2>8, <2>9, <2>10, <2>11, SameQueueSilence DEF SilenceGoal, Moves
<1> QED
  BY <1>1, <1>2

LEMMA ReplySilence ==
    ASSUME IInv, NEW r \in Requests, Reply(r)
    PROVE  SilenceGoal
<1>1. PICK S \in SUBSET SlotsOf(r) : \E offer \in [S -> Offers] :
         CdbResponseHandler(r, {BidFor(r, s, offer[s]) : s \in S})
  BY DEF Reply
<1>2. PICK offer \in [S -> Offers] :
         CdbResponseHandler(r, {BidFor(r, s, offer[s]) : s \in S})
  BY <1>1
<1>3. PICK B : B = {BidFor(r, s, offer[s]) : s \in S}
  OBVIOUS
<1>4. S \subseteq Slots
  BY FrameLoads DEF SlotsOf, IInv, Load, Requests
<1>5. \A s \in S : BidFor(r, s, offer[s]) \in Bid
  BY <1>2, <1>4, BidForType DEF IInv
<1>6. B \in SUBSET Bid /\ \A b \in B : b.req = r
  BY <1>3, <1>5 DEF BidFor
<1>7. ForLiveLoad(r) => \A b, c \in B : b = c
  BY <1>3, ConstantsAssumption DEF ForLiveLoad, SlotsOf
<1>8. UNCHANGED load /\ call[r] # "done"
  BY DEF Reply, Answerable
<1> QED
  BY <1>2, <1>3, <1>6, <1>7, <1>8, CdbResponseSilence

LEMMA EmptyResponseSilence ==
    ASSUME IInv, NEW r \in Requests, NoContent(r) \/ Fail(r)
    PROVE  SilenceGoal
<1>1. CdbResponseHandler(r, {}) /\ UNCHANGED load /\ call[r] # "done"
  BY DEF NoContent, Fail, Answerable
<1> QED
  BY <1>1, CdbResponseSilence

LEMMA OperationSilence ==
    ASSUME IInv, NEW l \in Loads, Operation(l) \/ TimerFires(l)
    PROVE  SilenceGoal
<1>0. TypeOK /\ UNCHANGED << cache, frame >>
  BY DEF IInv, Operation, TimerFires
<1>1. CASE UNCHANGED barrierQ
  BY <1>0, <1>1, SameQueueSilence, QuietSilence
<1>2. CASE \E k : k.bids = {} /\ barrierQ' = Append(barrierQ, k)
  BY <1>0, <1>2, LongerQueueSilence, QuietSilence
<1> QED
  BY <1>1, <1>2 DEF Operation, TimerFires

LEMMA NextSilence ==
    ASSUME IInv, PassageInv, SilenceInv, [Next]_vars
    PROVE  SilenceGoal
<1>0. TypeOK
  BY DEF IInv
<1>1. ASSUME NEW t \in AppThreads, NEW l \in Loads, LoadCdbBid(t, l) PROVE SilenceGoal
  BY <1>1, LoadCdbBidSilence
<1>2. ASSUME NEW t \in Threads, CacheStep(t) PROVE SilenceGoal
  BY <1>2, GetBidSilence, RemoveBidSilence, IsSlotSilentSilence, RereadSilenceSilence,
     DropSilenceSilence, NoteCachedSilence DEF CacheStep
<1>3. ASSUME NEW l \in Loads, GetBidThenFetchBlock(l) PROVE SilenceGoal
  BY <1>3, SameQueueSilence, QuietSilence DEF GetBidThenFetchBlock
<1>4. ASSUME NEW l \in Loads, Operation(l) \/ TimerFires(l) PROVE SilenceGoal
  BY <1>4, OperationSilence
<1>5. ASSUME NEW k \in Block, BidInTime(k) \/ TimeoutAfterCompletion(k) PROVE SilenceGoal
  <2>1. NextBlock(k) /\ UNCHANGED << cache, frame >>
    BY <1>5 DEF BidInTime, TimeoutAfterCompletion
  <2> QED
    BY <2>1, ShorterQueueSilence, QuietSilence
<1>6. ASSUME NEW k \in Block, FallBackOnCache(k) \/ LateCompletion(k) \/ SilenceInTime(k)
      PROVE  SilenceGoal
  BY <1>6, FallBackSilence, SilenceInTimeSilence
<1>7. ASSUME StoreLate PROVE SilenceGoal
  BY <1>7, StoreLateSilence
<1>8. ASSUME NEW r \in Requests, SendCall(r) \/ Network(r) PROVE SilenceGoal
  <2>1. CASE SendCall(r) \/ HttpError(r)
    BY <2>1, SameQueueSilence, QuietSilence DEF SendCall, HttpError
  <2> QED
    BY <1>8, <2>1, ReplySilence, EmptyResponseSilence DEF Network
<1>9. ASSUME \/ \E post \in unsilenced : UnsilenceBlock(post)
             \/ Register \/ RefreshConfig \/ Tick \/ UNCHANGED vars
      PROVE  SilenceGoal
  <2>1. UNCHANGED << cache, frame, barrierQ >>
    BY <1>9 DEF UnsilenceBlock, Register, RefreshConfig, Tick, vars
  <2> QED
    BY <2>1, SameQueueSilence, QuietSilence
<1> QED
  BY <1>0, <1>1, <1>2, <1>3, <1>4, <1>5, <1>6, <1>7, <1>8, <1>9, NextCases

LEMMA InitSilence == Init => SilenceInv
<1> SUFFICES ASSUME Init PROVE SilenceInv
  OBVIOUS
<1>1. \A t \in Threads : frame[t].op = "idle"
  BY DEF Init, Idle
<1>2. DOMAIN barrierQ = {}
  BY DEF Init
<1> QED
  BY <1>1, <1>2, ThreadsDiffer
  DEF SilenceInv, StoreInv, ArrivedInv, SingleInv, RenewableInv, PreStore

\* A silence that a live answer brought outlives every late answer and every consumer that
\* sees it, whatever the threads, until it expires.  What takes it away earlier decided so
\* before it came, or is a prefetch.
THEOREM SilenceStaysUntilExpired == Spec => SilenceKept
<1>1. SilenceInv /\ (IInv /\ PassageInv) /\ [Next]_vars => SilenceInv'
  BY NextSilence, SilenceStep DEF SilenceGoal
<1>2. (IInv /\ PassageInv) /\ SilenceInv /\ [Next]_vars
      => [\A s \in Slots : SilenceStays(s)]_vars
  BY NextSilence DEF SilenceGoal
<1> QED
  BY <1>1, <1>2, InitSilence, Passage, PTL DEF Spec, SilenceKept

-----------------------------------------------------------------------------
(* A bid is sold once, unless two threads take it at the same time *)

\* No two threads are between the lookup of a bid and the removal of it: the getBid and
\* unsilenceSlotForAdUnit of different threads do not overlap on one bid.
OneReader ==
    \A t, u \in Threads :
        t # u /\ frame[t].op \in Taking /\ frame[u].op \in Taking /\ frame[t].bid # NoBid
            => frame[t].bid # frame[u].bid

\* The load l has the bid b: its posted block captured it, or its caller was given it.
Holds(l, b) ==
    \/ load[l].stage = "block" /\ load[l].bid = b
    \/ \E i \in DOMAIN answers[l] : answers[l][i] = b

\* A bid is held by one load, and by none while it is about to be removed for one.
HoldInv ==
    \A b \in Bid : ~InSilenceMode(b) =>
        /\ \A l, m \in Loads : Holds(l, b) /\ Holds(m, b) => l = m
        /\ BeingRead(b) => \A l \in Loads : ~Holds(l, b)

\* What a step adds: nothing but silences; or the bid c for the load k.
HoldsNoMore ==
    \A b \in Bid, l \in Loads : ~InSilenceMode(b) /\ Holds(l, b)' => Holds(l, b)
HoldsOneMore(k, c) ==
    \A b \in Bid, l \in Loads :
        ~InSilenceMode(b) /\ Holds(l, b)' => Holds(l, b) \/ (l = k /\ b = c)
HoldsMore(k, C) ==
    \A b \in Bid, l \in Loads : Holds(l, b)' => Holds(l, b) \/ (l = k /\ b \in C)

LEMMA BidsRead ==
    ASSUME IInv, PassageInv, SilenceInv, [Next]_vars, NEW b \in Bid, BeingRead(b)'
    PROVE  BeingRead(b) \/ Cached(b)
<1>1. PICK t \in Threads : frame'[t].op = "remove" /\ frame'[t].bid = b
  BY DEF BeingRead
<1>2. frame'[t] = frame[t] \/ b = cache[load[frame'[t].load].slot]
  BY <1>1, NextSilence DEF SilenceGoal, Moves, ReadsMove, Taking
<1>3. load[frame'[t].load].slot \in Slots
  <2>1. TypeOK /\ TypeOK'
    BY NextType DEF IInv
  <2>2. frame'[t].load \in Loads
    BY <1>1, <2>1 DEF TypeOK
  <2> QED
    BY <2>1, <2>2, FrameLoads DEF Load
<1> QED
  BY <1>1, <1>2, <1>3 DEF BeingRead, Cached

LEMMA CachedNotHeld ==
    ASSUME PassageInv, NEW b \in Bid, ~InSilenceMode(b), Cached(b), NEW l \in Loads
    PROVE  ~Holds(l, b)
  BY DEF PassageInv, GoneInv, Handed, Holds

LEMMA HoldQuiet ==
    ASSUME IInv, PassageInv, SilenceInv, HoldInv, [Next]_vars, HoldsNoMore
    PROVE  HoldInv'
<1> SUFFICES ASSUME NEW b \in Bid, ~InSilenceMode(b)
             PROVE  /\ \A l, m \in Loads : Holds(l, b)' /\ Holds(m, b)' => l = m
                    /\ BeingRead(b)' => \A l \in Loads : ~Holds(l, b)'
  BY DEF HoldInv, InSilenceMode
<1>1. \A l \in Loads : Holds(l, b)' => Holds(l, b)
  BY DEF HoldsNoMore
<1>2. BeingRead(b)' => \A l \in Loads : ~Holds(l, b)
  BY BidsRead, CachedNotHeld DEF HoldInv
<1> QED
  BY <1>1, <1>2 DEF HoldInv

LEMMA HoldTaken ==
    ASSUME IInv, PassageInv, SilenceInv, HoldInv, [Next]_vars, NEW k \in Loads,
           NEW c \in Bid, HoldsOneMore(k, c),
           ~InSilenceMode(c) => ~BeingRead(c)' /\ \A l \in Loads : ~Holds(l, c)
    PROVE  HoldInv'
<1> SUFFICES ASSUME NEW b \in Bid, ~InSilenceMode(b)
             PROVE  /\ \A l, m \in Loads : Holds(l, b)' /\ Holds(m, b)' => l = m
                    /\ BeingRead(b)' => \A l \in Loads : ~Holds(l, b)'
  BY DEF HoldInv, InSilenceMode
<1>1. \A l \in Loads : Holds(l, b)' => Holds(l, b) \/ (l = k /\ b = c)
  BY DEF HoldsOneMore
<1>2. BeingRead(b)' => \A l \in Loads : ~Holds(l, b)
  BY BidsRead, CachedNotHeld DEF HoldInv
<1> QED
  BY <1>1, <1>2 DEF HoldInv

\* A load that changes, with the answers as they are or one more for it.
LEMMA LoadHolds ==
    ASSUME TypeOK, NEW k \in Loads, NEW x, load' = [load EXCEPT ![k] = x], NEW C,
           x.stage = "block" => x.bid \in C \/ (load[k].stage = "block" /\ x.bid = load[k].bid),
           UNCHANGED answers \/ \E d \in C : Answer(k, d)
    PROVE  HoldsMore(k, C)
<1> SUFFICES ASSUME NEW b \in Bid, NEW l \in Loads, Holds(l, b)'
             PROVE  Holds(l, b) \/ (l = k /\ b \in C)
  BY DEF HoldsMore
<1>1. /\ load'[k] = x
      /\ \A m \in Loads : m # k => load'[m] = load[m]
  BY LoadStep
<1>2. CASE load'[l].stage = "block" /\ load'[l].bid = b
  BY <1>1, <1>2 DEF Holds
<1>3. ASSUME NEW i \in DOMAIN answers'[l], answers'[l][i] = b
      PROVE  Holds(l, b) \/ (l = k /\ b \in C)
  <2>1. CASE UNCHANGED answers
    BY <1>3, <2>1 DEF Holds
  <2>2. CASE \E d \in C : Answer(k, d)
    <3>1. PICK d \in C : Answer(k, d)
      BY <2>2
    <3>2. /\ answers'[k] = Append(answers[k], d)
          /\ \A m \in Loads : m # k => answers'[m] = answers[m]
      BY <3>1, AnswerStep
    <3>3. CASE l = k
      <4>1. answers[k] \in Seq(Bid \cup {NoBid})
        BY DEF TypeOK
      <4>2. \/ i \in DOMAIN answers[k] /\ answers'[k][i] = answers[k][i]
            \/ answers'[k][i] = d
        BY <1>3, <3>2, <3>3, <4>1
      <4> QED
        BY <1>3, <3>3, <4>2 DEF Holds
    <3>4. CASE l # k
      BY <1>3, <3>2, <3>4 DEF Holds
    <3> QED
      BY <3>3, <3>4
  <2> QED
    BY <2>1, <2>2
<1> QED
  BY <1>2, <1>3 DEF Holds

LEMMA SameHolds ==
    ASSUME UNCHANGED << load, answers >>
    PROVE  HoldsNoMore
  BY DEF HoldsNoMore, Holds

\* A load that captures nothing and is answered with nothing.
LEMMA LoadHoldsNoMore ==
    ASSUME TypeOK, NEW k \in Loads, NEW x, load' = [load EXCEPT ![k] = x],
           x.stage = "block" => load[k].stage = "block" /\ x.bid = load[k].bid,
           UNCHANGED answers \/ Answer(k, NoBid)
    PROVE  HoldsNoMore
<1>1. \A d : Answer(k, d) => \E e \in {d} : Answer(k, e)
  OBVIOUS
<1>2. HoldsMore(k, {NoBid})
  BY <1>1, LoadHolds
<1> QED
  BY <1>2, ConstantsAssumption DEF HoldsMore, HoldsNoMore

LEMMA AfterGetBidHolds ==
    ASSUME TypeOK, NEW t, NEW k \in Loads, NEW c, NEW consumed, NEW result,
           AfterGetBid(t, k, c, consumed, result)
    PROVE  HoldsMore(k, {c, result})
<1> DEFINE x == [load[k] EXCEPT !.stage = "block", !.bid = c, !.consumed = consumed]
           y == [load[k] EXCEPT !.stage = IF t = Barrier THEN "racing" ELSE "done",
                                !.handled = (t = Barrier)]
<1>0. load[k] \in Load
  BY FrameLoads
<1>1. CASE load' = [load EXCEPT ![k] = x] /\ UNCHANGED answers
  <2>1. x.bid \in {c, result}
    BY <1>0 DEF Load
  <2> HIDE DEF x
  <2> QED
    BY <1>1, <2>1, LoadHolds
<1>2. CASE load' = [load EXCEPT ![k] = y] /\ Answer(k, result)
  <2>1. y.stage # "block"
    BY <1>0 DEF Load
  <2>2. \E d \in {c, result} : Answer(k, d)
    BY <1>2
  <2> HIDE DEF y
  <2> QED
    BY <1>2, <2>1, <2>2, LoadHolds
<1> QED
  BY <1>1, <1>2 DEF AfterGetBid

LEMMA LoadCdbBidHolds ==
    ASSUME IInv, NEW t \in AppThreads, NEW l \in Loads, LoadCdbBid(t, l)
    PROVE  HoldsNoMore
<1>1. PICK x : x = [load[l] EXCEPT !.stage = "sync", !.live = cfg.live]
  OBVIOUS
<1>2. load' = [load EXCEPT ![l] = x] /\ UNCHANGED answers
  BY <1>1 DEF LoadCdbBid
<1>3. x.stage # "block"
  BY <1>1, FrameLoads DEF Load, IInv
<1> QED
  BY <1>2, <1>3, LoadHoldsNoMore DEF IInv

LEMMA GetBidHolds ==
    ASSUME IInv, NEW t \in Threads, GetBid(t)
    PROVE  HoldsNoMore
<1> DEFINE l == frame[t].load
           c == cache[load[l].slot]
<1>0. TypeOK /\ l \in Loads
  BY FrameLoads DEF GetBid, IInv
<1>1. CASE UNCHANGED << load, answers >>
  BY <1>1, SameHolds
<1>2. CASE ~Consumable(c) /\ AfterGetBid(t, l, c, FALSE, NoBid)
  <2> SUFFICES ASSUME NEW b \in Bid, NEW m \in Loads, ~InSilenceMode(b), Holds(m, b)'
               PROVE  Holds(m, b)
    BY DEF HoldsNoMore
  <2>1. HoldsMore(l, {c, NoBid})
    BY <1>0, <1>2, AfterGetBidHolds
  <2>2. b # NoBid /\ b # c
    BY <1>2, ConstantsAssumption DEF Consumable, Renewable
  <2> QED
    BY <2>1, <2>2 DEF HoldsMore
<1> QED
  BY <1>1, <1>2 DEF GetBid

LEMMA RemoveBidHolds ==
    ASSUME IInv, PassageInv, SilenceInv, HoldInv, OneReader, [Next]_vars,
           NEW t \in Threads, RemoveBid(t)
    PROVE  HoldInv'
<1>0. TypeOK /\ frame[t].op = "remove" /\ frame[t].load \in Loads
  BY FrameLoads DEF RemoveBid, IInv
<1>1. PICK c : c = frame[t].bid
  OBVIOUS
<1>2. c \in Bid
  BY <1>0, <1>1 DEF TypeOK, Frame, SilenceInv, RenewableInv, Consumable
<1>3. frame[t].result \in {c, NoBid}
  BY <1>0, <1>1 DEF PassageInv, ReadInv, WellRead
<1>4. HoldsOneMore(frame[t].load, c)
  <2> SUFFICES ASSUME NEW b \in Bid, NEW l \in Loads, Holds(l, b)'
               PROVE  Holds(l, b) \/ (l = frame[t].load /\ b = c)
    BY DEF HoldsOneMore
  <2>1. AfterGetBid(t, frame[t].load, c, TRUE, frame[t].result)
    BY <1>1 DEF RemoveBid
  <2>2. HoldsMore(frame[t].load, {c, frame[t].result})
    BY <1>0, <2>1, AfterGetBidHolds
  <2> QED
    BY <1>3, <2>2, ConstantsAssumption DEF HoldsMore
<1>5. ~BeingRead(c)'
  <2>1. /\ frame'[t] = Idle
        /\ \A u \in Threads : u # t => frame'[u] = frame[u]
    BY <1>0, FrameStep DEF RemoveBid, AfterGetBid
  <2>2. \A u \in Threads : u # t /\ frame[u].op = "remove" => frame[u].bid # c
    BY <1>0, <1>1, <1>2, ConstantsAssumption DEF OneReader, Taking
  <2> QED
    BY <2>1, <2>2 DEF BeingRead, Idle
<1>6. ~InSilenceMode(c) => \A l \in Loads : ~Holds(l, c)
  BY <1>0, <1>1, <1>2 DEF HoldInv, BeingRead
<1> QED
  BY <1>0, <1>2, <1>4, <1>5, <1>6, HoldTaken

LEMMA GetBidThenFetchBlockHolds ==
    ASSUME IInv, NEW l \in Loads, GetBidThenFetchBlock(l)
    PROVE  HoldsNoMore
<1>1. PICK x : x = [load[l] EXCEPT !.stage = "done"]
  OBVIOUS
<1>2. /\ load' = [load EXCEPT ![l] = x] /\ Answer(l, load[l].bid)
      /\ load[l].stage = "block"
  BY <1>1 DEF GetBidThenFetchBlock
<1>3. x.stage # "block"
  BY <1>1, FrameLoads DEF Load, IInv
<1>4. \E d \in {load[l].bid} : Answer(l, d)
  BY <1>2
<1>5. HoldsMore(l, {load[l].bid})
  BY <1>2, <1>3, <1>4, LoadHolds DEF IInv
<1> QED
  BY <1>2, <1>5 DEF Holds, HoldsMore, HoldsNoMore

LEMMA SlotIsNotSilentHolds ==
    ASSUME TypeOK, NEW t, NEW l \in Loads, SlotIsNotSilent(t, l), UNCHANGED answers
    PROVE  HoldsNoMore
<1>1. PICK x : x = [load[l] EXCEPT !.stage = "racing", !.operation = TRUE, !.timer = TRUE]
  OBVIOUS
<1>2. x.stage # "block"
  BY <1>1, FrameLoads DEF Load
<1>3. UNCHANGED load \/ load' = [load EXCEPT ![l] = x]
  BY <1>1 DEF SlotIsNotSilent
<1> QED
  BY <1>2, <1>3, SameHolds, LoadHoldsNoMore

LEMMA CacheStepHolds ==
    ASSUME IInv, NEW t \in Threads,
           IsSlotSilent(t) \/ RereadSilence(t) \/ DropSilence(t) \/ NoteCached(t)
    PROVE  HoldsNoMore
<1> DEFINE l == frame[t].load
<1>0. TypeOK /\ \A m \in Loads : load[m] \in Load
  BY FrameLoads DEF IInv
<1>1. frame[t].op \notin {"idle", "note"} => l \in Loads
  BY <1>0, FrameLoads
<1>2. CASE IsSlotSilent(t)
  <2>1. l \in Loads
    BY <1>1, <1>2 DEF IsSlotSilent
  <2>2. CASE SlotIsNotSilent(t, l) /\ UNCHANGED answers
    BY <1>0, <2>1, <2>2, SlotIsNotSilentHolds
  <2>3. CASE UNCHANGED << load, answers >>
    BY <2>3, SameHolds
  <2>4. CASE load' = [load EXCEPT ![l].stage = "done"] /\ Answer(l, NoBid)
    <3>1. PICK x : x = [load[l] EXCEPT !.stage = "done"]
      OBVIOUS
    <3>2. x.stage # "block" /\ load' = [load EXCEPT ![l] = x]
      BY <1>0, <2>1, <2>4, <3>1 DEF Load
    <3> QED
      BY <1>0, <2>1, <2>4, <3>2, LoadHoldsNoMore
  <2> QED
    BY <1>2, <2>2, <2>3, <2>4 DEF IsSlotSilent
<1>3. CASE RereadSilence(t)
  BY <1>3, SameHolds DEF RereadSilence
<1>4. CASE DropSilence(t)
  BY <1>0, <1>1, <1>4, SlotIsNotSilentHolds DEF DropSilence
<1>5. CASE NoteCached(t)
  <2>1. CASE UNCHANGED << load, answers >>
    BY <2>1, SameHolds
  <2>2. CASE frame[t].op = "noteSilence" /\ load' = [load EXCEPT ![l].handled = TRUE]
             /\ Answer(l, NoBid)
    <3>1. PICK x : x = [load[l] EXCEPT !.handled = TRUE]
      OBVIOUS
    <3>2. l \in Loads
      BY <1>1, <2>2
    <3>3. x.stage = load[l].stage /\ x.bid = load[l].bid /\ load' = [load EXCEPT ![l] = x]
      BY <1>0, <2>2, <3>1, <3>2 DEF Load
    <3> QED
      BY <1>0, <2>2, <3>2, <3>3, LoadHoldsNoMore
  <2> QED
    BY <1>5, <2>1, <2>2 DEF NoteCached
<1> QED
  BY <1>2, <1>3, <1>4, <1>5

LEMMA OperationHolds ==
    ASSUME IInv, NEW l \in Loads, Operation(l) \/ TimerFires(l)
    PROVE  HoldsNoMore
<1>0. TypeOK /\ load[l] \in Load
  BY FrameLoads DEF IInv
<1>1. PICK x \in {[load[l] EXCEPT !.operation = FALSE], [load[l] EXCEPT !.timer = FALSE]} :
         load' = [load EXCEPT ![l] = x]
  BY DEF Operation, TimerFires
<1>2. x.stage = load[l].stage /\ x.bid = load[l].bid
  BY <1>0, <1>1 DEF Load
<1>3. UNCHANGED answers
  BY DEF Operation, TimerFires
<1> QED
  BY <1>0, <1>1, <1>2, <1>3, LoadHoldsNoMore

LEMMA BidInTimeHolds ==
    ASSUME IInv, PassageInv, SilenceInv, HoldInv, [Next]_vars, NEW k, BidInTime(k)
    PROVE  HoldInv'
<1>0. TypeOK /\ k \in Block /\ k.load \in Loads /\ load[k.load] \in Load
  BY NextBlockInv, FrameLoads DEF IInv, BidInTime
<1>1. PICK c \in k.bids : Answer(k.load, c)
  BY DEF BidInTime, Usable
<1>2. c \in Bid
  BY <1>0, <1>1 DEF Block
<1>3. Coming(c)
  <2>1. \E i \in DOMAIN barrierQ : barrierQ[i] = k
    BY <1>0, NextBlockType DEF BidInTime
  <2> QED
    BY <1>1, <2>1 DEF Coming, InQueue
<1>4. ~Reached(c)
  BY <1>2, <1>3 DEF PassageInv, ArrivalInv
<1>5. PICK x : x = [load[k.load] EXCEPT !.handled = TRUE]
  OBVIOUS
<1>6. /\ load' = [load EXCEPT ![k.load] = x]
      /\ x.stage = load[k.load].stage /\ x.bid = load[k.load].bid
  BY <1>0, <1>5 DEF BidInTime, Load
<1>7. HoldsOneMore(k.load, c)
  <2> SUFFICES ASSUME NEW b \in Bid, NEW l \in Loads, Holds(l, b)'
               PROVE  Holds(l, b) \/ (l = k.load /\ b = c)
    BY DEF HoldsOneMore
  <2>1. \E d \in {c} : Answer(k.load, d)
    BY <1>1
  <2>2. HoldsMore(k.load, {c})
    BY <1>0, <1>6, <2>1, LoadHolds
  <2> QED
    BY <2>2 DEF HoldsMore
<1>8. ~BeingRead(c)' /\ \A l \in Loads : ~Holds(l, c)
  BY <1>4 DEF BidInTime, BeingRead, Reached, Captured, AlreadyGiven, Holds
<1> QED
  BY <1>0, <1>2, <1>7, <1>8, HoldTaken

LEMMA NextHold == IInv /\ PassageInv /\ SilenceInv /\ HoldInv /\ OneReader /\ [Next]_vars
                     => HoldInv'
<1> SUFFICES ASSUME IInv, PassageInv, SilenceInv, HoldInv, OneReader, [Next]_vars
             PROVE  HoldInv'
  OBVIOUS
<1>0. TypeOK
  BY DEF IInv
<1>1. HoldsNoMore => HoldInv'
  BY HoldQuiet
<1>2. ASSUME NEW t \in AppThreads, NEW l \in Loads, LoadCdbBid(t, l) PROVE HoldInv'
  BY <1>1, <1>2, LoadCdbBidHolds
<1>3. ASSUME NEW t \in Threads, CacheStep(t) PROVE HoldInv'
  BY <1>1, <1>3, GetBidHolds, RemoveBidHolds, CacheStepHolds DEF CacheStep
<1>4. ASSUME NEW l \in Loads, GetBidThenFetchBlock(l) \/ Operation(l) \/ TimerFires(l)
      PROVE  HoldInv'
  BY <1>1, <1>4, GetBidThenFetchBlockHolds, OperationHolds
<1>5. ASSUME NEW k, BidInTime(k) PROVE HoldInv'
  BY <1>5, BidInTimeHolds
<1>6. ASSUME \/ \E k : \/ FallBackOnCache(k)
                       \/ SilenceInTime(k)
                       \/ LateCompletion(k)
                       \/ TimeoutAfterCompletion(k)
             \/ StoreLate
             \/ \E r \in Requests : SendCall(r) \/ Network(r)
             \/ \E post \in unsilenced : UnsilenceBlock(post)
             \/ Register \/ RefreshConfig \/ Tick \/ UNCHANGED vars
      PROVE  HoldInv'
  <2>1. UNCHANGED << load, answers >>
    BY <1>6 DEF FallBackOnCache, SilenceInTime, LateCompletion, TimeoutAfterCompletion,
       StoreLate, SendCall, Network, Reply, NoContent, Fail, HttpError, UnsilenceBlock,
       Register, RefreshConfig, Tick, vars
  <2> QED
    BY <1>1, <2>1, SameHolds
<1> QED
  BY <1>0, <1>2, <1>3, <1>4, <1>5, <1>6, NextCases

LEMMA HoldSells ==
    ASSUME IInv, HoldInv
    PROVE  HandedToOneLoad
<1> SUFFICES ASSUME NEW l \in Loads, NEW m \in Loads, l # m,
                    NEW i \in DOMAIN answers[l], NEW j \in DOMAIN answers[m],
                    answers[l][i] # NoBid, answers[l][i] = answers[m][j]
             PROVE  InSilenceMode(answers[l][i])
  BY DEF HandedToOneLoad
<1>1. PICK b : b = answers[l][i]
  OBVIOUS
<1>2. b \in Bid
  BY <1>1 DEF IInv, TypeOK
<1>3. Holds(l, b) /\ Holds(m, b)
  BY <1>1 DEF Holds
<1> QED
  BY <1>1, <1>2, <1>3 DEF HoldInv

\* As long as no two threads take the same bid out of the cache at the same time, every bid
\* is sold to one load, in both bidding modes, with prefetches, late answers and any number
\* of threads: the unlocked getBid is the only way to sell a bid twice.
THEOREM SoldOnceWithoutOverlap == Spec /\ []OneReader => []HandedToOneLoad
<1>1. Init => HoldInv
  BY DEF Init, HoldInv, Holds, BeingRead, Idle
<1>2. Spec => []SilenceInv
  <2>1. SilenceInv /\ (IInv /\ PassageInv) /\ [Next]_vars => SilenceInv'
    BY NextSilence, SilenceStep DEF SilenceGoal
  <2> QED
    BY <2>1, InitSilence, Passage, PTL DEF Spec
<1>3. (IInv /\ PassageInv) /\ SilenceInv /\ HoldInv /\ OneReader /\ [Next]_vars => HoldInv'
  BY NextHold
<1>4. (IInv /\ PassageInv) /\ HoldInv => HandedToOneLoad
  BY HoldSells
<1> QED
  BY <1>1, <1>2, <1>3, <1>4, Passage, PTL DEF Spec

\* An application that loads from one thread, with a backend that asks for cache bidding
\* only: nothing ever runs on the barrier queue.
OneThread == \A t, u \in AppThreads : t = u
CacheOnly == \A c \in Configs : ~c.live
CacheModeInv ==
    /\ ~cfg.live
    /\ \A l \in Loads : ~load[l].live
    /\ barrierQ = << >>
    /\ frame[Barrier].op = "idle"

LEMMA ConfigStep ==
    ASSUME [Next]_vars PROVE cfg' = cfg \/ cfg' \in Configs
  BY DEF Next, LoadCdbBid, CacheStep, GetBid, RemoveBid, IsSlotSilent, RereadSilence,
     DropSilence, NoteCached, GetBidThenFetchBlock, Operation, TimerFires,
     UnsilenceBlock, BarrierBlock, FallBackOnCache, SilenceInTime, BidInTime,
     LateCompletion, TimeoutAfterCompletion, NextBlock, StoreLate, SendCall, Network,
     Reply, NoContent, Fail, HttpError, Register, RefreshConfig, Tick, envVars, vars

LEMMA NextCacheMode ==
    CacheOnly /\ IInv /\ CacheModeInv /\ [Next]_vars => CacheModeInv'
<1> SUFFICES ASSUME CacheOnly, IInv, CacheModeInv, [Next]_vars PROVE CacheModeInv'
  OBVIOUS
<1>0. TypeOK /\ Barrier \in Threads
  BY ThreadsDiffer DEF IInv
<1>1. ~cfg'.live
  BY ConfigStep DEF CacheOnly, CacheModeInv
<1>2. \A l \in Loads : ~load'[l].live
  BY NextMode DEF SameModes, CacheModeInv
<1>3. UNCHANGED barrierQ /\ frame'[Barrier] = frame[Barrier]
  <2>1. ASSUME NEW t \in Threads, NEW f, t # Barrier, frame' = [frame EXCEPT ![t] = f]
        PROVE  frame'[Barrier] = frame[Barrier]
    BY <1>0, <2>1, FrameStep
  <2>2. ASSUME NEW t \in AppThreads, NEW l \in Loads, LoadCdbBid(t, l)
        PROVE  UNCHANGED barrierQ /\ frame'[Barrier] = frame[Barrier]
    BY <2>1, <2>2, ThreadsDiffer DEF LoadCdbBid
  <2>3. ASSUME NEW t \in Threads, CacheStep(t)
        PROVE  UNCHANGED barrierQ /\ frame'[Barrier] = frame[Barrier]
    <3>1. t # Barrier
      BY <2>3 DEF CacheModeInv, CacheStep, GetBid, RemoveBid, IsSlotSilent, RereadSilence,
         DropSilence, NoteCached
    <3>2. \/ UNCHANGED frame
          \/ \E f : frame' = [frame EXCEPT ![t] = f]
      BY <2>3, <3>1 DEF CacheStep, GetBid, RemoveBid, AfterGetBid, IsSlotSilent,
         SlotIsNotSilent, RereadSilence, DropSilence, NoteCached
    <3>3. UNCHANGED barrierQ
      BY <2>3 DEF CacheStep, GetBid, RemoveBid, IsSlotSilent, RereadSilence, DropSilence,
         NoteCached
    <3> QED
      BY <2>1, <3>1, <3>2, <3>3
  <2>4. ASSUME NEW l \in Loads, GetBidThenFetchBlock(l) \/ Operation(l) \/ TimerFires(l)
        PROVE  UNCHANGED barrierQ /\ frame'[Barrier] = frame[Barrier]
    <3>1. ~load[l].operation /\ ~load[l].timer
      BY DEF IInv, StageInv, CacheModeInv
    <3> QED
      BY <2>4, <3>1 DEF GetBidThenFetchBlock, Operation, TimerFires
  <2>5. ASSUME NEW k, NextBlock(k) PROVE FALSE
    BY <2>5 DEF NextBlock, CacheModeInv
  <2>6. ASSUME NEW r \in Requests, SendCall(r) \/ Network(r)
        PROVE  UNCHANGED barrierQ /\ frame'[Barrier] = frame[Barrier]
    <3>1. CASE \E B : CdbResponseHandler(r, B)
      <4>1. PICK B : CdbResponseHandler(r, B)
        BY <3>1
      <4>2. ~ForLiveLoad(r)
        BY DEF ForLiveLoad, CacheModeInv
      <4>3. UNCHANGED barrierQ /\ \E f : frame' = [frame EXCEPT ![Session] = f]
        BY <4>1, <4>2 DEF CdbResponseHandler
      <4> QED
        BY <2>1, <4>3, ThreadsDiffer
    <3>2. CASE UNCHANGED << frame, barrierQ >>
      BY <3>2
    <3> QED
      BY <2>6, <3>1, <3>2 DEF SendCall, Network, Reply, NoContent, Fail, HttpError
  <2>7. ASSUME StoreLate PROVE FALSE
    BY <2>7 DEF StoreLate, CacheModeInv
  <2>8. ASSUME \/ \E post \in unsilenced : UnsilenceBlock(post)
               \/ Register \/ RefreshConfig \/ Tick \/ UNCHANGED vars
        PROVE  UNCHANGED barrierQ /\ frame'[Barrier] = frame[Barrier]
    BY <2>8 DEF UnsilenceBlock, Register, RefreshConfig, Tick, vars
  <2> QED
    BY <1>0, <2>2, <2>3, <2>4, <2>5, <2>6, <2>7, <2>8, NextCases
    DEF FallBackOnCache, SilenceInTime, BidInTime, LateCompletion, TimeoutAfterCompletion
<1> QED
  BY <1>1, <1>2, <1>3 DEF CacheModeInv

LEMMA CacheMode == CacheOnly => (Spec => []CacheModeInv)
<1> SUFFICES ASSUME CacheOnly PROVE Spec => []CacheModeInv
  OBVIOUS
<1>1. Init => CacheModeInv
  BY ThreadsDiffer DEF CacheOnly, CacheModeInv, Init, Idle
<1>2. IInv /\ CacheModeInv /\ [Next]_vars => CacheModeInv'
  BY NextCacheMode
<1> QED
  BY <1>1, <1>2, InductiveInvariant, PTL DEF Spec

LEMMA OneThreadReads == OneThread /\ CacheOnly => (Spec => []OneReader)
<1> SUFFICES ASSUME OneThread, CacheOnly PROVE Spec => []OneReader
  OBVIOUS
<1>1. IInv /\ CacheModeInv => OneReader
  BY ThreadsDiffer DEF OneThread, IInv, WorkerInv, CacheModeInv, OneReader, Taking
<1> QED
  BY <1>1, CacheMode, InductiveInvariant, PTL

\* An application that loads from one thread and bids from the cache is sold each bid once,
\* whenever the prefetches come back and the posted blocks run.
THEOREM SoldOnceFromOneThread == OneThread /\ CacheOnly => (Spec => []HandedToOneLoad)
<1> SUFFICES ASSUME OneThread, CacheOnly PROVE Spec => []HandedToOneLoad
  OBVIOUS
<1> QED
  BY OneThreadReads, SoldOnceWithoutOverlap, PTL

-----------------------------------------------------------------------------
(* One feedback message per impression *)

Closing == {"elapsed", "expired", "timeout"}
IdOf(b) == << b.req, b.slot >>
Open(id) == "start" \in metric[id] /\ queued[id] = << >>
Whole(id) == Open(id) /\ "end" \in metric[id]
Noted(id) == "cached" \in metric[id] \/ NoteComing(id)

\* Who will report that the bid b was consumed: a posted block that captured it, or one that
\* unsilenceSlotForAdUnit posted.
Reading(b) == \E t \in Threads : frame[t].op \in Taking /\ frame[t].bid = b
Claims(b) ==
    ({"block"} \X {l \in Loads : /\ load[l].stage = "block"
                                 /\ load[l].consumed
                                 /\ load[l].bid = b})
    \cup ({"post"} \X {p \in unsilenced : p[3] = b})

\* The message of the bid b is still to be closed by its consumption.
Due(b) == (Coming(b) /\ b.valid) \/ Cached(b) \/ Reading(b) \/ Claims(b) # {}

\* The bid b went through the cache.
Stored(b) == Cached(b) \/ Reading(b) \/ Claims(b) # {}

\* It is open until then, and it is the message of one bid.
DueInv ==
    /\ \A b \in Bid : Due(b) => call[b.req] = "done" /\ Whole(IdOf(b))
    /\ \A b, c \in Bid : Due(b) /\ Due(c) /\ IdOf(b) = IdOf(c) => b = c

\* One consumer will report a bid, and it has left every other place by then.
ClaimInv ==
    \A b \in Bid :
        /\ \A x, y \in Claims(b) : x = y
        /\ Claims(b) # {} => ~Coming(b) /\ ~Cached(b) /\ ~Reading(b)
        /\ Coming(b) => ~Reading(b)

DropInv ==
    \A t \in Threads :
        frame[t].op = "drop" /\ frame[t].bid # NoBid
            => frame[t].bid.slot = load[frame[t].load].slot

\* No message waits with a field that closes it.
OpenInv == \A id \in Ids : metric[id] \cap Closing = {}

\* Before its answer, a call has closed nothing; once sent, its messages have a start.
CallMetricInv ==
    \A r \in Requests :
        /\ call[r] # "failing"
        /\ \A s \in Slots :
              /\ call[r] \in {"none", "queued"} => queued[<< r, s >>] = << >>
              /\ call[r] = "sent" => /\ queued[<< r, s >>] = << >>
                                     /\ s \in SlotsOf(r) => "start" \in metric[<< r, s >>]

\* The message of a bid that went through the cache says so, or is about to.
NotedInv == \A b \in Bid : Stored(b) => Noted(IdOf(b))

\* The answers that wait in the barrier queue are those to the calls of their loads.
SourceInv == \A i \in DOMAIN barrierQ : \A b \in barrierQ[i].bids : b.req = barrierQ[i].load

MetricInv ==
    /\ DueInv /\ ClaimInv /\ DropInv /\ OpenInv /\ CallMetricInv
    /\ NotedInv /\ SourceInv /\ MetricClosedOnce

\* A thread that is about to note what it cached does nothing else before.
LEMMA FramesOfNotes ==
    ASSUME IInv, CallMetricInv, [Next]_vars, NEW t \in Threads,
           frame[t].op \in {"note", "noteSilence"}, ~NoteCached(t)
    PROVE  frame'[t] = frame[t]
<1>0. TypeOK
  BY DEF IInv
<1>1. ASSUME NEW u \in Threads, NEW f, frame' = [frame EXCEPT ![u] = f],
             frame[u].op \notin {"note", "noteSilence"}
      PROVE  frame'[t] = frame[t]
  BY <1>0, <1>1, FrameStep
<1>2. ASSUME NEW u \in AppThreads, NEW l \in Loads, LoadCdbBid(u, l) PROVE frame'[t] = frame[t]
  BY <1>1, <1>2, ThreadsDiffer DEF LoadCdbBid
<1>3. ASSUME NEW u \in Threads, CacheStep(u) PROVE frame'[t] = frame[t]
  <2>1. CASE NoteCached(u)
    <3>1. u # t
      BY <2>1
    <3> QED
      BY <1>0, <2>1, <3>1, FrameStep DEF NoteCached
  <2>2. CASE GetBid(u) \/ RemoveBid(u)
    BY <1>1, <2>2 DEF GetBid, RemoveBid, AfterGetBid
  <2>3. CASE IsSlotSilent(u) \/ RereadSilence(u) \/ DropSilence(u)
    BY <1>1, <2>3 DEF IsSlotSilent, RereadSilence, DropSilence, SlotIsNotSilent
  <2> QED
    BY <1>3, <2>1, <2>2, <2>3 DEF CacheStep
<1>4. ASSUME NEW l \in Loads, GetBidThenFetchBlock(l) \/ Operation(l) \/ TimerFires(l)
      PROVE  frame'[t] = frame[t]
  BY <1>4 DEF GetBidThenFetchBlock, Operation, TimerFires
<1>5. ASSUME NEW k \in Block,
             \/ FallBackOnCache(k)
             \/ SilenceInTime(k)
             \/ BidInTime(k)
             \/ LateCompletion(k)
             \/ TimeoutAfterCompletion(k)
      PROVE  frame'[t] = frame[t]
  BY <1>1, <1>5, ThreadsDiffer
  DEF FallBackOnCache, SilenceInTime, BidInTime, LateCompletion, TimeoutAfterCompletion,
      NextBlock
<1>6. ASSUME StoreLate PROVE frame'[t] = frame[t]
  BY <1>1, <1>6, ThreadsDiffer DEF StoreLate
<1>7. ASSUME NEW r \in Requests, SendCall(r) \/ Network(r) PROVE frame'[t] = frame[t]
  <2>1. CASE UNCHANGED frame
    BY <2>1
  <2>2. ASSUME NEW B, CdbResponseHandler(r, B), frame[Session].op = "idle"
        PROVE  frame'[t] = frame[t]
    BY <1>1, <2>2, ThreadsDiffer DEF CdbResponseHandler
  <2>3. call[r] # "failing"
    BY DEF CallMetricInv
  <2> QED
    BY <1>7, <2>1, <2>2, <2>3
    DEF SendCall, Network, Reply, NoContent, Fail, HttpError, Answerable
<1>8. ASSUME \/ \E post \in unsilenced : UnsilenceBlock(post)
             \/ Register \/ RefreshConfig \/ Tick \/ UNCHANGED vars
      PROVE  frame'[t] = frame[t]
  BY <1>8 DEF UnsilenceBlock, Register, RefreshConfig, Tick, vars
<1> QED
  BY <1>0, <1>2, <1>3, <1>4, <1>5, <1>6, <1>7, <1>8, NextCases

\* A note that is to come stays to come until it is taken.
LEMMA NotesKept ==
    ASSUME IInv, CallMetricInv, OpenInv, [Next]_vars, NEW id \in Ids, NoteComing(id)
    PROVE  Noted(id)'
<1>0. PICK t \in Threads :
         /\ frame[t].op \in {"note", "noteSilence"}
         /\ \E b \in frame[t].arrived : b.valid /\ Impression(b) = id
  BY DEF NoteComing
<1>1. PICK b \in frame[t].arrived : b.valid /\ Impression(b) = id
  BY <1>0
<1>2. CASE NoteCached(t)
  <2>0. b # NoBid /\ << b.req, b.slot >> = id
    <3>1. b \in Bid
      BY <1>0, <1>1 DEF IInv, TypeOK, Frame
    <3> QED
      BY <1>1, <3>1, ConstantsAssumption DEF Impression
  <2>1. PICK update : update = [i \in Ids |->
          IF \E c \in frame[t].arrived : c.valid /\ << c.req, c.slot >> = i
            THEN {"cached"} ELSE {}]
    OBVIOUS
  <2>2. UpdateMessages(update)
    BY <1>2, <2>1 DEF NoteCached, OnBidCached
  <2>3. update[id] = {"cached"}
    BY <1>1, <2>0, <2>1
  <2>4. ~IsReadyToSend(metric[id] \cup update[id])
    BY <2>3 DEF IsReadyToSend, OpenInv, Closing
  <2>5. metric'[id] = metric[id] \cup update[id]
    BY <2>2, <2>4 DEF UpdateMessages
  <2> QED
    BY <2>3, <2>5 DEF Noted
<1>3. CASE ~NoteCached(t)
  <2>1. frame'[t] = frame[t]
    BY <1>0, <1>3, FramesOfNotes
  <2>2. NoteComing(id)'
    BY <1>0, <1>1, <2>1 DEF NoteComing, Impression
  <2> QED
    BY <2>2 DEF Noted
<1> QED
  BY <1>2, <1>3

\* setBid is followed by the note of what it cached.
LEMMA NotesFollow ==
    ASSUME IInv, CallMetricInv, [Next]_vars, NEW b \in Bid, Cached(b)', ~Cached(b)
    PROVE  NoteComing(IdOf(b))'
<1>0. TypeOK /\ b # NoBid /\ Impression(b) = IdOf(b)
  BY ConstantsAssumption DEF IInv, Impression, IdOf
<1>1. PICK s \in Slots : cache'[s] = b /\ cache[s] # b
  BY DEF Cached
<1>2. ASSUME NEW B, SetBids(B), NEW t \in Threads, NEW f, frame' = [frame EXCEPT ![t] = f],
             f.op \in {"note", "noteSilence"}, f.arrived = B
      PROVE  NoteComing(IdOf(b))'
  <2>1. b \in B /\ b.valid
    BY <1>1, <1>2 DEF SetBids
  <2>2. frame'[t] = f
    BY <1>0, <1>2, FrameStep
  <2> QED
    BY <1>0, <1>2, <2>1, <2>2 DEF NoteComing, Impression
<1>3. ASSUME NEW t \in Threads, CacheStep(t) PROVE FALSE
  <2>1. ASSUME NEW r \in Slots, cache' = Emptied(r) PROVE FALSE
    BY <1>0, <1>1, <2>1 DEF Emptied, TypeOK
  <2>2. CASE RemoveBid(t) \/ DropSilence(t)
    <3>1. load[frame[t].load].slot \in Slots
      BY <1>0, <2>2, FrameLoads DEF RemoveBid, DropSilence, Load
    <3> QED
      BY <2>1, <2>2, <3>1 DEF RemoveBid, DropSilence
  <2> QED
    BY <1>1, <1>3, <2>2 DEF CacheStep, GetBid, IsSlotSilent, RereadSilence, NoteCached
<1>4. ASSUME NEW k \in Block,
             \/ FallBackOnCache(k)
             \/ SilenceInTime(k)
             \/ BidInTime(k)
             \/ LateCompletion(k)
             \/ TimeoutAfterCompletion(k)
      PROVE  NoteComing(IdOf(b))'
  <2>1. CASE SilenceInTime(k)
    <3>1. PICK f : f = [Idle EXCEPT !.op = "noteSilence", !.load = k.load, !.arrived = k.bids]
      OBVIOUS
    <3>2. f.op = "noteSilence" /\ f.arrived = k.bids
      BY <3>1 DEF Idle
    <3> QED
      BY <1>2, <2>1, <3>1, <3>2, ThreadsDiffer DEF SilenceInTime
  <2> QED
    BY <1>1, <1>4, <2>1 DEF FallBackOnCache, BidInTime, LateCompletion, TimeoutAfterCompletion
<1>5. ASSUME StoreLate PROVE NoteComing(IdOf(b))'
  <2>1. PICK f : f = [frame[Barrier] EXCEPT !.op = "note"]
    OBVIOUS
  <2>2. f.op = "note" /\ f.arrived = frame[Barrier].arrived
    BY <1>0, <2>1, ThreadsDiffer DEF TypeOK, Frame
  <2> QED
    BY <1>2, <1>5, <2>1, <2>2, ThreadsDiffer DEF StoreLate
<1>6. ASSUME NEW r \in Requests, SendCall(r) \/ Network(r) PROVE NoteComing(IdOf(b))'
  <2>1. ASSUME NEW B, CdbResponseHandler(r, B) PROVE NoteComing(IdOf(b))'
    <3>1. SetBids(B)
      BY <1>1, <2>1 DEF CdbResponseHandler
    <3>2. B # {}
      BY <1>1, <3>1 DEF SetBids
    <3>3. PICK f : f = [frame[Session] EXCEPT !.op = IF B = {} THEN "idle" ELSE "note",
                                              !.arrived = B]
      OBVIOUS
    <3>4. f.op = "note" /\ f.arrived = B
      BY <1>0, <3>2, <3>3, ThreadsDiffer DEF TypeOK, Frame
    <3>5. frame' = [frame EXCEPT ![Session] = f]
      BY <1>1, <2>1, <3>3 DEF CdbResponseHandler
    <3> QED
      BY <1>2, <3>1, <3>4, <3>5, ThreadsDiffer
  <2> QED
    BY <1>1, <1>6, <2>1 DEF SendCall, Network, Reply, NoContent, Fail, HttpError
<1>7. ASSUME NEW t \in AppThreads, NEW l \in Loads, LoadCdbBid(t, l) PROVE UNCHANGED cache
  BY <1>7 DEF LoadCdbBid
<1>8. ASSUME NEW l \in Loads, GetBidThenFetchBlock(l) \/ Operation(l) \/ TimerFires(l)
      PROVE  UNCHANGED cache
  BY <1>8 DEF GetBidThenFetchBlock, Operation, TimerFires
<1>9. ASSUME \/ \E post \in unsilenced : UnsilenceBlock(post)
             \/ Register \/ RefreshConfig \/ Tick \/ UNCHANGED vars
      PROVE  UNCHANGED cache
  BY <1>9 DEF UnsilenceBlock, Register, RefreshConfig, Tick, vars
<1> QED
  BY <1>0, <1>1, <1>3, <1>4, <1>5, <1>6, <1>7, <1>8, <1>9, NextCases

\* What a load was given, it keeps.
LEMMA StraightKept ==
    ASSUME IInv, [Next]_vars, NEW id, HandedStraight(id)
    PROVE  HandedStraight(id)'
<1>1. answers[id[1]] # << >> /\ id[1] \in Loads
  BY DEF HandedStraight
<1>2. answers'[id[1]] = answers[id[1]]
  BY <1>1, NextView DEF ViewStep, Unseen, Asks, Answers, IInv, TypeOK
<1> QED
  BY <1>2 DEF HandedStraight, Impression

\* The barrier queue is given what CDB answered to the call of a load.
LEMMA SourceStep ==
    ASSUME IInv, SourceInv, [Next]_vars
    PROVE  SourceInv'
<1>0. TypeOK /\ barrierQ \in Seq(Block)
  BY DEF IInv, TypeOK
<1>1. CASE UNCHANGED barrierQ
  BY <1>1 DEF SourceInv
<1>2. ASSUME NEW k, barrierQ' = Append(barrierQ, k), \A b \in k.bids : b.req = k.load
      PROVE  SourceInv'
  <2>1. \A i \in DOMAIN barrierQ' : barrierQ'[i] = k \/ \E j \in DOMAIN barrierQ :
                                                          barrierQ'[i] = barrierQ[j]
    BY <1>0, <1>2
  <2> QED
    BY <1>2, <2>1 DEF SourceInv
<1>3. ASSUME NEW k, NextBlock(k) PROVE SourceInv'
  <2>1. \A i \in DOMAIN barrierQ' : \E j \in DOMAIN barrierQ : barrierQ'[i] = barrierQ[j]
    BY <1>0, <1>3 DEF NextBlock
  <2> QED
    BY <2>1 DEF SourceInv
<1>4. ASSUME NEW l \in Loads, Operation(l) \/ TimerFires(l) PROVE SourceInv'
  <2>1. ASSUME NEW kind \in {"completion", "timeout"},
               barrierQ' = Append(barrierQ, [kind |-> kind, load |-> l, bids |-> {}])
        PROVE  SourceInv'
    BY <1>2, <2>1
  <2> QED
    BY <1>1, <1>4, <2>1 DEF Operation, TimerFires
<1>5. ASSUME NEW r \in Requests, SendCall(r) \/ Network(r) PROVE SourceInv'
  <2>1. ASSUME NEW B, CdbResponseHandler(r, B), \A b \in B : b.req = r PROVE SourceInv'
    <3>1. CASE ForLiveLoad(r)
      <4>1. PICK k : k = [kind |-> "completion", load |-> r, bids |-> B]
        OBVIOUS
      <4> QED
        BY <1>2, <2>1, <3>1, <4>1 DEF CdbResponseHandler
    <3>2. CASE ~ForLiveLoad(r)
      BY <1>1, <2>1, <3>2 DEF CdbResponseHandler
    <3> QED
      BY <3>1, <3>2
  <2>2. CASE Reply(r)
    <3>1. PICK S \in SUBSET SlotsOf(r) : \E offer \in [S -> Offers] :
             LET B == {BidFor(r, s, offer[s]) : s \in S} IN CdbResponseHandler(r, B)
      BY <2>2 DEF Reply
    <3>2. PICK offer \in [S -> Offers] :
             LET B == {BidFor(r, s, offer[s]) : s \in S} IN CdbResponseHandler(r, B)
      BY <3>1
    <3>3. PICK B : B = {BidFor(r, s, offer[s]) : s \in S} /\ CdbResponseHandler(r, B)
      BY <3>2
    <3>4. \A b \in B : b.req = r
      BY <3>3 DEF BidFor
    <3> QED
      BY <2>1, <3>3, <3>4
  <2> QED
    BY <1>1, <1>5, <2>1, <2>2 DEF SendCall, Network, NoContent, Fail, HttpError
<1>6. ASSUME NEW k \in Block,
             \/ FallBackOnCache(k)
             \/ SilenceInTime(k)
             \/ BidInTime(k)
             \/ LateCompletion(k)
             \/ TimeoutAfterCompletion(k)
      PROVE  SourceInv'
  BY <1>3, <1>6
  DEF FallBackOnCache, SilenceInTime, BidInTime, LateCompletion, TimeoutAfterCompletion
<1>7. ASSUME NEW t \in AppThreads, NEW l \in Loads, LoadCdbBid(t, l) PROVE UNCHANGED barrierQ
  BY <1>7 DEF LoadCdbBid
<1>8. ASSUME NEW t \in Threads, CacheStep(t) PROVE UNCHANGED barrierQ
  BY <1>8
  DEF CacheStep, GetBid, RemoveBid, IsSlotSilent, RereadSilence, DropSilence, NoteCached
<1>9. ASSUME NEW l \in Loads, GetBidThenFetchBlock(l) PROVE UNCHANGED barrierQ
  BY <1>9 DEF GetBidThenFetchBlock
<1>10. ASSUME \/ \E post \in unsilenced : UnsilenceBlock(post)
              \/ StoreLate \/ Register \/ RefreshConfig \/ Tick \/ UNCHANGED vars
       PROVE  UNCHANGED barrierQ
  BY <1>10 DEF UnsilenceBlock, StoreLate, Register, RefreshConfig, Tick, vars
<1> QED
  BY <1>0, <1>1, <1>4, <1>5, <1>6, <1>7, <1>8, <1>9, <1>10, NextCases

\* Where bids come from: CDB, the barrier queue, the cache.
LEMMA Flow ==
    ASSUME IInv, PassageInv, SilenceInv, [Next]_vars, NEW b \in Bid
    PROVE  /\ Coming(b)' => Coming(b) \/ call[b.req] # "done"
           /\ Cached(b)' => \/ Cached(b)
                            \/ b.valid /\ (Coming(b) \/ call[b.req] # "done")
           /\ Reading(b)' => Reading(b) \/ Cached(b)
<1>0. Moves /\ b # NoBid
  BY NextSilence, ConstantsAssumption DEF SilenceGoal
<1>1. ASSUME Coming(b)' PROVE Coming(b) \/ call[b.req] # "done"
  <2>1. CASE InQueue(b)'
    BY <1>0, <2>1 DEF InQueue, Coming, Moves, QueueMove
  <2>2. CASE InHand(b)'
    BY <1>0, <2>2 DEF InQueue, InHand, Coming, Moves, ArrivedMove
  <2> QED
    BY <1>1, <2>1, <2>2 DEF Coming
<1>2. ASSUME Cached(b)'
      PROVE  Cached(b) \/ (b.valid /\ (Coming(b) \/ call[b.req] # "done"))
  <2>1. PICK s \in Slots : cache'[s] = b
    BY <1>2 DEF Cached
  <2> QED
    BY <1>0, <2>1 DEF Cached, Coming, InQueue, InHand, Moves, CacheMove
<1>3. ASSUME Reading(b)' PROVE Reading(b) \/ Cached(b)
  <2>1. PICK t \in Threads : frame'[t].op \in Taking /\ frame'[t].bid = b
    BY <1>3 DEF Reading
  <2>2. frame'[t] = frame[t] \/ b = cache[load[frame'[t].load].slot]
    BY <1>0, <2>1 DEF Moves, ReadsMove
  <2>3. load[frame'[t].load].slot \in Slots
    <3>1. TypeOK /\ TypeOK'
      BY NextType DEF IInv
    <3>2. frame'[t].load \in Loads
      BY <2>1, <3>1 DEF TypeOK, Taking
    <3> QED
      BY <3>1, <3>2, FrameLoads DEF Load
  <2> QED
    BY <2>1, <2>2, <2>3 DEF Reading, Cached
<1> QED
  BY <1>1, <1>2, <1>3

\* No consumer more; or one more, x for the bid c.
ClaimsNoMore == \A b \in Bid : Claims(b)' \subseteq Claims(b)
ClaimsOneMore(c, x) ==
    \A b \in Bid : Claims(b)' \subseteq Claims(b) \cup {y \in {x} : b = c}

Arrives(b) == call[b.req] # "done" /\ call'[b.req] = "done"

LEMMA ArrivedBids ==
    ASSUME IInv, PassageInv, [Next]_vars, NEW b \in Bid, Coming(b)' \/ Cached(b)'
    PROVE  call'[b.req] = "done"
<1>1. PassageInv'
  BY NextPassage
<1>2. Reached(b)' \/ Coming(b)'
  BY DEF Reached
<1> QED
  BY <1>1, <1>2 DEF PassageInv, ArrivalInv

LEMMA ClaimQuiet ==
    ASSUME IInv, PassageInv, SilenceInv, MetricInv, [Next]_vars, ClaimsNoMore
    PROVE  /\ ClaimInv'
           /\ \A b \in Bid : Due(b)' => Due(b) \/ Arrives(b)
<1> SUFFICES ASSUME NEW b \in Bid
             PROVE  /\ \A x, y \in Claims(b)' : x = y
                    /\ Claims(b)' # {} => ~Coming(b)' /\ ~Cached(b)' /\ ~Reading(b)'
                    /\ Coming(b)' => ~Reading(b)'
                    /\ Due(b)' => Due(b) \/ Arrives(b)
  BY DEF ClaimInv
<1>1. Claims(b)' \subseteq Claims(b)
  BY DEF ClaimsNoMore
<1>2. /\ \A x, y \in Claims(b) : x = y
      /\ Claims(b) # {} => ~Coming(b) /\ ~Cached(b) /\ ~Reading(b)
      /\ Coming(b) => ~Reading(b) /\ ~Cached(b)
      /\ Due(b) => call[b.req] = "done"
  BY DEF MetricInv, ClaimInv, DueInv, PassageInv, ArrivalInv, Reached
<1>3. /\ Coming(b)' => Coming(b) \/ call[b.req] # "done"
      /\ Cached(b)' => Cached(b) \/ (b.valid /\ (Coming(b) \/ call[b.req] # "done"))
      /\ Reading(b)' => Reading(b) \/ Cached(b)
  BY Flow
<1>4. (Cached(b) \/ Reading(b) \/ Claims(b) # {}) => Due(b)
  BY DEF Due
<1>5. Claims(b)' # {} => ~Coming(b)' /\ ~Cached(b)' /\ ~Reading(b)'
  BY <1>1, <1>2, <1>3, <1>4
<1>6. Coming(b)' => ~Reading(b)'
  BY <1>2, <1>3, <1>4
<1>7. b.valid' = b.valid
  OBVIOUS
<1>8. Due(b)' => Due(b) \/ Arrives(b)
  BY <1>1, <1>3, <1>4, <1>7, ArrivedBids DEF Due, Arrives
<1> QED
  BY <1>1, <1>2, <1>5, <1>6, <1>8

LEMMA ClaimTaken ==
    ASSUME IInv, PassageInv, SilenceInv, MetricInv, [Next]_vars, NEW c \in Bid, NEW z,
           ClaimsOneMore(c, z), Reading(c), ~Reading(c)', ~Cached(c)'
    PROVE  /\ ClaimInv'
           /\ \A b \in Bid : Due(b)' => Due(b) \/ Arrives(b)
<1> SUFFICES ASSUME NEW b \in Bid
             PROVE  /\ \A x, y \in Claims(b)' : x = y
                    /\ Claims(b)' # {} => ~Coming(b)' /\ ~Cached(b)' /\ ~Reading(b)'
                    /\ Coming(b)' => ~Reading(b)'
                    /\ Due(b)' => Due(b) \/ Arrives(b)
  BY DEF ClaimInv
<1>1. Claims(b)' \subseteq Claims(b) \cup {y \in {z} : b = c}
  BY DEF ClaimsOneMore
<1>2. /\ \A x, y \in Claims(b) : x = y
      /\ Claims(b) # {} => ~Coming(b) /\ ~Cached(b) /\ ~Reading(b)
      /\ Coming(b) => ~Reading(b) /\ ~Cached(b)
      /\ Due(b) => call[b.req] = "done"
  BY DEF MetricInv, ClaimInv, DueInv, PassageInv, ArrivalInv, Reached
<1>3. /\ Coming(b)' => Coming(b) \/ call[b.req] # "done"
      /\ Cached(b)' => Cached(b) \/ (b.valid /\ (Coming(b) \/ call[b.req] # "done"))
      /\ Reading(b)' => Reading(b) \/ Cached(b)
  BY Flow
<1>4. (Cached(b) \/ Reading(b) \/ Claims(b) # {}) => Due(b)
  BY DEF Due
<1>5. Claims(b)' # {} => ~Coming(b)' /\ ~Cached(b)' /\ ~Reading(b)'
  <2>1. CASE b = c
    BY <1>2, <1>3, <1>4, <2>1
  <2>2. CASE b # c
    BY <1>1, <1>2, <1>3, <1>4, <2>2
  <2> QED
    BY <2>1, <2>2
<1>6. Coming(b)' => ~Reading(b)'
  BY <1>2, <1>3, <1>4
<1>7. \A x, y \in Claims(b)' : x = y
  BY <1>1, <1>2
<1>8. b.valid' = b.valid
  OBVIOUS
<1>9. Due(b)' => Due(b) \/ Arrives(b)
  BY <1>1, <1>3, <1>4, <1>8, ArrivedBids DEF Due, Arrives
<1> QED
  BY <1>5, <1>6, <1>7, <1>9

\* What MetricClosedOnce says of the message of an impression, once it is in the queue.
ClosedWell(id) ==
    LET m == queued[id][1]
    IN  /\ Len(queued[id]) = 1
        /\ "start" \in m
        /\ "elapsed" \in m =>
              /\ "end" \in m
              /\ "cached" \in m \cup metric[id] \/ HandedStraight(id) \/ NoteComing(id)
        /\ metric[id] \subseteq {"cached"}

\* What UpdateMessages does: it closes the messages of K and sets fields in others.
MetricMove(K) ==
    /\ MetricClosedOnce'
    /\ OpenInv'
    /\ \A id \in Ids \ K : queued'[id] = queued[id] /\ metric[id] \subseteq metric'[id]

LEMMA UpdateMove ==
    ASSUME IInv, MetricInv, [Next]_vars, NEW update, UpdateMessages(update), NEW K,
           \A id \in Ids : update[id] \cap Closing # {} => id \in K /\ Open(id),
           \A id \in Ids : ~(update[id] \subseteq {"cached"}) => queued[id] = << >>,
           \A id \in Ids : "elapsed" \in update[id]
                              => Whole(id) /\ (Noted(id) \/ HandedStraight(id)')
    PROVE  MetricMove(K)
<1>0. OpenInv /\ MetricClosedOnce
  BY DEF MetricInv
<1>1. PICK after : after = [id \in Ids |-> metric[id] \cup update[id]]
  OBVIOUS
<1>2. /\ metric' = [id \in Ids |-> IF IsReadyToSend(after[id]) THEN {} ELSE after[id]]
      /\ queued' = [id \in Ids |-> IF IsReadyToSend(after[id])
                                     THEN Append(queued[id], after[id])
                                     ELSE queued[id]]
  BY <1>1 DEF UpdateMessages
<1>3. ASSUME NEW id \in Ids
      PROVE  /\ metric'[id] \cap Closing = {}
             /\ queued'[id] # << >> => ClosedWell(id)'
             /\ id \notin K => queued'[id] = queued[id] /\ metric[id] \subseteq metric'[id]
  <2>1. after[id] = metric[id] \cup update[id]
    BY <1>1
  <2>2. metric[id] \cap Closing = {}
    BY <1>0 DEF OpenInv
  <2>3. CASE IsReadyToSend(after[id])
    <3>1. id \in K /\ Open(id)
      BY <2>1, <2>2, <2>3 DEF IsReadyToSend, Closing
    <3>2. queued'[id] = Append(queued[id], after[id]) /\ metric'[id] = {}
      BY <1>2, <2>3
    <3>3. queued'[id] = << after[id] >>
      BY <3>1, <3>2 DEF Open
    <3>4. "start" \in after[id]
      BY <2>1, <3>1 DEF Open
    <3>5. ASSUME "elapsed" \in after[id]
          PROVE  "end" \in after[id] /\ ("cached" \in after[id] \/ HandedStraight(id)'
                                          \/ NoteComing(id)')
      <4>1. Whole(id) /\ (Noted(id) \/ HandedStraight(id)')
        BY <2>1, <2>2, <3>5 DEF Closing
      <4>2. NoteComing(id) => NoteComing(id)'
        BY <3>2, NotesKept DEF MetricInv, Noted
      <4> QED
        BY <2>1, <4>1, <4>2 DEF Whole, Noted
    <3>6. Len(queued'[id]) = 1 /\ queued'[id][1] = after[id]
      BY <3>3
    <3> QED
      BY <2>2, <3>1, <3>2, <3>4, <3>5, <3>6 DEF ClosedWell
  <2>4. CASE ~IsReadyToSend(after[id])
    <3>1. queued'[id] = queued[id] /\ metric'[id] = after[id]
      BY <1>2, <2>4
    <3>2. metric'[id] \cap Closing = {}
      BY <2>4, <3>1 DEF IsReadyToSend, Closing
    <3>3. ASSUME queued[id] # << >> PROVE ClosedWell(id)'
      <4>1. ClosedWell(id) /\ update[id] \subseteq {"cached"}
        BY <1>0, <3>3 DEF MetricClosedOnce, ClosedWell
      <4>2. metric'[id] \subseteq {"cached"} /\ metric[id] \subseteq metric'[id]
        BY <2>1, <3>1, <4>1 DEF ClosedWell
      <4>3. /\ HandedStraight(id) => HandedStraight(id)'
            /\ NoteComing(id) => NoteComing(id)' \/ "cached" \in metric'[id]
        BY StraightKept, NotesKept DEF MetricInv, Noted
      <4> QED
        BY <3>1, <4>1, <4>2, <4>3 DEF ClosedWell
    <3> QED
      BY <2>1, <3>1, <3>2, <3>3
  <2> QED
    BY <2>3, <2>4
<1> QED
  BY <1>3 DEF MetricMove, MetricClosedOnce, ClosedWell, OpenInv

LEMMA SameMetric ==
    ASSUME IInv, MetricInv, [Next]_vars, UNCHANGED feedbackVars, NEW K
    PROVE  MetricMove(K)
<1>0. OpenInv /\ MetricClosedOnce /\ UNCHANGED << metric, queued >>
  BY DEF MetricInv, feedbackVars
<1>1. ASSUME NEW id \in Ids, queued'[id] # << >> PROVE ClosedWell(id)'
  <2>1. ClosedWell(id)
    BY <1>0, <1>1 DEF MetricClosedOnce, ClosedWell
  <2>2. /\ HandedStraight(id) => HandedStraight(id)'
        /\ NoteComing(id) => NoteComing(id)' \/ "cached" \in metric'[id]
    BY StraightKept, NotesKept DEF MetricInv, Noted
  <2> QED
    BY <1>0, <2>1, <2>2 DEF ClosedWell
<1>2. MetricClosedOnce'
  BY <1>1 DEF MetricClosedOnce, ClosedWell
<1> QED
  BY <1>0, <1>2 DEF OpenInv, MetricMove

\* What a step does to the calls: one whose message it closes was answered.
CallMove(K) ==
    \A r \in Requests :
        /\ call'[r] # "failing"
        /\ call'[r] \in {"none", "queued"} => call[r] \in {"none", "queued"}
        /\ call'[r] = "sent" =>
              \/ call[r] = "sent"
              \/ /\ call[r] = "queued"
                 /\ \A s \in Slots : s \in SlotsOf(r) => "start" \in metric'[<< r, s >>]
        /\ call[r] = "done" => call'[r] = "done"
        /\ \A s \in Slots : << r, s >> \in K => call'[r] = "done"

LEMMA SlotsOfKept ==
    ASSUME IInv, [Next]_vars, NEW r \in Requests
    PROVE  SlotsOf(r)' = SlotsOf(r)
  BY SlotsKept DEF SlotsOf, Requests

LEMMA CallMetricStep ==
    ASSUME IInv, CallMetricInv, [Next]_vars, NEW K, MetricMove(K), CallMove(K)
    PROVE  CallMetricInv'
<1> SUFFICES ASSUME NEW r \in Requests, NEW s \in Slots
             PROVE  /\ call'[r] # "failing"
                    /\ call'[r] \in {"none", "queued"} => queued'[<< r, s >>] = << >>
                    /\ call'[r] = "sent" =>
                          /\ queued'[<< r, s >>] = << >>
                          /\ s \in SlotsOf(r)' => "start" \in metric'[<< r, s >>]
  BY DEF CallMetricInv, CallMove
<1>1. << r, s >> \in Ids /\ SlotsOf(r)' = SlotsOf(r)
  BY SlotsOfKept DEF Ids
<1>2. << r, s >> \notin K => /\ queued'[<< r, s >>] = queued[<< r, s >>]
                             /\ metric[<< r, s >>] \subseteq metric'[<< r, s >>]
  BY <1>1 DEF MetricMove
<1> QED
  BY <1>1, <1>2 DEF CallMetricInv, CallMove

LEMMA DropStep ==
    ASSUME IInv, PassageInv, SilenceInv, DropInv, [Next]_vars
    PROVE  DropInv'
<1> SUFFICES ASSUME NEW t \in Threads, frame'[t].op = "drop", frame'[t].bid # NoBid
             PROVE  frame'[t].bid.slot = load'[frame'[t].load].slot
  BY DEF DropInv
<1>0. TypeOK /\ TypeOK'
  BY NextType DEF IInv
<1>1. frame'[t].load \in Loads
  BY <1>0 DEF TypeOK
<1>2. /\ load'[frame'[t].load].slot = load[frame'[t].load].slot
      /\ load[frame'[t].load].slot \in Slots
  BY <1>0, <1>1, SlotsKept, FrameLoads DEF Load
<1>3. frame'[t] = frame[t] \/ frame'[t].bid = cache[load[frame'[t].load].slot]
  BY NextSilence DEF SilenceGoal, Moves, ReadsMove, Taking
<1> QED
  BY <1>2, <1>3 DEF DropInv, IInv, SlotInv

\* A step that closes the messages of K.
LEMMA MetricStep ==
    ASSUME IInv, PassageInv, SilenceInv, MetricInv, [Next]_vars, NEW K,
           MetricMove(K), CallMove(K), ClaimInv',
           \A b \in Bid : Due(b)' => /\ Due(b) \/ (Arrives(b) /\ Whole(IdOf(b))')
                                     /\ IdOf(b) \notin K,
           \A b \in Bid : Claims(b)' # {} => Claims(b) # {} \/ Reading(b),
           \A b, c \in Bid : /\ Due(b)' /\ Arrives(b) /\ Due(c)' /\ Arrives(c)
                             /\ IdOf(b) = IdOf(c)
                            => b = c
    PROVE  MetricInv'
<1>1. ASSUME NEW b \in Bid, Due(b)' PROVE call'[b.req] = "done" /\ Whole(IdOf(b))'
  <2>1. CASE Arrives(b) /\ Whole(IdOf(b))'
    BY <2>1 DEF Arrives
  <2>2. CASE Due(b)
    <3>1. call[b.req] = "done" /\ Whole(IdOf(b)) /\ IdOf(b) \in Ids \ K /\ b.req \in Requests
      BY <1>1, <2>2 DEF MetricInv, DueInv, IdOf, Ids, Bid
    <3> QED
      BY <3>1 DEF MetricMove, CallMove, Open, Whole, IdOf
  <2> QED
    BY <1>1, <2>1, <2>2
<1>2. ASSUME NEW b \in Bid, NEW c \in Bid, Due(b)', Due(c)', IdOf(b) = IdOf(c) PROVE b = c
  <2>1. b.req = c.req
    BY <1>2 DEF IdOf
  <2>2. Due(b) => call[b.req] = "done"
    BY DEF MetricInv, DueInv
  <2>3. Due(c) => call[c.req] = "done"
    BY DEF MetricInv, DueInv
  <2>4. CASE Due(b) /\ Due(c)
    BY <1>2, <2>4 DEF MetricInv, DueInv
  <2>5. CASE Arrives(b) /\ Arrives(c)
    BY <1>2, <2>5
  <2> QED
    BY <1>2, <2>1, <2>2, <2>3, <2>4, <2>5 DEF Arrives
<1>3. DueInv'
  <2>1. \A b \in Bid : Due(b)' => call'[b.req] = "done" /\ Whole(IdOf(b))'
    BY <1>1
  <2>2. \A b, c \in Bid : Due(b)' /\ Due(c)' /\ IdOf(b) = IdOf(c) => b = c
    BY <1>2
  <2> QED
    BY <2>1, <2>2 DEF DueInv, IdOf
<1>4. DropInv' /\ CallMetricInv' /\ SourceInv'
  BY DropStep, CallMetricStep, SourceStep DEF MetricInv
<1>5. ASSUME NEW b \in Bid, Stored(b)' PROVE Noted(IdOf(b))'
  <2>1. IdOf(b) \in Ids \ K
    BY <1>5 DEF Stored, Due, IdOf, Ids, Bid
  <2>2. metric[IdOf(b)] \subseteq metric'[IdOf(b)]
    BY <2>1 DEF MetricMove
  <2>3. CASE Stored(b)
    BY <2>1, <2>2, <2>3, NotesKept DEF MetricInv, NotedInv, Noted
  <2>4. CASE Cached(b)' /\ ~Cached(b)
    <3>1. NoteComing(IdOf(b))'
      BY <2>4, NotesFollow DEF MetricInv
    <3> QED
      BY <3>1 DEF Noted
  <2>5. Stored(b) \/ (Cached(b)' /\ ~Cached(b))
    BY <1>5, Flow DEF Stored
  <2> QED
    BY <2>3, <2>4, <2>5
<1>6. NotedInv'
  BY <1>5 DEF NotedInv, IdOf
<1> QED
  BY <1>3, <1>4, <1>6 DEF MetricInv, MetricMove

\* Most steps bring no answer of CDB.
NoArrival == \A r \in Requests : call'[r] = "done" => call[r] = "done"

LEMMA MetricQuiet ==
    ASSUME IInv, PassageInv, SilenceInv, MetricInv, [Next]_vars, ClaimsNoMore, NoArrival,
           MetricMove({}), CallMove({})
    PROVE  MetricInv'
<1>1. ClaimInv' /\ \A b \in Bid : Due(b)' => Due(b) \/ Arrives(b)
  BY ClaimQuiet
<1>2. \A b \in Bid : ~Arrives(b)
  BY DEF NoArrival, Arrives, Bid
<1>3. \A b \in Bid : Claims(b)' # {} => Claims(b) # {} \/ Reading(b)
  BY DEF ClaimsNoMore
<1> QED
  BY <1>1, <1>2, <1>3, MetricStep

\* The message of c is closed, and c is nowhere any more.
LEMMA MetricClosed ==
    ASSUME IInv, PassageInv, SilenceInv, MetricInv, [Next]_vars, ClaimsNoMore, NoArrival,
           NEW c \in Bid, Due(c), ~Due(c)', MetricMove({IdOf(c)}), CallMove({IdOf(c)})
    PROVE  MetricInv'
<1>1. ClaimInv' /\ \A b \in Bid : Due(b)' => Due(b) \/ Arrives(b)
  BY ClaimQuiet
<1>2. \A b \in Bid : ~Arrives(b)
  BY DEF NoArrival, Arrives, Bid
<1>3. ASSUME NEW b \in Bid, Due(b)' PROVE IdOf(b) # IdOf(c)
  BY <1>1, <1>2, <1>3 DEF MetricInv, DueInv
<1>4. \A b \in Bid : Claims(b)' # {} => Claims(b) # {} \/ Reading(b)
  BY DEF ClaimsNoMore
<1> QED
  BY <1>1, <1>2, <1>3, <1>4, MetricStep

\* A bid that was read and removed has a consumer.
LEMMA MetricTaken ==
    ASSUME IInv, PassageInv, SilenceInv, MetricInv, [Next]_vars, NoArrival,
           NEW c \in Bid, NEW z, ClaimsOneMore(c, z), Reading(c), ~Reading(c)', ~Cached(c)',
           MetricMove({}), CallMove({})
    PROVE  MetricInv'
<1>1. ClaimInv' /\ \A b \in Bid : Due(b)' => Due(b) \/ Arrives(b)
  BY ClaimTaken
<1>2. \A b \in Bid : ~Arrives(b)
  BY DEF NoArrival, Arrives, Bid
<1>3. \A b \in Bid : Claims(b)' # {} => Claims(b) # {} \/ Reading(b)
  BY DEF ClaimsOneMore
<1> QED
  BY <1>1, <1>2, <1>3, MetricStep

\* Who claims what after a step of a load.
LEMMA LoadClaims ==
    ASSUME TypeOK, NEW k \in Loads, NEW x, load' = [load EXCEPT ![k] = x],
           x.stage = "block" /\ x.consumed =>
              load[k].stage = "block" /\ load[k].consumed /\ x.bid = load[k].bid,
           unsilenced' \subseteq unsilenced
    PROVE  ClaimsNoMore
<1>1. /\ load'[k] = x
      /\ \A m \in Loads : m # k => load'[m] = load[m]
  BY LoadStep
<1> QED
  BY <1>1 DEF ClaimsNoMore, Claims

LEMMA SameClaims ==
    ASSUME UNCHANGED load, unsilenced' \subseteq unsilenced
    PROVE  ClaimsNoMore
  BY DEF ClaimsNoMore, Claims

LEMMA LoadTakes ==
    ASSUME TypeOK, NEW k \in Loads, NEW x, load' = [load EXCEPT ![k] = x], NEW c,
           x.bid = c, UNCHANGED unsilenced
    PROVE  ClaimsOneMore(c, << "block", k >>)
<1>1. /\ load'[k] = x
      /\ \A m \in Loads : m # k => load'[m] = load[m]
  BY LoadStep
<1> QED
  BY <1>1 DEF ClaimsOneMore, Claims

LEMMA PostTakes ==
    ASSUME NEW k \in Loads, NEW t, NEW c,
           \A b \in Bid, l \in Loads :
              load'[l].stage = "block" /\ load'[l].consumed /\ load'[l].bid = b
              => load[l].stage = "block" /\ load[l].consumed /\ load[l].bid = b,
           unsilenced' = unsilenced \cup ({t} \X {k} \X {c})
    PROVE  ClaimsOneMore(c, << "post", << t, k, c >> >>)
<1>1. \A p \in unsilenced' : p \in unsilenced \/ p = << t, k, c >>
  OBVIOUS
<1> SUFFICES ASSUME NEW b \in Bid, NEW y \in Claims(b)'
             PROVE  y \in Claims(b) \/ (y = << "post", << t, k, c >> >> /\ b = c)
  BY DEF ClaimsOneMore
<1>2. CASE y \in {"block"} \X {l \in Loads : /\ load'[l].stage = "block"
                                             /\ load'[l].consumed
                                             /\ load'[l].bid = b}
  BY <1>2 DEF Claims
<1>3. CASE y \in {"post"} \X {p \in unsilenced' : p[3] = b}
  BY <1>1, <1>3 DEF Claims
<1> QED
  BY <1>2, <1>3 DEF Claims

LEMMA SameCallMove ==
    ASSUME CallMetricInv, UNCHANGED call, NEW K,
           \A id \in K : call[id[1]] = "done"
    PROVE  CallMove(K) /\ NoArrival
<1>1. NoArrival
  BY DEF NoArrival
<1>2. CallMove(K)
  BY DEF CallMove, CallMetricInv
<1> QED
  BY <1>1, <1>2

LEMMA OnBidConsumedMove ==
    ASSUME IInv, MetricInv, [Next]_vars, NEW B, OnBidConsumed(B), NEW K,
           \A b \in B : /\ IdOf(b) \in K /\ Whole(IdOf(b))
                        /\ Noted(IdOf(b)) \/ HandedStraight(IdOf(b))'
    PROVE  MetricMove(K)
<1>1. PICK update : update = [id \in Ids |->
        UNION {IF Expired(b) THEN {"expired"} ELSE {"elapsed"}
                 : b \in {c \in B : << c.req, c.slot >> = id}}]
  OBVIOUS
<1>2. UpdateMessages(update)
  BY <1>1 DEF OnBidConsumed
<1>3. ASSUME NEW id \in Ids, update[id] # {}
      PROVE  id \in K /\ Whole(id) /\ (Noted(id) \/ HandedStraight(id)')
  <2>1. PICK b \in B : IdOf(b) = id
    BY <1>1, <1>3 DEF IdOf
  <2>2. IdOf(b) \in K /\ Whole(IdOf(b)) /\ (Noted(IdOf(b)) \/ HandedStraight(IdOf(b))')
    OBVIOUS
  <2> QED
    BY <2>1, <2>2
<1>4. \A id \in Ids : update[id] \cap Closing # {} => id \in K /\ Open(id)
  BY <1>3 DEF Whole
<1>5. \A id \in Ids : ~(update[id] \subseteq {"cached"}) => queued[id] = << >>
  BY <1>3 DEF Whole, Open
<1>6. \A id \in Ids : "elapsed" \in update[id]
                         => Whole(id) /\ (Noted(id) \/ HandedStraight(id)')
  BY <1>3
<1> QED
  BY <1>2, <1>4, <1>5, <1>6, UpdateMove

LEMMA OnBidCachedMove ==
    ASSUME IInv, MetricInv, [Next]_vars, NEW B, OnBidCached(B)
    PROVE  MetricMove({})
<1>1. PICK update : update = [id \in Ids |->
        IF \E b \in B : b.valid /\ << b.req, b.slot >> = id THEN {"cached"} ELSE {}]
  OBVIOUS
<1>2. UpdateMessages(update)
  BY <1>1 DEF OnBidCached
<1>3. \A id \in Ids : /\ update[id] \cap Closing = {} /\ "elapsed" \notin update[id]
                      /\ update[id] \subseteq {"cached"}
  BY <1>1 DEF Closing
<1> QED
  BY <1>2, <1>3, UpdateMove

LEMMA LoadCdbBidMetric ==
    ASSUME IInv, PassageInv, SilenceInv, MetricInv, [Next]_vars,
           NEW t \in AppThreads, NEW l \in Loads, LoadCdbBid(t, l)
    PROVE  MetricInv'
<1>1. PICK x : x = [load[l] EXCEPT !.stage = "sync", !.live = cfg.live]
  OBVIOUS
<1>2. /\ load' = [load EXCEPT ![l] = x]
      /\ UNCHANGED << unsilenced, call, feedbackVars >>
  BY <1>1 DEF LoadCdbBid
<1>3. x.stage # "block"
  BY <1>1, FrameLoads DEF Load, IInv
<1>4. ClaimsNoMore
  BY <1>2, <1>3, LoadClaims DEF IInv
<1>5. CallMove({}) /\ NoArrival /\ MetricMove({})
  BY <1>2, SameCallMove, SameMetric DEF MetricInv
<1> QED
  BY <1>4, <1>5, MetricQuiet

LEMMA GetBidMetric ==
    ASSUME IInv, PassageInv, SilenceInv, MetricInv, [Next]_vars,
           NEW t \in Threads, GetBid(t)
    PROVE  MetricInv'
<1> DEFINE l == frame[t].load
           c == cache[load[l].slot]
           x == [load[l] EXCEPT !.stage = "block", !.bid = c, !.consumed = FALSE]
           y == [load[l] EXCEPT !.stage = IF t = Barrier THEN "racing" ELSE "done",
                                !.handled = (t = Barrier)]
<1>0. TypeOK /\ l \in Loads /\ load[l] \in Load /\ UNCHANGED << unsilenced, call >>
  BY FrameLoads DEF GetBid, IInv
<1>1. CallMove({}) /\ NoArrival
  BY <1>0, SameCallMove DEF MetricInv
<1>2. CASE UNCHANGED << load, feedbackVars >>
  BY <1>0, <1>1, <1>2, SameClaims, SameMetric, MetricQuiet DEF MetricInv
<1>3. CASE AfterGetBid(t, l, c, FALSE, NoBid)
  <2>1. CASE load' = [load EXCEPT ![l] = x] /\ UNCHANGED feedbackVars
    <3>1. x.consumed = FALSE
      BY <1>0 DEF Load
    <3> HIDE DEF x, l
    <3>2. ClaimsNoMore
      BY <1>0, <2>1, <3>1, LoadClaims
    <3> QED
      BY <1>1, <2>1, <3>2, SameMetric, MetricQuiet DEF MetricInv
  <2>2. CASE load' = [load EXCEPT ![l] = y] /\ OnBidConsumed({})
    <3>1. y.stage # "block"
      BY <1>0 DEF Load
    <3> HIDE DEF y, l
    <3>2. ClaimsNoMore
      BY <1>0, <2>2, <3>1, LoadClaims
    <3>3. MetricMove({})
      BY <1>0, <2>2, OnBidConsumedMove DEF MetricInv
    <3> QED
      BY <1>1, <3>2, <3>3, MetricQuiet
  <2> QED
    BY <1>3, <2>1, <2>2 DEF AfterGetBid, Consumed
<1> QED
  BY <1>2, <1>3 DEF GetBid

LEMMA RemoveBidMetric ==
    ASSUME IInv, PassageInv, SilenceInv, MetricInv, OneReader, [Next]_vars,
           NEW t \in Threads, RemoveBid(t)
    PROVE  MetricInv'
<1> DEFINE l == frame[t].load
           x == [load[l] EXCEPT !.stage = "block", !.bid = frame[t].bid, !.consumed = TRUE]
           y == [load[l] EXCEPT !.stage = IF t = Barrier THEN "racing" ELSE "done",
                                !.handled = (t = Barrier)]
<1>0. TypeOK /\ l \in Loads /\ load[l] \in Load /\ UNCHANGED << unsilenced, call >>
      /\ frame[t].op = "remove"
  BY FrameLoads DEF RemoveBid, IInv
<1>1. PICK c : c = frame[t].bid
  OBVIOUS
<1>2. c \in Bid /\ c # NoBid
  BY <1>0, <1>1 DEF TypeOK, Frame, SilenceInv, RenewableInv, Consumable
<1>3. Reading(c) /\ Due(c) /\ call[c.req] = "done" /\ Whole(IdOf(c)) /\ Noted(IdOf(c))
  BY <1>0, <1>1, <1>2 DEF Reading, Due, Stored, Taking, MetricInv, DueInv, NotedInv
<1>4. ~Reading(c)'
  <2>1. /\ frame'[t] = Idle
        /\ \A u \in Threads : u # t => frame'[u] = frame[u]
    BY <1>0, FrameStep DEF RemoveBid, AfterGetBid
  <2>2. \A u \in Threads : u # t /\ frame[u].op \in Taking => frame[u].bid # c
    BY <1>0, <1>1, <1>2 DEF OneReader, Taking
  <2> QED
    BY <2>1, <2>2 DEF Reading, Idle, Taking
<1>5. ~Cached(c)'
  <2>1. c.slot = load[l].slot /\ load[l].slot \in Slots
    BY <1>0, <1>1, <1>2 DEF IInv, SlotInv, Load
  <2>2. cache' = Emptied(load[l].slot)
    BY DEF RemoveBid
  <2>3. \A s \in Slots : cache'[s] # NoBid => cache'[s] = cache[s] /\ s # load[l].slot
    BY <1>0, <2>1, <2>2 DEF TypeOK, Emptied
  <2> QED
    BY <1>2, <2>1, <2>3 DEF Cached, IInv, SlotInv
<1>6. CASE load' = [load EXCEPT ![l] = x] /\ UNCHANGED feedbackVars
  <2>1. x.bid = c
    BY <1>0, <1>1 DEF Load
  <2> HIDE DEF x
  <2>2. ClaimsOneMore(c, << "block", l >>)
    BY <1>0, <1>6, <2>1, LoadTakes
  <2>3. CallMove({}) /\ NoArrival /\ MetricMove({})
    BY <1>0, <1>6, SameCallMove, SameMetric DEF MetricInv
  <2> HIDE DEF l
  <2> QED
    BY <1>2, <1>3, <1>4, <1>5, <2>2, <2>3, MetricTaken
<1>7. CASE load' = [load EXCEPT ![l] = y] /\ OnBidConsumed({c})
  <2>1. y.stage # "block"
    BY <1>0 DEF Load
  <2> HIDE DEF y
  <2>2. ClaimsNoMore
    BY <1>0, <1>7, <2>1, LoadClaims
  <2>3. MetricMove({IdOf(c)})
    BY <1>0, <1>3, <1>7, OnBidConsumedMove DEF MetricInv
  <2>4. CallMove({IdOf(c)}) /\ NoArrival
    BY <1>0, <1>3, SameCallMove DEF MetricInv, IdOf
  <2>5. Claims(c) = {} /\ ~Coming(c)
    BY <1>2, <1>3 DEF MetricInv, ClaimInv
  <2>6. ~Coming(c)'
    BY <1>2, <1>3, <2>5, Flow
  <2>7. ~Due(c)'
    BY <1>2, <1>4, <1>5, <2>2, <2>5, <2>6 DEF Due, ClaimsNoMore
  <2> QED
    BY <1>2, <1>3, <2>2, <2>3, <2>4, <2>7, MetricClosed
<1>8. Consumed(frame[t].bid, TRUE) = {c}
  BY <1>1, <1>2 DEF Consumed
<1> QED
  BY <1>6, <1>7, <1>8 DEF RemoveBid, AfterGetBid

LEMMA GetBidThenFetchBlockMetric ==
    ASSUME IInv, PassageInv, SilenceInv, MetricInv, [Next]_vars,
           NEW l \in Loads, GetBidThenFetchBlock(l)
    PROVE  MetricInv'
<1>0. TypeOK /\ load[l] \in Load /\ UNCHANGED unsilenced /\ load[l].stage = "block"
      /\ l \in Requests
  BY FrameLoads DEF GetBidThenFetchBlock, IInv, Requests
<1>1. PICK x : x = [load[l] EXCEPT !.stage = "done"]
  OBVIOUS
<1>2. load' = [load EXCEPT ![l] = x]
  BY <1>1 DEF GetBidThenFetchBlock
<1>3. x.stage = "done"
  BY <1>0, <1>1 DEF Load
<1>4. ClaimsNoMore
  BY <1>0, <1>2, <1>3, LoadClaims
<1>5. call[l] = "none"
  BY <1>0 DEF IInv, StageInv, Load
<1>6. \A r \in Requests : call'[r] = call[r] \/ (r = l /\ call'[r] = "queued")
  BY <1>0 DEF GetBidThenFetchBlock, TypeOK
<1>7. NoArrival
  BY <1>6 DEF NoArrival
<1>8. ASSUME NEW K, \A id \in K : call[id[1]] = "done"
      PROVE  CallMove(K)
  BY <1>5, <1>6, <1>8 DEF CallMove, MetricInv, CallMetricInv
<1>9. CASE Consumed(load[l].bid, load[l].consumed) = {}
  <2>1. MetricMove({})
    BY <1>0, <1>9, OnBidConsumedMove DEF MetricInv, GetBidThenFetchBlock
  <2> QED
    BY <1>4, <1>7, <1>8, <2>1, MetricQuiet
<1>10. CASE load[l].consumed /\ load[l].bid # NoBid
  <2>1. PICK c : c = load[l].bid
    OBVIOUS
  <2>2. c \in Bid /\ OnBidConsumed({c})
    BY <1>0, <1>10, <2>1 DEF Load, GetBidThenFetchBlock, Consumed
  <2>3. << "block", l >> \in Claims(c)
    BY <1>0, <1>10, <2>1 DEF Claims
  <2>4. Due(c) /\ call[c.req] = "done" /\ Whole(IdOf(c)) /\ Noted(IdOf(c))
        /\ ~Coming(c) /\ ~Cached(c) /\ ~Reading(c)
    BY <2>2, <2>3 DEF Due, Stored, MetricInv, DueInv, NotedInv, ClaimInv
  <2>5. MetricMove({IdOf(c)})
    BY <1>0, <2>2, <2>4, OnBidConsumedMove DEF MetricInv
  <2>6. CallMove({IdOf(c)})
    BY <1>8, <2>4 DEF IdOf
  <2>7. ~Coming(c)' /\ ~Cached(c)' /\ ~Reading(c)'
    BY <2>2, <2>4, Flow
  <2>8. Claims(c)' = {}
    <3>1. \A y \in Claims(c) : y = << "block", l >>
      BY <2>2, <2>3 DEF MetricInv, ClaimInv
    <3>2. << "block", l >> \notin Claims(c)'
      <4>1. load'[l].stage = "done"
        BY <1>0, <1>2, <1>3, LoadStep
      <4> QED
        BY <4>1 DEF Claims
    <3> QED
      BY <1>4, <2>2, <3>1, <3>2 DEF ClaimsNoMore
  <2>9. ~Due(c)'
    BY <2>7, <2>8 DEF Due
  <2> QED
    BY <1>4, <1>7, <2>2, <2>4, <2>5, <2>6, <2>9, MetricClosed
<1> QED
  BY <1>9, <1>10 DEF Consumed

LEMMA UnsilenceBlockMetric ==
    ASSUME IInv, PassageInv, SilenceInv, MetricInv, [Next]_vars,
           NEW post \in unsilenced, UnsilenceBlock(post)
    PROVE  MetricInv'
<1>0. TypeOK /\ UNCHANGED << load, call >> /\ unsilenced' = unsilenced \ {post}
      /\ OnBidConsumed({post[3]})
  BY DEF UnsilenceBlock, IInv
<1>1. PICK c : c = post[3]
  OBVIOUS
<1>2. c \in Bid
  BY <1>0, <1>1 DEF TypeOK
<1>3. ClaimsNoMore
  BY <1>0, SameClaims
<1>4. << "post", post >> \in Claims(c)
  BY <1>1 DEF Claims
<1>5. Due(c) /\ call[c.req] = "done" /\ Whole(IdOf(c)) /\ Noted(IdOf(c))
      /\ ~Coming(c) /\ ~Cached(c) /\ ~Reading(c)
  BY <1>2, <1>4 DEF Due, Stored, MetricInv, DueInv, NotedInv, ClaimInv
<1>6. MetricMove({IdOf(c)})
  BY <1>0, <1>1, <1>5, OnBidConsumedMove DEF MetricInv
<1>7. CallMove({IdOf(c)}) /\ NoArrival
  BY <1>0, <1>5, SameCallMove DEF MetricInv, IdOf
<1>8. ~Coming(c)' /\ ~Cached(c)' /\ ~Reading(c)'
  BY <1>2, <1>5, Flow
<1>9. Claims(c)' = {}
  <2>1. \A y \in Claims(c) : y = << "post", post >>
    BY <1>2, <1>4 DEF MetricInv, ClaimInv
  <2>2. << "post", post >> \notin Claims(c)'
    BY <1>0 DEF Claims
  <2> QED
    BY <1>2, <1>3, <2>1, <2>2 DEF ClaimsNoMore
<1>10. ~Due(c)'
  BY <1>8, <1>9 DEF Due
<1> QED
  BY <1>2, <1>3, <1>5, <1>6, <1>7, <1>10, MetricClosed

LEMMA SlotIsNotSilentLoads ==
    ASSUME TypeOK, NEW t, NEW k \in Loads, SlotIsNotSilent(t, k)
    PROVE  \A b \in Bid, l \in Loads :
              load'[l].stage = "block" /\ load'[l].consumed /\ load'[l].bid = b
              => load[l].stage = "block" /\ load[l].consumed /\ load[l].bid = b
<1>1. PICK x : x = [load[k] EXCEPT !.stage = "racing", !.operation = TRUE, !.timer = TRUE]
  OBVIOUS
<1>2. x.stage # "block"
  BY <1>1, FrameLoads DEF Load
<1>3. CASE UNCHANGED load
  BY <1>3
<1>4. CASE load' = [load EXCEPT ![k] = x]
  BY <1>2, <1>4, LoadStep
<1> QED
  BY <1>1, <1>3, <1>4 DEF SlotIsNotSilent

LEMMA DropSilenceMetric ==
    ASSUME IInv, PassageInv, SilenceInv, MetricInv, OneReader, [Next]_vars,
           NEW t \in Threads, DropSilence(t)
    PROVE  MetricInv'
<1>0. /\ TypeOK /\ frame[t].op = "drop" /\ frame[t].load \in Loads
      /\ load[frame[t].load] \in Load
      /\ UNCHANGED << call, feedbackVars >>
  BY FrameLoads DEF DropSilence, IInv
<1>1. PICK l \in Loads : l = frame[t].load
  BY <1>0
<1>2. PICK c : c = frame[t].bid
  OBVIOUS
<1>3. /\ unsilenced' = unsilenced \cup ({t} \X {l} \X Consumed(c, TRUE))
      /\ SlotIsNotSilent(t, l)
      /\ cache' = Emptied(load[l].slot)
  BY <1>1, <1>2 DEF DropSilence
<1>4. \A b \in Bid, m \in Loads :
         load'[m].stage = "block" /\ load'[m].consumed /\ load'[m].bid = b
         => load[m].stage = "block" /\ load[m].consumed /\ load[m].bid = b
  BY <1>0, <1>3, SlotIsNotSilentLoads
<1>5. CallMove({}) /\ NoArrival /\ MetricMove({})
  BY <1>0, SameCallMove, SameMetric DEF MetricInv
<1>6. CASE c = NoBid
  <2>1. unsilenced' = unsilenced
    BY <1>3, <1>6 DEF Consumed
  <2>2. ClaimsNoMore
    BY <1>4, <2>1 DEF ClaimsNoMore, Claims
  <2> QED
    BY <1>5, <2>2, MetricQuiet
<1>7. CASE c # NoBid
  <2>1. c \in Bid /\ Consumed(c, TRUE) = {c}
    BY <1>0, <1>2, <1>7 DEF TypeOK, Frame, Consumed
  <2>2. Reading(c)
    BY <1>0, <1>2 DEF Reading, Taking
  <2>3. ~Reading(c)'
    <3>1. PICK f : frame' = [frame EXCEPT ![t] = f] /\ f.op \notin Taking
      <4>1. CASE t = Barrier
        <5>1. [frame[t] EXCEPT !.op = "store"].op = "store"
          BY <1>0 DEF TypeOK, Frame
        <5> QED
          BY <1>3, <4>1, <5>1 DEF SlotIsNotSilent, Taking
      <4>2. CASE t # Barrier
        <5>1. Idle.op \notin Taking
          BY DEF Idle, Taking
        <5> QED
          BY <1>3, <4>2, <5>1 DEF SlotIsNotSilent
      <4> QED
        BY <4>1, <4>2
    <3>2. /\ frame'[t] = f
          /\ \A u \in Threads : u # t => frame'[u] = frame[u]
      BY <1>0, <3>1, FrameStep
    <3>3. \A u \in Threads : u # t /\ frame[u].op \in Taking => frame[u].bid # c
      BY <1>0, <1>2, <1>7 DEF OneReader, Taking
    <3> QED
      BY <3>1, <3>2, <3>3 DEF Reading
  <2>4. ~Cached(c)'
    <3>1. c.slot = load[l].slot /\ load[l].slot \in Slots
      BY <1>0, <1>1, <1>2, <1>7 DEF MetricInv, DropInv, Load
    <3>2. \A s \in Slots : cache'[s] # NoBid => cache'[s] = cache[s] /\ s # load[l].slot
      BY <1>0, <1>3, <3>1 DEF TypeOK, Emptied
    <3> QED
      BY <1>7, <3>1, <3>2 DEF Cached, IInv, SlotInv
  <2>5. ClaimsOneMore(c, << "post", << t, l, c >> >>)
    BY <1>3, <1>4, <2>1, PostTakes
  <2> QED
    BY <1>5, <2>1, <2>2, <2>3, <2>4, <2>5, MetricTaken
<1> QED
  BY <1>6, <1>7

\* The other steps of the threads.
LEMMA OtherCacheStepMetric ==
    ASSUME IInv, PassageInv, SilenceInv, MetricInv, [Next]_vars, NEW t \in Threads,
           IsSlotSilent(t) \/ RereadSilence(t) \/ NoteCached(t)
    PROVE  MetricInv'
<1>0. TypeOK /\ UNCHANGED << call, unsilenced >> /\ \A m \in Loads : load[m] \in Load
  BY FrameLoads DEF IsSlotSilent, RereadSilence, NoteCached, IInv
<1>1. CallMove({}) /\ NoArrival
  BY <1>0, SameCallMove DEF MetricInv
<1>2. PICK l : l = frame[t].load
  OBVIOUS
<1>3. frame[t].op \notin {"idle", "note"} => l \in Loads
  BY <1>0, <1>2, FrameLoads
<1>4. MetricMove({})
  <2>1. CASE UNCHANGED feedbackVars
    BY <2>1, SameMetric DEF MetricInv
  <2>2. CASE OnBidCached(frame[t].arrived)
    BY <1>0, <2>2, OnBidCachedMove DEF MetricInv
  <2> QED
    BY <2>1, <2>2 DEF IsSlotSilent, RereadSilence, NoteCached
<1>5. ClaimsNoMore
  <2>1. CASE UNCHANGED load
    BY <1>0, <2>1, SameClaims
  <2>2. CASE l \in Loads /\ SlotIsNotSilent(t, l)
    BY <1>0, <2>2, SlotIsNotSilentLoads DEF ClaimsNoMore, Claims
  <2>3. ASSUME l \in Loads,
               NEW x \in {[load[l] EXCEPT !.stage = "done"], [load[l] EXCEPT !.handled = TRUE]},
               load' = [load EXCEPT ![l] = x]
        PROVE  ClaimsNoMore
    <3>1. x.stage = "block" => x.stage = load[l].stage /\ x.bid = load[l].bid
                               /\ x.consumed = load[l].consumed
      BY <1>0, <2>3 DEF Load
    <3> QED
      BY <1>0, <2>3, <3>1, LoadClaims
  <2>4. UNCHANGED load \/ (l \in Loads /\ SlotIsNotSilent(t, l))
        \/ (l \in Loads /\ \E x \in {[load[l] EXCEPT !.stage = "done"],
                                     [load[l] EXCEPT !.handled = TRUE]} :
                              load' = [load EXCEPT ![l] = x])
    BY <1>2, <1>3 DEF IsSlotSilent, RereadSilence, NoteCached
  <2> QED
    BY <2>1, <2>2, <2>3, <2>4
<1> QED
  BY <1>1, <1>4, <1>5, MetricQuiet

LEMMA OperationMetric ==
    ASSUME IInv, PassageInv, SilenceInv, MetricInv, [Next]_vars, NEW l \in Loads,
           Operation(l) \/ TimerFires(l)
    PROVE  MetricInv'
<1>0. TypeOK /\ load[l] \in Load /\ UNCHANGED << unsilenced, feedbackVars >>
      /\ l \in Requests
  BY FrameLoads DEF IInv, Operation, TimerFires, Requests
<1>1. PICK x \in {[load[l] EXCEPT !.operation = FALSE], [load[l] EXCEPT !.timer = FALSE]} :
         load' = [load EXCEPT ![l] = x]
  BY DEF Operation, TimerFires
<1>2. x.stage = load[l].stage /\ x.bid = load[l].bid /\ x.consumed = load[l].consumed
  BY <1>0, <1>1 DEF Load
<1>3. ClaimsNoMore
  BY <1>0, <1>1, <1>2, LoadClaims
<1>4. MetricMove({})
  BY <1>0, SameMetric DEF MetricInv
<1>5. \A r \in Requests : call'[r] = call[r]
                         \/ (r = l /\ call[r] = "none" /\ call'[r] = "queued")
  BY <1>0 DEF Operation, TimerFires, TypeOK, PassageInv, CallInv
<1>6. CallMove({}) /\ NoArrival
  BY <1>5 DEF CallMove, NoArrival, MetricInv, CallMetricInv
<1> QED
  BY <1>3, <1>4, <1>6, MetricQuiet

LEMMA BidInTimeMetric ==
    ASSUME IInv, PassageInv, SilenceInv, MetricInv, [Next]_vars, NEW k, BidInTime(k)
    PROVE  MetricInv'
<1>0. TypeOK /\ NextBlock(k) /\ k \in Block /\ k.load \in Loads /\ load[k.load] \in Load
      /\ frame[Barrier].op = "idle" /\ UNCHANGED << unsilenced, call, frame >>
  BY NextBlockInv, FrameLoads DEF IInv, BidInTime, NextBlock
<1>1. PICK c \in k.bids : c.valid /\ OnBidConsumed({c}) /\ Answer(k.load, c)
  BY DEF BidInTime, Usable
<1>2. c \in Bid
  BY <1>0, <1>1 DEF Block
<1>3. Coming(c) /\ ~Coming(c)'
  BY <1>0, <1>1, ShorterQueue DEF PassageInv, PreStore
<1>4. Due(c) /\ call[c.req] = "done" /\ Whole(IdOf(c)) /\ ~Cached(c) /\ ~Reading(c)
      /\ Claims(c) = {}
  BY <1>1, <1>2, <1>3
  DEF Due, MetricInv, DueInv, ClaimInv, PassageInv, ArrivalInv, Reached
<1>5. PICK x : x = [load[k.load] EXCEPT !.handled = TRUE]
  OBVIOUS
<1>6. load' = [load EXCEPT ![k.load] = x]
  BY <1>5 DEF BidInTime
<1>7. x.stage = load[k.load].stage /\ x.bid = load[k.load].bid
      /\ x.consumed = load[k.load].consumed
  BY <1>0, <1>5 DEF Load
<1>8. ClaimsNoMore
  BY <1>0, <1>6, <1>7, LoadClaims
<1>9. MetricMove({IdOf(c)})
  <2>1. HandedStraight(IdOf(c))'
    <3>1. c.req = k.load /\ Impression(c) = IdOf(c)
      BY <1>0, <1>1, <1>2, ConstantsAssumption
      DEF MetricInv, SourceInv, NextBlock, TypeOK, Impression, IdOf
    <3>2. answers'[k.load] = Append(answers[k.load], c)
      BY <1>0, <1>1, AnswerStep
    <3>3. answers[k.load] \in Seq(Bid \cup {NoBid})
      BY <1>0 DEF TypeOK
    <3>4. /\ Len(answers[k.load]) + 1 \in DOMAIN answers'[k.load]
          /\ answers'[k.load][Len(answers[k.load]) + 1] = c
      BY <1>2, <3>2, <3>3
    <3> QED
      BY <1>0, <3>1, <3>4 DEF HandedStraight, Impression, IdOf
  <2> QED
    BY <1>0, <1>1, <1>4, <2>1, OnBidConsumedMove
<1>10. CallMove({IdOf(c)}) /\ NoArrival
  BY <1>0, <1>4, SameCallMove DEF MetricInv, IdOf
<1>11. ~Due(c)'
  <2>1. ~Cached(c)' /\ ~Reading(c)'
    BY <1>0, <1>4 DEF BidInTime, Cached, Reading
  <2> QED
    BY <1>2, <1>3, <1>4, <1>8, <2>1 DEF Due, ClaimsNoMore
<1> QED
  BY <1>2, <1>4, <1>8, <1>9, <1>10, <1>11, MetricClosed

\* The blocks of the barrier queue that hand nothing over, and what follows them.
LEMMA OtherBarrierMetric ==
    ASSUME IInv, PassageInv, SilenceInv, MetricInv, [Next]_vars,
           \/ \E k : \/ FallBackOnCache(k)
                     \/ SilenceInTime(k)
                     \/ LateCompletion(k)
                     \/ TimeoutAfterCompletion(k)
           \/ StoreLate \/ RefreshConfig \/ Tick \/ UNCHANGED vars
    PROVE  MetricInv'
<1>1. UNCHANGED << load, unsilenced, call, feedbackVars >>
  BY DEF FallBackOnCache, SilenceInTime, LateCompletion, TimeoutAfterCompletion, NextBlock,
     StoreLate, RefreshConfig, Tick, vars, feedbackVars
<1>2. CallMove({}) /\ NoArrival /\ MetricMove({})
  BY <1>1, SameCallMove, SameMetric DEF MetricInv
<1> QED
  BY <1>1, <1>2, SameClaims, MetricQuiet

LEMMA RegisterMetric ==
    ASSUME IInv, PassageInv, SilenceInv, MetricInv, [Next]_vars, Register
    PROVE  MetricInv'
<1>1. UNCHANGED << load, unsilenced, feedbackVars >>
  BY DEF Register
<1>2. \A r \in Requests : call'[r] = call[r] \/ (call[r] = "none" /\ call'[r] = "queued")
  BY DEF Register, IInv, TypeOK, PassageInv, CallInv
<1>3. CallMove({}) /\ NoArrival
  BY <1>2 DEF CallMove, NoArrival, MetricInv, CallMetricInv
<1> QED
  BY <1>1, <1>3, SameClaims, SameMetric, MetricQuiet DEF MetricInv

LEMMA SendCallMetric ==
    ASSUME IInv, PassageInv, SilenceInv, MetricInv, [Next]_vars, NEW r \in Requests,
           SendCall(r)
    PROVE  MetricInv'
<1>0. TypeOK /\ UNCHANGED << load, unsilenced >> /\ call[r] = "queued"
  BY DEF SendCall, IInv
<1>1. PICK update : update = [id \in Ids |-> IF id[1] = r /\ id[2] \in SlotsOf(r)
                                               THEN {"start"} ELSE {}]
  OBVIOUS
<1>2. UpdateMessages(update)
  BY <1>1 DEF SendCall
<1>3. \A id \in Ids : /\ update[id] \cap Closing = {} /\ "elapsed" \notin update[id]
                      /\ ~(update[id] \subseteq {"cached"}) => queued[id] = << >>
  BY <1>0, <1>1 DEF Closing, MetricInv, CallMetricInv, Ids
<1>4. MetricMove({})
  <2>1. PICK K : K = {}
    OBVIOUS
  <2>2. \A id \in Ids : update[id] \cap Closing # {} => id \in K /\ Open(id)
    BY <1>3
  <2>3. \A id \in Ids : ~(update[id] \subseteq {"cached"}) => queued[id] = << >>
    <3> SUFFICES ASSUME NEW id \in Ids, ~(update[id] \subseteq {"cached"})
                 PROVE  queued[id] = << >>
      OBVIOUS
    <3> QED
      BY <1>3
  <2>4. \A id \in Ids : "elapsed" \notin update[id]
    BY <1>3
  <2> QED
    BY <1>2, <2>1, <2>2, <2>3, <2>4, UpdateMove
<1>5. \A s \in Slots : s \in SlotsOf(r) => "start" \in metric'[<< r, s >>]
  <2> SUFFICES ASSUME NEW s \in Slots, s \in SlotsOf(r) PROVE "start" \in metric'[<< r, s >>]
    OBVIOUS
  <2>1. PICK id \in Ids : id = << r, s >>
    BY DEF Ids
  <2>2. update[id] = {"start"}
    BY <1>1, <2>1
  <2>3. ~IsReadyToSend(metric[id] \cup update[id])
    BY <2>2 DEF IsReadyToSend, MetricInv, OpenInv, Closing
  <2>4. metric'[id] = metric[id] \cup update[id]
    BY <1>2, <2>3 DEF UpdateMessages
  <2> QED
    BY <2>1, <2>2, <2>4
<1>6. \A q \in Requests : call'[q] = IF q = r THEN "sent" ELSE call[q]
  BY <1>0 DEF SendCall, TypeOK
<1>7. CallMove({}) /\ NoArrival
  BY <1>0, <1>5, <1>6 DEF CallMove, NoArrival, MetricInv, CallMetricInv
<1> QED
  BY <1>0, <1>4, <1>7, SameClaims, MetricQuiet

\* The bids that an answer of CDB brings.
LEMMA AnswerDue ==
    ASSUME IInv, PassageInv, SilenceInv, [Next]_vars, NEW r \in Requests,
           NEW B \in SUBSET Bid, CdbResponseHandler(r, B), UNCHANGED << load, unsilenced >>,
           NEW b \in Bid, Due(b)'
    PROVE  Due(b) \/ (b \in B /\ b.valid)
<1>0. TypeOK /\ b # NoBid /\ Session # Barrier /\ b.valid' = b.valid
  BY ThreadsDiffer, ConstantsAssumption DEF IInv
<1>1. Claims(b)' = Claims(b) /\ (Reading(b)' => Reading(b) \/ Cached(b))
  BY Flow DEF Claims
<1>2. CASE ForLiveLoad(r)
  <2>1. PICK k : k = [kind |-> "completion", load |-> r, bids |-> B]
    OBVIOUS
  <2>2. barrierQ' = Append(barrierQ, k) /\ UNCHANGED << cache, frame >> /\ k.bids = B
    BY <1>2, <2>1 DEF CdbResponseHandler
  <2>3. \A i \in DOMAIN barrierQ' :
           barrierQ'[i].bids = B \/ \E j \in DOMAIN barrierQ : barrierQ'[i] = barrierQ[j]
    BY <1>0, <2>2 DEF TypeOK
  <2>4. Coming(b)' => Coming(b) \/ b \in B
    BY <2>2, <2>3 DEF Coming, InQueue, InHand
  <2>5. Cached(b)' => Cached(b)
    BY <2>2 DEF Cached
  <2> QED
    BY <1>0, <1>1, <2>4, <2>5 DEF Due
<1>3. CASE ~ForLiveLoad(r)
  <2>1. PICK f : frame' = [frame EXCEPT ![Session] = f]
    BY <1>3 DEF CdbResponseHandler
  <2>2. SetBids(B) /\ UNCHANGED barrierQ
    BY <1>3 DEF CdbResponseHandler
  <2>3. frame'[Barrier] = frame[Barrier]
    BY <1>0, <2>1, ThreadsDiffer DEF TypeOK
  <2>4. Coming(b)' => Coming(b)
    BY <2>2, <2>3 DEF Coming, InQueue, InHand
  <2>5. Cached(b)' => Cached(b) \/ (b \in B /\ b.valid)
    BY <1>0, <2>2, SetBidsFiles DEF Cached
  <2> QED
    BY <1>0, <1>1, <2>4, <2>5 DEF Due
<1> QED
  BY <1>2, <1>3

\* The answer to the call of r, which brings the bids B and closes the messages of K.
LEMMA AnswerMetric ==
    ASSUME IInv, PassageInv, SilenceInv, MetricInv, [Next]_vars, NEW r \in Requests,
           NEW B \in SUBSET Bid, NEW K,
           call' = [call EXCEPT ![r] = "done"], call[r] = "sent",
           UNCHANGED << load, unsilenced >>, MetricMove(K),
           \A id \in K : id[1] = r,
           CdbResponseHandler(r, B) \/ (B = {} /\ UNCHANGED << cache, frame, barrierQ >>),
           \A b \in B : b.valid => IdOf(b) \notin K /\ Whole(IdOf(b))',
           \A b, c \in B : b.slot = c.slot => b = c
    PROVE  MetricInv'
<1>0. TypeOK
  BY DEF IInv
<1>1. \A q \in Requests : call'[q] = IF q = r THEN "done" ELSE call[q]
  BY <1>0 DEF TypeOK
<1>2. CallMove(K)
  BY <1>1 DEF CallMove, MetricInv, CallMetricInv
<1>3. ClaimsNoMore
  BY SameClaims
<1>4. ClaimInv' /\ \A b \in Bid : Due(b)' => Due(b) \/ Arrives(b)
  BY <1>3, ClaimQuiet
<1>5. ASSUME NEW b \in Bid, Due(b)', ~Due(b) PROVE b \in B /\ b.valid
  <2>1. CASE CdbResponseHandler(r, B)
    BY <1>5, <2>1, AnswerDue
  <2>2. CASE UNCHANGED << cache, frame, barrierQ >>
    BY <1>5, <2>2 DEF Due, Coming, InQueue, InHand, Cached, Reading, Claims
  <2> QED
    BY <2>1, <2>2
<1>6. \A b \in Bid : Due(b) => b.req # r /\ ~Arrives(b)
  BY DEF MetricInv, DueInv, Arrives
<1>7. ASSUME NEW b \in Bid, Due(b)'
      PROVE  (Due(b) \/ (Arrives(b) /\ Whole(IdOf(b))')) /\ IdOf(b) \notin K
  BY <1>4, <1>5, <1>6, <1>7 DEF IdOf
<1>8. ASSUME NEW b \in Bid, NEW c \in Bid, Due(b)', Arrives(b), Due(c)', Arrives(c),
             IdOf(b) = IdOf(c)
      PROVE  b = c
  BY <1>5, <1>6, <1>8 DEF IdOf
<1>9. \A b \in Bid : Claims(b)' # {} => Claims(b) # {} \/ Reading(b)
  BY <1>3 DEF ClaimsNoMore
<1> QED
  BY <1>2, <1>4, <1>7, <1>8, <1>9, MetricStep

LEMMA ReplyMetric ==
    ASSUME IInv, PassageInv, SilenceInv, MetricInv, [Next]_vars, NEW r \in Requests, Reply(r)
    PROVE  MetricInv'
<1>1. PICK S \in SUBSET SlotsOf(r) : \E offer \in [S -> Offers] :
         LET B == {BidFor(r, s, offer[s]) : s \in S}
         IN  UpdateMessages(ResponseFlags(r, B)) /\ CdbResponseHandler(r, B)
  BY DEF Reply
<1>2. PICK offer \in [S -> Offers] :
         LET B == {BidFor(r, s, offer[s]) : s \in S}
         IN  UpdateMessages(ResponseFlags(r, B)) /\ CdbResponseHandler(r, B)
  BY <1>1
<1>3. PICK B : B = {BidFor(r, s, offer[s]) : s \in S}
  OBVIOUS
<1>4. /\ UpdateMessages(ResponseFlags(r, B)) /\ CdbResponseHandler(r, B)
      /\ call' = [call EXCEPT ![r] = "done"] /\ call[r] = "sent"
      /\ UNCHANGED << load, unsilenced >> /\ TypeOK
  BY <1>2, <1>3 DEF Reply, Answerable, IInv
<1>5. S \subseteq Slots
  BY FrameLoads DEF SlotsOf, IInv, Load, Requests
<1>6. \A s \in S : /\ BidFor(r, s, offer[s]) \in Bid
                   /\ BidFor(r, s, offer[s]).req = r
                   /\ BidFor(r, s, offer[s]).slot = s
  <2>1. \A s \in S : BidFor(r, s, offer[s]) \in Bid
    BY <1>2, <1>4, <1>5, BidForType
  <2> QED
    BY <2>1 DEF BidFor
<1>7. /\ B \in SUBSET Bid
      /\ \A b \in B : b.req = r /\ b.slot \in SlotsOf(r)
      /\ \A b, c \in B : b.slot = c.slot => b = c
  BY <1>3, <1>6
<1>8. PICK update : update = ResponseFlags(r, B)
  OBVIOUS
<1>9. PICK K : K = {id \in Ids : update[id] \cap Closing # {}}
  OBVIOUS
<1>10. ASSUME NEW id \in Ids, update[id] # {}
       PROVE  id[1] = r /\ id[2] \in SlotsOf(r)
  BY <1>8, <1>10 DEF ResponseFlags
<1>11. \A id \in Ids : id = << id[1], id[2] >> /\ id[1] \in Requests /\ id[2] \in Slots
  BY DEF Ids
<1>12. ASSUME NEW id \in Ids, update[id] # {} PROVE Open(id)
  BY <1>4, <1>10, <1>11, <1>12 DEF MetricInv, CallMetricInv, Open
<1>13. MetricMove(K)
  <2>1. \A id \in Ids : update[id] \cap Closing # {} => id \in K /\ Open(id)
    BY <1>9, <1>12
  <2>2. \A id \in Ids : ~(update[id] \subseteq {"cached"}) => queued[id] = << >>
    BY <1>12 DEF Open
  <2>3. \A id \in Ids : "elapsed" \notin update[id]
    BY <1>8 DEF ResponseFlags
  <2> QED
    BY <1>4, <1>8, <2>1, <2>2, <2>3, UpdateMove
<1>14. ASSUME NEW b \in B, b.valid PROVE IdOf(b) \notin K /\ Whole(IdOf(b))'
  <2>1. PICK id \in Ids : id = IdOf(b) /\ id[1] = r /\ id[2] = b.slot
    <3>1. IdOf(b) = << r, b.slot >> /\ b.slot \in Slots
      BY <1>7 DEF IdOf, Bid
    <3>2. << r, b.slot >> \in Ids
      BY <3>1 DEF Ids
    <3> QED
      BY <3>1, <3>2
  <2>2. update[id] = {"end"}
    BY <1>7, <1>8, <1>14, <2>1 DEF ResponseFlags
  <2>3. id \in Ids \ K
    BY <1>9, <2>1, <2>2 DEF Closing
  <2>4. Open(id)
    BY <1>12, <2>1, <2>2
  <2>5. queued'[id] = queued[id] /\ metric[id] \subseteq metric'[id]
    BY <1>13, <2>3 DEF MetricMove
  <2>6. "end" \in metric'[id]
    <3>1. ~IsReadyToSend(metric[id] \cup update[id])
      BY <2>2 DEF IsReadyToSend, MetricInv, OpenInv, Closing
    <3>2. metric'[id] = metric[id] \cup update[id]
      BY <1>4, <1>8, <3>1 DEF UpdateMessages
    <3> QED
      BY <2>2, <3>2
  <2> QED
    BY <2>1, <2>3, <2>4, <2>5, <2>6 DEF Open, Whole
<1>15. \A id \in K : id[1] = r
  BY <1>9, <1>10
<1> QED
  BY <1>4, <1>7, <1>13, <1>14, <1>15, AnswerMetric

\* Answers without a bid.
LEMMA EmptyAnswerMetric ==
    ASSUME IInv, PassageInv, SilenceInv, MetricInv, [Next]_vars, NEW r \in Requests,
           NoContent(r) \/ HttpError(r) \/ (Fail(r) /\ ~TwoCallbacks)
    PROVE  MetricInv'
<1>1. PICK B \in SUBSET Bid : B = {}
  OBVIOUS
<1>2. TypeOK /\ call[r] # "failing"
  BY DEF IInv, MetricInv, CallMetricInv
<1>3. /\ call' = [call EXCEPT ![r] = "done"] /\ call[r] = "sent"
      /\ UNCHANGED << load, unsilenced >>
      /\ CdbResponseHandler(r, B) \/ UNCHANGED << cache, frame, barrierQ >>
  BY <1>1, <1>2 DEF NoContent, HttpError, Fail, Answerable
<1>4. CASE UNCHANGED feedbackVars
  <2>1. PICK K : K = {}
    OBVIOUS
  <2>2. MetricMove(K)
    BY <1>4, SameMetric DEF MetricInv
  <2> QED
    BY <1>1, <1>3, <2>1, <2>2, AnswerMetric
<1>5. CASE \E timedOut \in BOOLEAN : UpdateMessages(FailureFlags(r, timedOut))
  <2>1. PICK update : UpdateMessages(update)
                      /\ \E timedOut \in BOOLEAN : update = FailureFlags(r, timedOut)
    BY <1>5
  <2>2. PICK K : K = {id \in Ids : update[id] # {}}
    OBVIOUS
  <2>3. ASSUME NEW id \in Ids, update[id] # {}
        PROVE  id[1] = r /\ id[2] \in SlotsOf(r)
    BY <2>1, <2>3 DEF FailureFlags
  <2>4. \A id \in Ids : id = << id[1], id[2] >> /\ id[1] \in Requests /\ id[2] \in Slots
    BY DEF Ids
  <2>5. ASSUME NEW id \in Ids, update[id] # {} PROVE Open(id)
    BY <1>3, <2>3, <2>4, <2>5 DEF MetricInv, CallMetricInv, Open
  <2>6. \A id \in Ids : update[id] \cap Closing # {} => id \in K /\ Open(id)
    BY <2>2, <2>5
  <2>7. MetricMove(K)
    <3>1. \A id \in Ids : ~(update[id] \subseteq {"cached"}) => queued[id] = << >>
      BY <2>5 DEF Open
    <3>2. \A id \in Ids : "elapsed" \notin update[id]
      BY <2>1 DEF FailureFlags
    <3> QED
      BY <2>1, <2>6, <3>1, <3>2, UpdateMove
  <2>8. \A id \in K : id[1] = r
    BY <2>2, <2>3
  <2> QED
    BY <1>1, <1>3, <2>7, <2>8, AnswerMetric
<1> QED
  BY <1>4, <1>5 DEF NoContent, HttpError, Fail

LEMMA NextMetric ==
    ASSUME ~TwoCallbacks, IInv, PassageInv, SilenceInv, MetricInv, OneReader, [Next]_vars
    PROVE  MetricInv'
<1>0. TypeOK
  BY DEF IInv
<1>1. ASSUME NEW t \in AppThreads, NEW l \in Loads, LoadCdbBid(t, l) PROVE MetricInv'
  BY <1>1, LoadCdbBidMetric
<1>2. ASSUME NEW t \in Threads, CacheStep(t) PROVE MetricInv'
  BY <1>2, GetBidMetric, RemoveBidMetric, DropSilenceMetric, OtherCacheStepMetric
  DEF CacheStep
<1>3. ASSUME NEW l \in Loads, GetBidThenFetchBlock(l) \/ Operation(l) \/ TimerFires(l)
      PROVE  MetricInv'
  BY <1>3, GetBidThenFetchBlockMetric, OperationMetric
<1>4. ASSUME NEW k \in Block,
             \/ FallBackOnCache(k)
             \/ SilenceInTime(k)
             \/ BidInTime(k)
             \/ LateCompletion(k)
             \/ TimeoutAfterCompletion(k)
      PROVE  MetricInv'
  BY <1>4, BidInTimeMetric, OtherBarrierMetric
<1>5. ASSUME StoreLate PROVE MetricInv'
  BY <1>5, OtherBarrierMetric
<1>6. ASSUME NEW r \in Requests, SendCall(r) \/ Network(r) PROVE MetricInv'
  BY <1>6, SendCallMetric, ReplyMetric, EmptyAnswerMetric DEF Network
<1>7. ASSUME \/ \E post \in unsilenced : UnsilenceBlock(post)
             \/ Register \/ RefreshConfig \/ Tick \/ UNCHANGED vars
      PROVE  MetricInv'
  BY <1>7, UnsilenceBlockMetric, RegisterMetric, OtherBarrierMetric
<1> QED
  BY <1>0, <1>1, <1>2, <1>3, <1>4, <1>5, <1>6, <1>7, NextCases

LEMMA InitMetric == Init => MetricInv
<1> SUFFICES ASSUME Init PROVE MetricInv
  OBVIOUS
<1>1. /\ \A t \in Threads : frame[t].op = "idle"
      /\ \A l \in Loads : load[l].stage = "idle"
      /\ \A r \in Requests : call[r] = "none"
      /\ \A id \in Ids : metric[id] = {} /\ queued[id] = << >>
      /\ \A s \in Slots : cache[s] = NoBid
      /\ barrierQ = << >> /\ unsilenced = {}
  BY DEF Init, Idle
<1>2. ASSUME NEW b \in Bid PROVE ~Due(b) /\ Claims(b) = {}
  <2>1. b # NoBid
    BY ConstantsAssumption
  <2>2. ~Coming(b)
    BY <1>1, ThreadsDiffer DEF Coming, InQueue, InHand, PreStore
  <2>3. ~Cached(b) /\ ~Reading(b) /\ Claims(b) = {}
    BY <1>1, <2>1 DEF Cached, Reading, Claims, Taking
  <2> QED
    BY <2>2, <2>3 DEF Due
<1>3. DueInv /\ ClaimInv /\ NotedInv /\ SourceInv
  <2>1. DueInv /\ ClaimInv
    BY <1>2 DEF DueInv, ClaimInv, Due
  <2>2. NotedInv
    BY <1>2 DEF NotedInv, Stored, Due
  <2>3. SourceInv
    BY <1>1 DEF SourceInv
  <2> QED
    BY <2>1, <2>2, <2>3
<1>4. DropInv /\ OpenInv /\ MetricClosedOnce
  BY <1>1 DEF DropInv, OpenInv, MetricClosedOnce
<1>5. CallMetricInv
  BY <1>1 DEF CallMetricInv, Ids
<1> QED
  BY <1>3, <1>4, <1>5 DEF MetricInv

\* Without overlapping reads of a bid, and when a CDB task ends once, the message of an
\* impression is sent once, with its start, its end when a bid was consumed in time, and the
\* time it was cached, unless the consumer came before onBidCached.
THEOREM MetricOnceWithoutOverlap ==
    ~TwoCallbacks => (Spec /\ []OneReader => []MetricClosedOnce)
<1> SUFFICES ASSUME ~TwoCallbacks PROVE Spec /\ []OneReader => []MetricClosedOnce
  OBVIOUS
<1>1. Init => SilenceInv /\ MetricInv
  BY InitSilence, InitMetric
<1>2. /\ IInv /\ PassageInv /\ SilenceInv /\ MetricInv /\ OneReader
      /\ [Next]_vars
      => SilenceInv' /\ MetricInv'
  BY NextSilence, SilenceStep, NextMetric DEF SilenceGoal
<1>3. MetricInv => MetricClosedOnce
  BY DEF MetricInv
<1> QED
  BY <1>1, <1>2, <1>3, Passage, PTL DEF Spec

\* An application that loads from one thread and bids from the cache.
THEOREM MetricOnceFromOneThread ==
    OneThread /\ CacheOnly /\ ~TwoCallbacks => (Spec => []MetricClosedOnce)
<1> SUFFICES ASSUME OneThread, CacheOnly, ~TwoCallbacks PROVE Spec => []MetricClosedOnce
  OBVIOUS
<1> QED
  BY OneThreadReads, MetricOnceWithoutOverlap, PTL

-----------------------------------------------------------------------------
(* No load is forgotten *)

\* Who works for the load l: its caller, a block of the barrier queue, the one under way.
Called(l) == \E t \in AppThreads : frame[t].op # "idle" /\ frame[t].load = l
InBarrier(l) == \E i \in DOMAIN barrierQ : barrierQ[i].load = l
Answering == {"get", "remove", "noteSilence"}
AtBarrier(l) == frame[Barrier].op \in Answering /\ frame[Barrier].load = l

\* What is over was answered; a call that has not returned has its thread; a race that
\* nobody won has its timer, a block that will find handled unset, or the block that did.
\* A race starts with handled unset.
Backed(l) ==
    /\ ~Unanswered(l) => answers[l] # << >>
    /\ load[l].stage = "sync" => Called(l)
    /\ load[l].stage = "racing" /\ ~load[l].handled
          => load[l].timer \/ InBarrier(l) \/ AtBarrier(l)
    /\ load[l].stage \in {"idle", "sync"} => ~load[l].handled

BackedInv == \A l \in Loads : Backed(l)

WorkersKept(l) == (Called(l) => Called(l)') /\ (AtBarrier(l) => AtBarrier(l)')
BlocksKept(l) == InBarrier(l) => InBarrier(l)'

\* A load nothing happens to.
LEMMA StillBacked ==
    ASSUME BackedInv, NEW l \in Loads, WorkersKept(l), BlocksKept(l),
           load'[l] = load[l], answers'[l] = answers[l]
    PROVE  Backed(l)'
  BY DEF BackedInv, Backed, WorkersKept, BlocksKept, Unanswered

LEMMA SameWorkers ==
    ASSUME frame' = frame, NEW l
    PROVE  WorkersKept(l)
  BY DEF WorkersKept, Called, AtBarrier

\* A thread moves that does not work for the load l, or goes on working for it.
LEMMA ThreadMoves ==
    ASSUME TypeOK, NEW t \in Threads, NEW f, frame' = [frame EXCEPT ![t] = f], NEW l,
           \/ frame[t].op = "idle"
           \/ frame[t].load # l
           \/ t = Session
           \/ t = Barrier /\ frame[t].op \notin Answering
           \/ f.load = l /\ f.op # "idle" /\ (t = Barrier => f.op \in Answering)
    PROVE  WorkersKept(l)
<1>1. frame'[t] = f /\ \A u \in Threads : u # t => frame'[u] = frame[u]
  BY FrameStep
<1>2. ASSUME Called(l) PROVE Called(l)'
  <2>1. PICK u \in AppThreads : frame[u].op # "idle" /\ frame[u].load = l
    BY <1>2 DEF Called
  <2>2. frame'[u].op # "idle" /\ frame'[u].load = l
    BY <1>1, <2>1, ThreadsDiffer
  <2> QED
    BY <2>2 DEF Called
<1>3. ASSUME AtBarrier(l) PROVE AtBarrier(l)'
  <2>1. frame[Barrier].op \in Answering /\ frame[Barrier].load = l /\ frame[Barrier].op # "idle"
    BY <1>3 DEF AtBarrier, Answering
  <2>2. frame'[Barrier].op \in Answering /\ frame'[Barrier].load = l
    BY <1>1, <2>1, ThreadsDiffer
  <2> QED
    BY <2>2 DEF AtBarrier
<1> QED
  BY <1>2, <1>3 DEF WorkersKept

LEMMA SameBlocks ==
    ASSUME barrierQ' = barrierQ, NEW l
    PROVE  BlocksKept(l)
  BY DEF BlocksKept, InBarrier

LEMMA BlockAdded ==
    ASSUME TypeOK, NEW k, barrierQ' = Append(barrierQ, k)
    PROVE  /\ \A l : BlocksKept(l)
           /\ InBarrier(k.load)'
<1>1. barrierQ \in Seq(Block)
  BY DEF TypeOK
<1>2. /\ Len(barrierQ) + 1 \in DOMAIN barrierQ' /\ barrierQ'[Len(barrierQ) + 1] = k
      /\ \A i \in DOMAIN barrierQ : i \in DOMAIN barrierQ' /\ barrierQ'[i] = barrierQ[i]
  BY <1>1
<1> QED
  BY <1>2 DEF BlocksKept, InBarrier

LEMMA BlockTaken ==
    ASSUME TypeOK, NEW k, NextBlock(k), NEW l, l # k.load
    PROVE  BlocksKept(l)
<1>1. barrierQ \in Seq(Block) /\ barrierQ # << >> /\ k = Head(barrierQ) /\ barrierQ' = Tail(barrierQ)
  BY DEF TypeOK, NextBlock
<1>2. ASSUME NEW i \in DOMAIN barrierQ, barrierQ[i].load = l
      PROVE  \E j \in DOMAIN barrierQ' : barrierQ'[j].load = l
  <2>1. i # 1
    BY <1>1, <1>2
  <2>2. i - 1 \in DOMAIN barrierQ' /\ barrierQ'[i - 1] = barrierQ[i]
    BY <1>1, <2>1
  <2> QED
    BY <1>2, <2>2
<1> QED
  BY <1>2 DEF BlocksKept, InBarrier

\* A load changes: the others need only their workers and blocks.
LEMMA LoadBacked ==
    ASSUME TypeOK, BackedInv, NEW l \in Loads, Backed(l)',
           \A m \in Loads : m # l => /\ load'[m] = load[m] /\ answers'[m] = answers[m]
                                     /\ WorkersKept(m) /\ BlocksKept(m)
    PROVE  BackedInv'
<1>1. ASSUME NEW m \in Loads, m # l PROVE Backed(m)'
  BY <1>1, StillBacked
<1> QED
  BY <1>1 DEF BackedInv

\* No load changes.
LEMMA NoLoadChanges ==
    ASSUME BackedInv, UNCHANGED << load, answers >>,
           \A m \in Loads : WorkersKept(m) /\ BlocksKept(m)
    PROVE  BackedInv'
<1>1. ASSUME NEW m \in Loads PROVE Backed(m)'
  BY <1>1, StillBacked
<1> QED
  BY <1>1 DEF BackedInv

\* An answer was given.
LEMMA AnsweredIsBacked ==
    ASSUME TypeOK, NEW l \in Loads, NEW b, Answer(l, b),
           load'[l].stage = "done" \/ (load'[l].stage = "racing" /\ load'[l].handled)
    PROVE  Backed(l)'
<1>1. answers[l] \in Seq(Bid \cup {NoBid}) /\ answers'[l] = Append(answers[l], b)
  BY AnswerStep DEF TypeOK
<1>2. answers'[l] # << >>
  BY <1>1
<1> QED
  BY <1>2 DEF Backed

-----------------------------------------------------------------------------

LEMMA LoadCdbBidBacked ==
    ASSUME IInv, BackedInv, NEW t \in AppThreads, NEW l \in Loads, LoadCdbBid(t, l)
    PROVE  BackedInv'
<1>0. TypeOK /\ t \in Threads
  BY ThreadsDiffer DEF IInv
<1>1. PICK op : op = IF cfg.live /\ ~CannotCallCdb THEN "silent" ELSE "get"
  OBVIOUS
<1>2. PICK f : f = [Idle EXCEPT !.load = l, !.op = op]
  OBVIOUS
<1>3. PICK x : x = [load[l] EXCEPT !.stage = "sync", !.live = cfg.live]
  OBVIOUS
<1>4. /\ frame' = [frame EXCEPT ![t] = f] /\ load' = [load EXCEPT ![l] = x]
      /\ frame[t].op = "idle"
      /\ UNCHANGED << barrierQ, answers >>
  BY <1>1, <1>2, <1>3 DEF LoadCdbBid
<1>5. f.load = l /\ f.op # "idle"
  BY <1>1, <1>2 DEF Idle
<1>6. x.stage = "sync" /\ ~x.handled
  <2>1. ~load[l].handled
    BY DEF LoadCdbBid, BackedInv, Backed
  <2> QED
    BY <1>0, <1>3, <2>1, FrameLoads DEF Load
<1>7. \A m \in Loads : WorkersKept(m) /\ BlocksKept(m)
  BY <1>0, <1>4, ThreadMoves, SameBlocks
<1>8. frame'[t] = f /\ load'[l] = x /\ \A m \in Loads : m # l => load'[m] = load[m]
  BY <1>0, <1>4, FrameStep, LoadStep
<1>9. Backed(l)'
  BY <1>5, <1>6, <1>8 DEF Backed, Called, Unanswered
<1> QED
  BY <1>0, <1>4, <1>7, <1>8, <1>9, LoadBacked

LEMMA AfterGetBidBacked ==
    ASSUME IInv, BackedInv, NEW t \in Threads, NEW l \in Loads, l = frame[t].load,
           frame[t].op \in {"get", "remove"}, NEW b, NEW consumed, NEW result,
           AfterGetBid(t, l, b, consumed, result), barrierQ' = barrierQ
    PROVE  BackedInv'
<1>0. TypeOK /\ load[l] \in Load
  BY FrameLoads DEF IInv
<1>1. frame' = [frame EXCEPT ![t] = Idle]
  BY DEF AfterGetBid
<1>2. \A m \in Loads : m # l => WorkersKept(m) /\ BlocksKept(m)
  BY <1>0, <1>1, ThreadMoves, SameBlocks
<1>3. CASE ~load[l].live
  <2>1. PICK x : x = [load[l] EXCEPT !.stage = "block", !.bid = b, !.consumed = consumed]
    OBVIOUS
  <2>2. load' = [load EXCEPT ![l] = x] /\ UNCHANGED answers
    BY <1>3, <2>1 DEF AfterGetBid
  <2>3. x.stage = "block"
    BY <1>0, <2>1 DEF Load
  <2>4. load'[l] = x /\ \A m \in Loads : m # l => load'[m] = load[m]
    BY <1>0, <2>2, LoadStep
  <2>5. Backed(l)'
    BY <2>3, <2>4 DEF Backed, Unanswered
  <2> QED
    BY <1>0, <1>2, <2>2, <2>4, <2>5, LoadBacked
<1>4. CASE load[l].live
  <2>1. PICK stage, handled : /\ stage = IF t = Barrier THEN "racing" ELSE "done"
                              /\ handled = (t = Barrier)
    OBVIOUS
  <2>2. PICK x : x = [load[l] EXCEPT !.stage = stage, !.handled = handled]
    OBVIOUS
  <2>3. load' = [load EXCEPT ![l] = x] /\ Answer(l, result)
    BY <1>4, <2>1, <2>2 DEF AfterGetBid
  <2>4. x.stage = stage /\ x.handled = handled
    BY <1>0, <2>2 DEF Load
  <2>5. load'[l] = x /\ \A m \in Loads : m # l => load'[m] = load[m]
    BY <1>0, <2>3, LoadStep
  <2>6. \A m \in Loads : m # l => answers'[m] = answers[m]
    BY <1>0, <2>3, AnswerStep
  <2>7. x.stage = "done" \/ (x.stage = "racing" /\ x.handled)
    BY <2>1, <2>4
  <2>8. Backed(l)'
    BY <1>0, <2>3, <2>5, <2>7, AnsweredIsBacked
  <2> QED
    BY <1>0, <1>2, <2>5, <2>6, <2>8, LoadBacked
<1> QED
  BY <1>3, <1>4

LEMMA GetBidBacked ==
    ASSUME IInv, BackedInv, NEW t \in Threads, GetBid(t)
    PROVE  BackedInv'
<1>1. PICK l \in Loads : l = frame[t].load
  BY DEF GetBid, IInv, TypeOK
<1>2. PICK b : b = cache[load[l].slot]
  OBVIOUS
<1>3. TypeOK /\ frame[t].op = "get" /\ frame[t] \in Frame /\ barrierQ' = barrierQ
  BY DEF GetBid, IInv, TypeOK
<1>4. CASE Consumable(b)
  <2>1. PICK result : result = IF Expired(b) THEN NoBid ELSE b
    OBVIOUS
  <2>2. PICK f : f = [frame[t] EXCEPT !.op = "remove", !.bid = b, !.result = result]
    OBVIOUS
  <2>3. frame' = [frame EXCEPT ![t] = f] /\ UNCHANGED << load, answers >>
    BY <1>1, <1>2, <1>4, <2>1, <2>2 DEF GetBid
  <2>4. f.op = "remove" /\ f.load = l
    BY <1>1, <1>3, <2>2 DEF Frame
  <2>5. \A m \in Loads : WorkersKept(m)
    BY <1>1, <1>3, <2>3, <2>4, ThreadMoves DEF Answering
  <2> QED
    BY <1>3, <2>3, <2>5, SameBlocks, NoLoadChanges
<1>5. CASE ~Consumable(b)
  <2>1. AfterGetBid(t, l, b, FALSE, NoBid)
    BY <1>1, <1>2, <1>5 DEF GetBid
  <2> QED
    BY <1>1, <1>3, <2>1, AfterGetBidBacked
<1> QED
  BY <1>4, <1>5

LEMMA RemoveBidBacked ==
    ASSUME IInv, BackedInv, NEW t \in Threads, RemoveBid(t)
    PROVE  BackedInv'
<1>1. PICK l \in Loads : l = frame[t].load
  BY DEF RemoveBid, IInv, TypeOK
<1>2. /\ frame[t].op = "remove" /\ barrierQ' = barrierQ
      /\ AfterGetBid(t, l, frame[t].bid, TRUE, frame[t].result)
  BY <1>1 DEF RemoveBid
<1> QED
  BY <1>1, <1>2, AfterGetBidBacked

LEMMA GetBidThenFetchBlockBacked ==
    ASSUME IInv, BackedInv, NEW l \in Loads, GetBidThenFetchBlock(l)
    PROVE  BackedInv'
<1>0. TypeOK /\ load[l] \in Load
  BY FrameLoads DEF IInv
<1>1. PICK x : x = [load[l] EXCEPT !.stage = "done"]
  OBVIOUS
<1>2. /\ load' = [load EXCEPT ![l] = x] /\ Answer(l, load[l].bid)
      /\ UNCHANGED << frame, barrierQ >>
  BY <1>0, <1>1 DEF GetBidThenFetchBlock, TypeOK
<1>3. x.stage = "done"
  BY <1>0, <1>1 DEF Load
<1>4. load'[l] = x /\ \A m \in Loads : m # l => load'[m] = load[m]
  BY <1>0, <1>2, LoadStep
<1>5. \A m \in Loads : m # l => answers'[m] = answers[m]
  BY <1>0, <1>2, AnswerStep
<1>6. Backed(l)'
  BY <1>0, <1>2, <1>3, <1>4, AnsweredIsBacked
<1> QED
  BY <1>0, <1>2, <1>4, <1>5, <1>6, SameWorkers, SameBlocks, LoadBacked

-----------------------------------------------------------------------------

LEMMA SlotIsNotSilentBacked ==
    ASSUME IInv, BackedInv, NEW t \in Threads, NEW l \in Loads, l = frame[t].load,
           frame[t].op \in {"silent", "drop"}, SlotIsNotSilent(t, l),
           UNCHANGED << answers, barrierQ >>
    PROVE  BackedInv'
<1>0. TypeOK /\ load[l] \in Load /\ frame[t] \in Frame
  BY FrameLoads DEF IInv, TypeOK
<1>1. CASE t = Barrier
  <2>1. PICK f : f = [frame[t] EXCEPT !.op = "store"]
    OBVIOUS
  <2>2. frame' = [frame EXCEPT ![t] = f] /\ UNCHANGED load
    BY <1>0, <1>1, <2>1 DEF SlotIsNotSilent, TypeOK
  <2>3. \A m \in Loads : WorkersKept(m)
    BY <1>0, <1>1, <2>2, ThreadMoves DEF Answering
  <2> QED
    BY <2>2, <2>3, SameBlocks, NoLoadChanges
<1>2. CASE t # Barrier
  <2>1. PICK x : x = [load[l] EXCEPT !.stage = "racing", !.operation = TRUE, !.timer = TRUE]
    OBVIOUS
  <2>2. frame' = [frame EXCEPT ![t] = Idle] /\ load' = [load EXCEPT ![l] = x]
    BY <1>2, <2>1 DEF SlotIsNotSilent
  <2>3. x.stage = "racing" /\ x.timer /\ x.handled = load[l].handled
    BY <1>0, <2>1 DEF Load
  <2>4. load'[l] = x /\ \A m \in Loads : m # l => load'[m] = load[m]
    BY <1>0, <2>2, LoadStep
  <2>5. \A m \in Loads : m # l => WorkersKept(m) /\ BlocksKept(m)
    BY <1>0, <2>2, ThreadMoves, SameBlocks
  <2>6. ~load[l].handled
    <3>1. t \in AppThreads
      BY <1>2, ThreadsDiffer DEF IInv, WorkerInv
    <3>2. load[l].stage = "sync"
      BY <3>1 DEF IInv, CallerInv
    <3> QED
      BY <3>2 DEF BackedInv, Backed
  <2>7. Backed(l)'
    BY <2>3, <2>4, <2>6 DEF Backed, Unanswered
  <2> QED
    BY <1>0, <2>4, <2>5, <2>7, LoadBacked
<1> QED
  BY <1>1, <1>2

LEMMA IsSlotSilentBacked ==
    ASSUME IInv, BackedInv, NEW t \in Threads, IsSlotSilent(t)
    PROVE  BackedInv'
<1>1. PICK l \in Loads : l = frame[t].load
  BY DEF IsSlotSilent, IInv, TypeOK
<1>2. PICK b : b = cache[load[l].slot]
  OBVIOUS
<1>3. TypeOK /\ frame[t].op = "silent" /\ frame[t] \in Frame /\ load[l] \in Load /\ barrierQ' = barrierQ
  BY FrameLoads DEF IsSlotSilent, IInv, TypeOK
<1>4. CASE SlotIsNotSilent(t, l) /\ UNCHANGED answers
  BY <1>1, <1>3, <1>4, SlotIsNotSilentBacked
<1>5. CASE frame' = [frame EXCEPT ![t].op = "unsilence"] /\ UNCHANGED << load, answers >>
  <2>1. PICK f : f = [frame[t] EXCEPT !.op = "unsilence"]
    OBVIOUS
  <2>2. frame' = [frame EXCEPT ![t] = f] /\ f.op = "unsilence" /\ f.load = l
    BY <1>1, <1>3, <1>5, <2>1 DEF TypeOK, Frame
  <2>3. \A m \in Loads : WorkersKept(m)
    BY <1>1, <1>3, <2>2, ThreadMoves DEF Answering
  <2> QED
    BY <1>3, <1>5, <2>3, SameBlocks, NoLoadChanges
<1>6. CASE /\ frame' = [frame EXCEPT ![t] = Idle]
           /\ IF t = Barrier
                THEN UNCHANGED << load, answers >>
                ELSE /\ load' = [load EXCEPT ![l].stage = "done"]
                     /\ Answer(l, NoBid)
  <2>1. \A m \in Loads : m # l \/ t = Barrier => WorkersKept(m)
    BY <1>1, <1>3, <1>6, ThreadMoves DEF Answering
  <2>2. CASE t = Barrier
    BY <1>3, <1>6, <2>1, <2>2, SameBlocks, NoLoadChanges
  <2>3. CASE t # Barrier
    <3>1. PICK x : x = [load[l] EXCEPT !.stage = "done"]
      OBVIOUS
    <3>2. load' = [load EXCEPT ![l] = x] /\ Answer(l, NoBid) /\ x.stage = "done"
      BY <1>3, <1>6, <2>3, <3>1 DEF TypeOK, Load
    <3>3. load'[l] = x /\ \A m \in Loads : m # l => load'[m] = load[m]
      BY <1>3, <3>2, LoadStep
    <3>4. \A m \in Loads : m # l => answers'[m] = answers[m]
      BY <1>3, <3>2, AnswerStep
    <3>5. Backed(l)'
      BY <1>3, <3>2, <3>3, AnsweredIsBacked
    <3> QED
      BY <1>3, <2>1, <3>3, <3>4, <3>5, SameBlocks, LoadBacked
  <2> QED
    BY <2>2, <2>3
<1> QED
  BY <1>1, <1>2, <1>4, <1>5, <1>6 DEF IsSlotSilent

LEMMA RereadSilenceBacked ==
    ASSUME IInv, BackedInv, NEW t \in Threads, RereadSilence(t)
    PROVE  BackedInv'
<1>1. PICK l \in Loads : l = frame[t].load
  BY DEF RereadSilence, IInv, TypeOK
<1>2. PICK b : b = cache[load[frame[t].load].slot]
  OBVIOUS
<1>3. PICK f : f = [frame[t] EXCEPT !.op = "drop", !.bid = b]
  OBVIOUS
<1>4. /\ TypeOK /\ frame[t].op = "unsilence" /\ frame[t] \in Frame
      /\ frame' = [frame EXCEPT ![t] = f] /\ UNCHANGED << load, answers, barrierQ >>
  BY <1>2, <1>3 DEF RereadSilence, IInv, TypeOK
<1>5. f.op = "drop" /\ f.load = l
  BY <1>1, <1>3, <1>4 DEF Frame
<1>6. \A m \in Loads : WorkersKept(m)
  BY <1>1, <1>4, <1>5, ThreadMoves DEF Answering
<1> QED
  BY <1>4, <1>6, SameBlocks, NoLoadChanges

LEMMA DropSilenceBacked ==
    ASSUME IInv, BackedInv, NEW t \in Threads, DropSilence(t)
    PROVE  BackedInv'
<1>1. PICK l \in Loads : l = frame[t].load
  BY DEF DropSilence, IInv, TypeOK
<1> QED
  BY <1>1, SlotIsNotSilentBacked DEF DropSilence

\* The barrier thread sets handled of the load l and answers it.
LEMMA HandledBacked ==
    ASSUME TypeOK, BackedInv, NEW l \in Loads, load[l].stage = "racing",
           load' = [load EXCEPT ![l].handled = TRUE], NEW b, Answer(l, b),
           \A m \in Loads : m # l => WorkersKept(m) /\ BlocksKept(m)
    PROVE  BackedInv'
<1>1. PICK x : x = [load[l] EXCEPT !.handled = TRUE]
  OBVIOUS
<1>2. load' = [load EXCEPT ![l] = x] /\ x.stage = "racing" /\ x.handled
  BY <1>1, FrameLoads DEF TypeOK, Load
<1>3. load'[l] = x /\ \A m \in Loads : m # l => load'[m] = load[m]
  BY <1>2, LoadStep
<1>4. \A m \in Loads : m # l => answers'[m] = answers[m]
  BY AnswerStep
<1>5. Backed(l)'
  BY <1>2, <1>3, AnsweredIsBacked
<1> QED
  BY <1>3, <1>4, <1>5, LoadBacked

LEMMA NoteCachedBacked ==
    ASSUME IInv, BackedInv, NEW t \in Threads, NoteCached(t)
    PROVE  BackedInv'
<1>1. PICK l : l = frame[t].load
  OBVIOUS
<1>2. /\ TypeOK /\ frame[t].op \in {"note", "noteSilence"}
      /\ frame' = [frame EXCEPT ![t] = Idle] /\ barrierQ' = barrierQ
  BY DEF NoteCached, IInv
<1>3. t = Barrier \/ t = Session
  BY <1>2, ThreadsDiffer DEF IInv, CallerInv
<1>4. CASE frame[t].op = "note"
  <2>1. \A m \in Loads : WorkersKept(m)
    BY <1>2, <1>3, <1>4, ThreadMoves DEF Answering
  <2>2. UNCHANGED << load, answers >>
    BY <1>4 DEF NoteCached
  <2> QED
    BY <1>2, <2>1, <2>2, SameBlocks, NoLoadChanges
<1>5. CASE frame[t].op = "noteSilence"
  <2>1. t = Barrier
    BY <1>3, <1>5 DEF IInv, WorkerInv
  <2>2. l \in Loads /\ load[l].stage = "racing"
    BY <1>1, <1>2, <1>5, <2>1, FrameLoads, ThreadsDiffer DEF IInv, WorkerInv
  <2>3. load' = [load EXCEPT ![l].handled = TRUE] /\ Answer(l, NoBid)
    BY <1>1, <1>5 DEF NoteCached
  <2>4. \A m \in Loads : m # l => WorkersKept(m)
    BY <1>1, <1>2, ThreadMoves
  <2> QED
    BY <1>2, <2>2, <2>3, <2>4, SameBlocks, HandledBacked
<1> QED
  BY <1>2, <1>4, <1>5

-----------------------------------------------------------------------------

\* A posted block of a live load ran: what the timer was to it, its block now is.
LEMMA PostedBlockBacked ==
    ASSUME IInv, BackedInv, NEW l \in Loads, NEW y, load' = [load EXCEPT ![l] = y],
           y.stage = load[l].stage, y.handled = load[l].handled,
           y.timer = load[l].timer \/ InBarrier(l)',
           \A m \in Loads : BlocksKept(m),
           UNCHANGED << frame, answers >>
    PROVE  BackedInv'
<1>0. TypeOK
  BY DEF IInv
<1>1. load'[l] = y /\ \A m \in Loads : m # l => load'[m] = load[m]
  BY <1>0, LoadStep
<1>2. \A m \in Loads : WorkersKept(m)
  BY SameWorkers
<1>3. Backed(l)'
  BY <1>1, <1>2 DEF BackedInv, Backed, Unanswered, WorkersKept, BlocksKept
<1> QED
  BY <1>0, <1>1, <1>2, <1>3, LoadBacked

LEMMA OperationBacked ==
    ASSUME IInv, BackedInv, NEW l \in Loads, Operation(l)
    PROVE  BackedInv'
<1>0. TypeOK /\ load[l] \in Load
  BY FrameLoads DEF IInv
<1>1. PICK y : y = [load[l] EXCEPT !.operation = FALSE]
  OBVIOUS
<1>2. load' = [load EXCEPT ![l] = y] /\ UNCHANGED << frame, answers >>
  BY <1>0, <1>1 DEF Operation, TypeOK
<1>3. y.stage = load[l].stage /\ y.handled = load[l].handled /\ y.timer = load[l].timer
  BY <1>0, <1>1 DEF Load
<1>4. \A m \in Loads : BlocksKept(m)
  <2>1. CASE CannotCallCdb
    BY <1>0, <2>1, BlockAdded DEF Operation
  <2>2. CASE ~CannotCallCdb
    BY <2>2, SameBlocks DEF Operation
  <2> QED
    BY <2>1, <2>2
<1> QED
  BY <1>2, <1>3, <1>4, PostedBlockBacked

LEMMA TimerFiresBacked ==
    ASSUME IInv, BackedInv, NEW l \in Loads, TimerFires(l)
    PROVE  BackedInv'
<1>0. TypeOK /\ load[l] \in Load
  BY FrameLoads DEF IInv
<1>1. PICK y : y = [load[l] EXCEPT !.timer = FALSE]
  OBVIOUS
<1>2. PICK k : k = [kind |-> "timeout", load |-> l, bids |-> {}]
  OBVIOUS
<1>3. /\ load' = [load EXCEPT ![l] = y] /\ UNCHANGED << frame, answers >>
      /\ barrierQ' = Append(barrierQ, k)
  BY <1>0, <1>1, <1>2 DEF TimerFires, TypeOK
<1>4. y.stage = load[l].stage /\ y.handled = load[l].handled
  BY <1>0, <1>1 DEF Load
<1>5. k.load = l
  BY <1>2
<1>6. InBarrier(l)' /\ \A m \in Loads : BlocksKept(m)
  BY <1>0, <1>3, <1>5, BlockAdded
<1> QED
  BY <1>3, <1>4, <1>6, PostedBlockBacked

\* A block of the barrier queue that answers later, in the function f, or has nothing to.
LEMMA BarrierBlockBacked ==
    ASSUME IInv, BackedInv, NEW k, NextBlock(k), NEW f, frame' = [frame EXCEPT ![Barrier] = f],
           \/ f.op \in Answering /\ f.load = k.load
           \/ load[k.load].handled,
           UNCHANGED << load, answers >>
    PROVE  BackedInv'
<1>0. TypeOK /\ frame[Barrier].op = "idle" /\ k.load \in Loads /\ load[k.load].stage = "racing"
  BY NextBlockInv DEF IInv
<1>1. \A m \in Loads : WorkersKept(m)
  BY <1>0, ThreadsDiffer, ThreadMoves
<1>2. \A m \in Loads : m # k.load => BlocksKept(m)
  BY <1>0, BlockTaken
<1>3. frame'[Barrier] = f
  BY <1>0, ThreadsDiffer, FrameStep
<1>4. Backed(k.load)'
  BY <1>0, <1>1, <1>3 DEF BackedInv, Backed, Unanswered, WorkersKept, AtBarrier
<1> QED
  BY <1>0, <1>1, <1>2, <1>4, LoadBacked

LEMMA BarrierBlocksBacked ==
    ASSUME IInv, BackedInv, NEW k,
           \/ FallBackOnCache(k) \/ SilenceInTime(k)
           \/ LateCompletion(k) \/ TimeoutAfterCompletion(k)
    PROVE  BackedInv'
<1>1. NextBlock(k) /\ UNCHANGED << load, answers >>
  BY DEF FallBackOnCache, SilenceInTime, LateCompletion, TimeoutAfterCompletion
<1>2. CASE FallBackOnCache(k)
  <2>1. PICK f : f = [Idle EXCEPT !.op = "get", !.load = k.load]
    OBVIOUS
  <2>2. f.op \in Answering /\ f.load = k.load
    BY <2>1 DEF Idle, Answering
  <2>3. frame' = [frame EXCEPT ![Barrier] = f]
    BY <1>2, <2>1 DEF FallBackOnCache
  <2> QED
    BY <1>1, <2>2, <2>3, BarrierBlockBacked
<1>3. CASE SilenceInTime(k)
  <2>1. PICK f : f = [Idle EXCEPT !.op = "noteSilence", !.load = k.load, !.arrived = k.bids]
    OBVIOUS
  <2>2. f.op \in Answering /\ f.load = k.load
    BY <2>1 DEF Idle, Answering
  <2>3. frame' = [frame EXCEPT ![Barrier] = f]
    BY <1>3, <2>1 DEF SilenceInTime
  <2> QED
    BY <1>1, <2>2, <2>3, BarrierBlockBacked
<1>4. CASE LateCompletion(k)
  <2>1. PICK f : f = [Idle EXCEPT !.op = "silent", !.load = k.load, !.arrived = k.bids]
    OBVIOUS
  <2>2. frame' = [frame EXCEPT ![Barrier] = f] /\ load[k.load].handled
    BY <1>4, <2>1 DEF LateCompletion, Handled
  <2> QED
    BY <1>1, <2>2, BarrierBlockBacked
<1>5. CASE TimeoutAfterCompletion(k)
  <2>1. frame' = [frame EXCEPT ![Barrier] = frame[Barrier]] /\ load[k.load].handled
    BY <1>5 DEF TimeoutAfterCompletion, Handled, IInv, TypeOK
  <2> QED
    BY <1>1, <2>1, BarrierBlockBacked
<1> QED
  BY <1>2, <1>3, <1>4, <1>5

LEMMA BidInTimeBacked ==
    ASSUME IInv, BackedInv, NEW k, BidInTime(k)
    PROVE  BackedInv'
<1>1. /\ TypeOK /\ NextBlock(k) /\ load' = [load EXCEPT ![k.load].handled = TRUE]
      /\ frame' = frame
  BY DEF BidInTime, IInv
<1>2. k.load \in Loads /\ load[k.load].stage = "racing"
  BY <1>1, NextBlockInv
<1>3. PICK b : Answer(k.load, b)
  BY DEF BidInTime
<1>4. \A m \in Loads : m # k.load => WorkersKept(m) /\ BlocksKept(m)
  BY <1>1, SameWorkers, BlockTaken
<1> QED
  BY <1>1, <1>2, <1>3, <1>4, HandledBacked

LEMMA StoreLateBacked ==
    ASSUME IInv, BackedInv, StoreLate
    PROVE  BackedInv'
<1>1. PICK f : f = [frame[Barrier] EXCEPT !.op = "note"]
  OBVIOUS
<1>2. /\ TypeOK /\ frame[Barrier].op = "store" /\ frame' = [frame EXCEPT ![Barrier] = f]
      /\ UNCHANGED << load, answers, barrierQ >>
  BY <1>1 DEF StoreLate, IInv, TypeOK
<1>3. \A m \in Loads : WorkersKept(m)
  BY <1>2, ThreadsDiffer, ThreadMoves DEF Answering
<1> QED
  BY <1>2, <1>3, SameBlocks, NoLoadChanges

\* The delegate queue of the session only caches, or queues a completion.
LEMMA CdbResponseBacked ==
    ASSUME IInv, BackedInv, NEW r \in Requests, NEW B, CdbResponseHandler(r, B),
           UNCHANGED << load, answers >>
    PROVE  BackedInv'
<1>0. TypeOK /\ Session \in Threads
  BY ThreadsDiffer DEF IInv
<1>1. CASE ForLiveLoad(r)
  <2>1. PICK k : k = [kind |-> "completion", load |-> r, bids |-> B]
    OBVIOUS
  <2>2. barrierQ' = Append(barrierQ, k) /\ frame' = frame
    BY <1>1, <2>1 DEF CdbResponseHandler
  <2> QED
    BY <1>0, <2>2, SameWorkers, BlockAdded, NoLoadChanges
<1>2. CASE ~ForLiveLoad(r)
  <2>1. PICK op : op = IF B = {} THEN "idle" ELSE "note"
    OBVIOUS
  <2>2. PICK f : f = [frame[Session] EXCEPT !.op = op, !.arrived = B]
    OBVIOUS
  <2>3. frame' = [frame EXCEPT ![Session] = f] /\ barrierQ' = barrierQ
    BY <1>0, <1>2, <2>1, <2>2 DEF CdbResponseHandler, TypeOK
  <2>4. \A m \in Loads : WorkersKept(m)
    BY <1>0, <2>3, ThreadMoves
  <2> QED
    BY <2>3, <2>4, SameBlocks, NoLoadChanges
<1> QED
  BY <1>1, <1>2

LEMMA NextBacked == IInv /\ BackedInv /\ [Next]_vars => BackedInv'
<1> SUFFICES ASSUME IInv, BackedInv, [Next]_vars PROVE BackedInv'
  OBVIOUS
<1>0. TypeOK
  BY DEF IInv
<1>1. ASSUME UNCHANGED << load, frame, barrierQ, answers >> PROVE BackedInv'
  BY <1>1, SameWorkers, SameBlocks, NoLoadChanges
<1>2. ASSUME NEW t \in Threads, CacheStep(t) PROVE BackedInv'
  BY <1>2, GetBidBacked, RemoveBidBacked, IsSlotSilentBacked, RereadSilenceBacked,
     DropSilenceBacked, NoteCachedBacked DEF CacheStep
<1>3. ASSUME NEW r \in Requests, SendCall(r) \/ HttpError(r) PROVE BackedInv'
  BY <1>1, <1>3 DEF SendCall, HttpError
<1>4. ASSUME NEW r \in Requests, Reply(r) \/ NoContent(r) \/ Fail(r) PROVE BackedInv'
  <2>1. \E B : CdbResponseHandler(r, B)
    BY <1>4 DEF Reply, NoContent, Fail
  <2>2. UNCHANGED << load, answers >>
    BY <1>4 DEF Reply, NoContent, Fail
  <2> QED
    BY <2>1, <2>2, CdbResponseBacked
<1>5. ASSUME NEW post \in unsilenced, UnsilenceBlock(post) PROVE BackedInv'
  BY <1>1, <1>5 DEF UnsilenceBlock
<1>6. ASSUME Register \/ RefreshConfig \/ Tick \/ UNCHANGED vars PROVE BackedInv'
  BY <1>1, <1>6 DEF Register, RefreshConfig, Tick, vars
<1>7. ASSUME NEW k \in Block,
             \/ FallBackOnCache(k)
             \/ SilenceInTime(k)
             \/ BidInTime(k)
             \/ LateCompletion(k)
             \/ TimeoutAfterCompletion(k)
      PROVE  BackedInv'
  BY <1>7, BarrierBlocksBacked, BidInTimeBacked
<1>8. ASSUME NEW l \in Loads, GetBidThenFetchBlock(l) \/ Operation(l) \/ TimerFires(l)
      PROVE  BackedInv'
  BY <1>8, GetBidThenFetchBlockBacked, OperationBacked, TimerFiresBacked
<1> QED
  BY <1>0, <1>2, <1>3, <1>4, <1>5, <1>6, <1>7, <1>8, NextCases, LoadCdbBidBacked, StoreLateBacked
     DEF Network

LEMMA InitBacked == Init => BackedInv
<1> SUFFICES ASSUME Init, NEW l \in Loads PROVE Backed(l)
  BY DEF BackedInv
<1>1. PICK s \in Slots :
         load[l] = [stage |-> "idle", slot |-> s, live |-> FALSE, operation |-> FALSE,
                    timer |-> FALSE, handled |-> FALSE, bid |-> NoBid, consumed |-> FALSE]
  BY DEF Init
<1>2. load[l].stage = "idle" /\ ~load[l].handled
  BY <1>1
<1> QED
  BY <1>2 DEF Backed, Unanswered

\* Until its responseHandler is called, something that will call it is there, whatever CDB
\* does: the safety half of the liveness property EveryLoadAnswered, for any number of
\* loads and threads (NoLoadForgotten).
THEOREM NoLoadIsForgotten == Spec => []NoLoadForgotten
<1>1. IInv /\ BackedInv => NoLoadForgotten
  <2> SUFFICES ASSUME IInv, BackedInv, NEW l \in Loads, load[l].stage # "idle",
                      answers[l] = << >>
               PROVE  WillBeAnswered(l)
    BY DEF NoLoadForgotten
  <2>1. Backed(l) /\ load[l] \in Load
    BY FrameLoads DEF BackedInv, IInv
  <2>2. Unanswered(l)
    BY <2>1 DEF Backed
  <2>3. load[l].stage \in {"sync", "block", "racing"}
    BY <2>1, <2>2 DEF Load, Unanswered
  <2> QED
    BY <2>1, <2>2, <2>3 DEF Backed, Unanswered, WillBeAnswered, Called, InBarrier, AtBarrier,
                            Answering
<1> QED
  BY <1>1, InitBacked, NextBacked, InductiveInvariant, PTL DEF Spec

=============================================================================
