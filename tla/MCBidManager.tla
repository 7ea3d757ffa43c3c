---------------------------- MODULE MCBidManager ----------------------------
(* Values of the constants of BidManager for TLC. *)
EXTENDS BidManager

GoodBid == [cpm |-> 1, ttl |-> 1, valid |-> TRUE]
ImmediateBid == [cpm |-> 1, ttl |-> 0, valid |-> TRUE]
NoBidOffer == [cpm |-> 0, ttl |-> 0, valid |-> TRUE]
Silence == [cpm |-> 0, ttl |-> 1, valid |-> TRUE]
Refused == [cpm |-> 1, ttl |-> 1, valid |-> FALSE]

LiveOffers == {GoodBid, Silence, Refused}
CacheOffers == {ImmediateBid, NoBidOffer, Silence}
BidOnly == {GoodBid}

LiveBidding == {[live |-> TRUE, kill |-> FALSE, prefetch |-> FALSE]}
LiveWithPrefetch == {[live |-> TRUE, kill |-> FALSE, prefetch |-> TRUE]}
CacheBidding == {[live |-> FALSE, kill |-> FALSE, prefetch |-> TRUE]}
AnyConfig == [live : BOOLEAN, kill : BOOLEAN, prefetch : {FALSE}]

=============================================================================
