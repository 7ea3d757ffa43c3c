---------------------------- MODULE BidContract -----------------------------
(***************************************************************************)
(* What loadCdbBidForAdUnit:withContext:responseHandler: promises to the   *)
(* code that asks for an ad: the response handler is called once for every *)
(* call, after the call, with a bid for the ad unit that was asked or with *)
(* none.  CRInterstitial, CRBannerView, CRNativeLoader and Criteo's        *)
(* loadBidForAdUnit are all written against this.                          *)
(***************************************************************************)
EXTENDS Sequences

CONSTANTS
    Loads,  \* the calls
    Slots,  \* the ad units
    Ids,    \* the bids, named by pairs that end with the slot they are for
    NoBid   \* no bid

VARIABLES
    wanted,  \* the ad unit each call is for
    asked,   \* the calls made so far
    given    \* what the response handler of each call was given

vars == << wanted, asked, given >>

Init ==
    /\ wanted \in [Loads -> Slots]
    /\ asked = {}
    /\ given = [l \in Loads |-> << >>]

Ask(l) ==
    /\ l \notin asked
    /\ asked' = asked \cup {l}
    /\ UNCHANGED << wanted, given >>

\* What may answer a call for the slot s.
Outcomes(s) == {NoBid} \cup {id \in Ids : id[2] = s}

Respond(l) ==
    /\ l \in asked
    /\ given[l] = << >>
    /\ \E b \in Outcomes(wanted[l]) : given' = [given EXCEPT ![l] = << b >>]
    /\ UNCHANGED << wanted, asked >>

Next == \E l \in Loads : Ask(l) \/ Respond(l)

Spec == Init /\ [][Next]_vars

\* The caller may wait for its answer: it comes.
Answering == \A l \in Loads : l \in asked ~> given[l] # << >>

=============================================================================
