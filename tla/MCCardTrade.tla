---------------------------- MODULE MCCardTrade ----------------------------
(* Model checking of CardTrade. *)
EXTENDS CardTrade, TLC

TradeSymmetry ==
    Permutations(Account) \cup Permutations(TradeId) \cup Permutations(Handler)
        \cup Permutations(ListingId)

\* Behaviours are followed up to the second exchange of a trade.
SwapBound == \A t \in TradeId : Len(swaps[t]) <= 1
=============================================================================
