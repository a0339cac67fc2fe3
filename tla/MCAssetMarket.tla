--------------------------- MODULE MCAssetMarket ---------------------------
(* Model checking of AssetMarket. *)
EXTENDS AssetMarket, TLC

MarketSymmetry == Permutations(Account) \cup Permutations(ListingId)
=============================================================================
