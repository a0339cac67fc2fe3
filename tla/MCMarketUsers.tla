--------------------------- MODULE MCMarketUsers ---------------------------
(***************************************************************************)
(* Model checking of AssetCatalog and CardTrade: the two users of the      *)
(* market's rows that work in several transactions.  One behaviour has     *)
(* refreshes or trades, and every operation of the market beside them.     *)
(***************************************************************************)
EXTENDS AssetCatalog, MCCardTrade

VARIABLE family

UsersInit == CatalogInit /\ TradeInit /\ family \in {"refreshes", "trades"}

\* Bounds of a behaviour with trades: no money, which they do not touch, and
\* one listing, made before or after the offer.
OneListing ==
    \A l, m \in ListingId : listing[l] # NoListing /\ listing[m] # NoListing => l = m

UsersNext ==
    /\ \/ family = "refreshes" /\ CatalogNext /\ UNCHANGED <<trade, request, swaps>>
       \/ family = "trades" /\ UNCHANGED <<balance, refresh>> /\ TradeNext /\ OneListing'
    /\ UNCHANGED family

UsersSpec == UsersInit /\ [][UsersNext]_<<tradeVars, refresh, family>>

UsersSymmetry ==
    Permutations(Account) \cup Permutations(ListingId) \cup Permutations(Maintainer)

\* An instance on sale stays its seller's and reserved, whatever offers were
\* made for it before it was listed: the swap of an accepted trade looks at
\* the statuses of all the cards again (swap_instance_lists).  Refreshes do
\* break reservations; section 4 of the README says how.
ReservedFromTrades == family = "trades" => OpenListingReserves
=============================================================================
