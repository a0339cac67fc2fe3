---------------------------- MODULE AssetCatalog ----------------------------
(***************************************************************************)
(* AssetMarket together with the catalogue maintenance of the identity     *)
(* bridge.  upsert_token reads the token row in one transaction and writes *)
(* it back, whole, in another; claims, sales and other refreshes commit in *)
(* between.  The branch of upsert_token that finds no row is the market's  *)
(* own RegisterToken.                                                      *)
(***************************************************************************)
EXTENDS AssetMarket

CONSTANTS
    Maintainer,    \* upsert requests that may be in flight together
    NoCopy         \* a request slot that holds no row

VARIABLE refresh   \* the token row a request has read and not yet written back

catalogVars == <<vars, refresh>>

TokenRow == [token : Token, minted : 0..SupplyCap]

ASSUME CatalogAssumption == NoCopy \notin TokenRow

-----------------------------------------------------------------------------
CatalogInit == MarketInit /\ refresh = [m \in Maintainer |-> NoCopy]

\* get_token finds the row: the request now holds a copy of all of it.
UpsertRead(m, t) ==
    /\ refresh[m] = NoCopy
    /\ maxSupply[t] # 0
    /\ refresh' = [refresh EXCEPT ![m] = [token |-> t, minted |-> minted[t]]]
    /\ UNCHANGED vars

\* Mutant of UpsertWrite: the request's own max_supply is stored.
UpsertWriteRequested(m) ==
    /\ refresh[m] # NoCopy
    /\ minted' = [minted EXCEPT ![refresh[m].token] = refresh[m].minted]
    /\ \E max \in Serial : maxSupply' = [maxSupply EXCEPT ![refresh[m].token] = max]
    /\ refresh' = [refresh EXCEPT ![m] = NoCopy]
    /\ UNCHANGED <<ledgerVars, collections, owner, status, listing, lastEvent>>

\* The copy goes back with new metadata and the counter it was read with.
\* max_supply never changes once there is a row.
UpsertWrite(m) ==
    /\ refresh[m] # NoCopy
    /\ minted' = [minted EXCEPT ![refresh[m].token] = refresh[m].minted]
    /\ refresh' = [refresh EXCEPT ![m] = NoCopy]
    /\ UNCHANGED <<ledgerVars, collections, maxSupply, owner, status, listing, lastEvent>>

\* A refused write transaction, or a restart: the copy is gone.
UpsertFails(m) ==
    /\ refresh[m] # NoCopy
    /\ refresh' = [refresh EXCEPT ![m] = NoCopy]
    /\ UNCHANGED vars

RefreshStep ==
    \E m \in Maintainer :
        \/ \E t \in Token : UpsertRead(m, t)
        \/ UpsertWrite(m)
        \/ UpsertFails(m)

CatalogNext == (MarketNext /\ UNCHANGED refresh) \/ RefreshStep

CatalogSpec == CatalogInit /\ [][CatalogNext]_catalogVars

-----------------------------------------------------------------------------
\* Even with refreshes that give issued serials out again, nobody is charged
\* without delivery: a listing is sold only by the seller who still holds the
\* instance, at its price, to the one buyer who receives it.
SoldMeansPaid ==
    [][\A l \in ListingId : IsOpen(l) /\ listing'[l].status = "sold" => Sale(l)]_catalogVars

\* Re-issuing serials never makes more instances than max_supply admits.
RowsWithinSupply ==
    \A a \in Asset : status[a] # "none" => SerialOf(a) <= maxSupply[TokenOf(a)]
=============================================================================
