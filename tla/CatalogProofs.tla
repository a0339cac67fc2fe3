---------------------------- MODULE CatalogProofs ----------------------------
(***************************************************************************)
(* Proofs about AssetCatalog: what of the market's guarantees survives a   *)
(* refresh that puts an old counter back, so that serials already issued   *)
(* are issued again over the instances that carry them.  (That no serial   *)
(* is issued twice, and that a listing holds its instance, do not survive: *)
(* see "Where the code and its comments disagree" in the README.)          *)
(***************************************************************************)
EXTENDS AssetCatalog, AssetMarketProofs

RefreshTypeOK == refresh \in [Maintainer -> TokenRow \cup {NoCopy}]

\* The inductive invariant: types, and the cap on serials.
CatalogInv ==
    /\ MarketTypeOK
    /\ RefreshTypeOK
    /\ RowsWithinSupply

-----------------------------------------------------------------------------
(* Types *)

LEMMA UpsertWriteType ==
    ASSUME MarketTypeOK, RefreshTypeOK, NEW m \in Maintainer, UpsertWrite(m)
    PROVE  MarketTypeOK' /\ RefreshTypeOK'
  <1>1. refresh[m] \in TokenRow
    BY DEF RefreshTypeOK, UpsertWrite
  <1>2. refresh[m].token \in Token /\ refresh[m].minted \in 0..SupplyCap
    BY <1>1 DEF TokenRow
  <1>3. minted' \in [Token -> 0..SupplyCap]
    BY <1>2 DEF UpsertWrite, MarketTypeOK, AssetTypeOK
  <1>4. QED
    BY <1>3 DEF UpsertWrite, MarketTypeOK, AssetTypeOK, LedgerTypeOK, RefreshTypeOK, ledgerVars

LEMMA CatalogStepType ==
    ASSUME MarketTypeOK, RefreshTypeOK, [CatalogNext]_catalogVars
    PROVE  MarketTypeOK' /\ RefreshTypeOK'
  <1>1. CASE (MarketNext \/ UNCHANGED vars) /\ UNCHANGED refresh
    BY <1>1, MarketStepType DEF RefreshTypeOK
  <1>2. ASSUME NEW m \in Maintainer, NEW t \in Token, UpsertRead(m, t)
        PROVE  MarketTypeOK' /\ RefreshTypeOK'
    <2>1. MarketTypeOK'
      BY <1>2, MarketStepType DEF UpsertRead
    <2>2. [token |-> t, minted |-> minted[t]] \in TokenRow
      BY DEF MarketTypeOK, AssetTypeOK, TokenRow
    <2>3. QED
      BY <1>2, <2>1, <2>2 DEF UpsertRead, RefreshTypeOK
  <1>3. ASSUME NEW m \in Maintainer, UpsertWrite(m)
        PROVE  MarketTypeOK' /\ RefreshTypeOK'
    BY <1>3, UpsertWriteType
  <1>4. ASSUME NEW m \in Maintainer, UpsertFails(m)
        PROVE  MarketTypeOK' /\ RefreshTypeOK'
    BY <1>4, MarketStepType DEF UpsertFails, RefreshTypeOK
  <1>5. QED
    BY <1>1, <1>2, <1>3, <1>4 DEF CatalogNext, RefreshStep, catalogVars

-----------------------------------------------------------------------------
(* Supply *)

\* Before or after a reissue: a claim writes under a serial the cap admits.
LEMMA ClaimStaysWithinSupply ==
    ASSUME MarketTypeOK, RowsWithinSupply, NEW t \in Token, NEW by \in Account, ClaimToken(t, by)
    PROVE  RowsWithinSupply'
  <1> DEFINE new == <<t, minted[t] + 1>>
  <1>1. minted[t] + 1 \in Serial /\ minted[t] + 1 <= maxSupply[t]
    BY MarketAssumption DEF MarketTypeOK, AssetTypeOK, ClaimToken, Serial
  <1>2. new \in Asset /\ TokenOf(new) = t /\ SerialOf(new) = minted[t] + 1
    BY <1>1 DEF Asset, TokenOf, SerialOf
  <1>3. \A a \in Asset : a # new => status'[a] = status[a]
    BY DEF ClaimToken, IssueSerial, MarketTypeOK, AssetTypeOK
  <1>4. maxSupply' = maxSupply
    BY DEF ClaimToken, IssueSerial
  <1>5. QED
    BY <1>1, <1>2, <1>3, <1>4 DEF RowsWithinSupply

\* A token that is registered has no rows yet, and its cap never moves again.
LEMMA RegisterStaysWithinSupply ==
    ASSUME MarketTypeOK, RowsWithinSupply, NEW c \in Collection, NEW t \in Token,
           NEW max \in Serial, NEW start \in 0..SupplyCap, RegisterToken(c, t, max, start)
    PROVE  RowsWithinSupply'
  <1>1. \A a \in Asset : TokenOf(a) = t => status[a] = "none"
    <2>1. \A a \in Asset : SerialOf(a) > 0
      BY AssetComponents, MarketAssumption DEF Serial
    <2>2. maxSupply[t] = 0
      BY DEF RegisterToken
    <2>3. \A a \in Asset : SerialOf(a) \in Nat
      BY AssetComponents, MarketAssumption DEF Serial
    <2>4. QED
      BY <2>1, <2>2, <2>3 DEF RowsWithinSupply
  <1>2. status' = status /\ \A u \in Token : u # t => maxSupply'[u] = maxSupply[u]
    BY DEF RegisterToken, MarketTypeOK, AssetTypeOK
  <1>3. QED
    BY <1>1, <1>2, AssetComponents DEF RowsWithinSupply

\* Every other operation works on rows that are there.
LEMMA OthersStayWithinSupply ==
    ASSUME MarketTypeOK, RowsWithinSupply, maxSupply' = maxSupply,
           \A a \in Asset : status[a] = "none" => status'[a] = "none"
    PROVE  RowsWithinSupply'
  BY DEF RowsWithinSupply

LEMMA MarketStaysWithinSupply ==
    ASSUME MarketTypeOK, RowsWithinSupply, MarketNext
    PROVE  RowsWithinSupply'
  <1>1. ASSUME NEW a \in Asset, NEW new \in {"active", "frozen"}, SetAssetStatus(a, new)
        PROVE  RowsWithinSupply'
    BY <1>1, OthersStayWithinSupply DEF SetAssetStatus, StoreStatus, StatusEvent, MarketTypeOK, AssetTypeOK
  <1>2. ASSUME NEW l \in ListingId, NEW a \in Asset, NEW p \in Account, NEW price \in Price,
               CreateListing(l, a, p, price)
        PROVE  RowsWithinSupply'
    BY <1>2, OthersStayWithinSupply DEF CreateListing, PutUpForSale, MarketTypeOK, AssetTypeOK
  <1>3. ASSUME NEW l \in ListingId, NEW p \in Account, CancelListing(l, p)
        PROVE  RowsWithinSupply'
    BY <1>3, OthersStayWithinSupply DEF CancelListing, Unlist, Release, MarketTypeOK, AssetTypeOK
  <1>4. ASSUME NEW l \in ListingId, NEW p \in Account, BuyListing(l, p)
        PROVE  RowsWithinSupply'
    BY <1>4, OthersStayWithinSupply DEF BuyListing, Deliver, MarketTypeOK, AssetTypeOK
  <1>5. ASSUME UNCHANGED <<status, maxSupply>>
        PROVE  RowsWithinSupply'
    BY <1>5, OthersStayWithinSupply
  <1>6. CASE CatalogStep
    BY <1>5, <1>6, RegisterStaysWithinSupply DEF CatalogStep, CreateCollection
  <1>7. CASE InstanceStep
    BY <1>1, <1>5, <1>7, ClaimStaysWithinSupply DEF InstanceStep, TransferAsset, GiveTo
  <1>8. CASE TradeStep
    BY <1>5, <1>8 DEF TradeStep, SwapInstanceLists, ExchangeOwners
  <1>9. CASE ListingStep
    BY <1>2, <1>3, <1>4, <1>9 DEF ListingStep
  <1>10. CASE MoneyStep
    BY <1>5, <1>10 DEF MoneyStep, assetVars
  <1>11. QED
    BY <1>6, <1>7, <1>8, <1>9, <1>10 DEF MarketNext

\* A refresh touches no instance and no cap.
LEMMA RefreshLeavesInstances ==
    ASSUME RefreshStep
    PROVE  UNCHANGED <<ledgerVars, maxSupply, owner, status, listing, lastEvent>>
  BY DEF RefreshStep, UpsertRead, UpsertWrite, UpsertFails, vars, assetVars

LEMMA CatalogStepInv ==
    ASSUME CatalogInv, [CatalogNext]_catalogVars
    PROVE  CatalogInv'
  <1>1. MarketTypeOK' /\ RefreshTypeOK'
    BY CatalogStepType DEF CatalogInv
  <1>2. CASE MarketNext
    BY <1>1, <1>2, MarketStaysWithinSupply DEF CatalogInv
  <1>3. CASE RefreshStep \/ UNCHANGED catalogVars
    BY <1>1, <1>3, RefreshLeavesInstances, OthersStayWithinSupply
    DEF CatalogInv, catalogVars, vars, assetVars
  <1>4. QED
    BY <1>2, <1>3 DEF CatalogNext

LEMMA CatalogInitInv == CatalogInit => CatalogInv
  <1> SUFFICES ASSUME CatalogInit PROVE CatalogInv
    OBVIOUS
  <1>1. MarketTypeOK
    BY MarketInitInv DEF CatalogInit, MarketInv
  <1>2. RefreshTypeOK /\ RowsWithinSupply
    BY DEF CatalogInit, MarketInit, RefreshTypeOK, RowsWithinSupply
  <1>3. QED
    BY <1>1, <1>2 DEF CatalogInv

\* Tables and the copies in flight keep their shape, and serials stay within
\* max_supply, whatever order refreshes read and write back in.
THEOREM CatalogInvariant == CatalogSpec => []CatalogInv
  BY CatalogInitInv, CatalogStepInv, PTL DEF CatalogSpec

\* A refresh that puts an old counter back has serials issued twice, but never
\* one beyond max_supply.
THEOREM RowsStayWithinSupply == CatalogSpec => []RowsWithinSupply
  <1>1. CatalogInv => RowsWithinSupply
    BY DEF CatalogInv
  <1>2. QED
    BY <1>1, CatalogInvariant, PTL

\* So a token never has more instances than max_supply among refreshes either.
THEOREM SupplyHoldsAmongRefreshes == CatalogSpec => []InstancesWithinSupply
  <1>1. CatalogInv => InstancesWithinSupply
    BY SerialsCountInstances DEF CatalogInv, MarketTypeOK, RowsWithinSupply
  <1>2. QED
    BY <1>1, CatalogInvariant, PTL

-----------------------------------------------------------------------------
(* Money *)

\* The only step that sells a listing is the purchase of it.
LEMMA SalesAreSales ==
    ASSUME MarketTypeOK, CatalogNext, NEW l \in ListingId, IsOpen(l), listing'[l].status = "sold"
    PROVE  Sale(l)
  <1>1. listing[l].status # "sold" /\ listing'[l] # listing[l]
    BY DEF IsOpen
  <1>2. MarketNext
    BY <1>1, RefreshLeavesInstances DEF CatalogNext
  <1>3. ListingStep
    BY <1>1, <1>2 DEF MarketNext, CatalogStep, CreateCollection, RegisterToken, InstanceStep,
        ClaimToken, IssueSerial, TransferAsset, GiveTo, SetAssetStatus, StoreStatus, StatusEvent,
        TradeStep, SwapInstanceLists, ExchangeOwners, MoneyStep, assetVars
  <1>4. ASSUME NEW m \in ListingId, NEW a \in Asset, NEW p \in Account, NEW price \in Price
        PROVE  ~CreateListing(m, a, p, price)
    BY <1>1 DEF CreateListing, PutUpForSale, IsOpen, MarketTypeOK, AssetTypeOK
  <1>5. ASSUME NEW m \in ListingId, NEW p \in Account
        PROVE  ~CancelListing(m, p)
    <2>1. ASSUME CancelListing(m, p)
          PROVE  listing'[l] = listing[l] \/ listing'[l].status = "cancelled"
      BY <2>1, OpenListingType DEF CancelListing, Unlist, Close, IsOpen, MarketTypeOK, AssetTypeOK, ListingRow
    <2>2. QED
      BY <1>1, <2>1
  <1>6. PICK m \in ListingId, p \in Account : BuyListing(m, p)
    BY <1>3, <1>4, <1>5 DEF ListingStep
  <1>7. m = l
    BY <1>1, <1>6 DEF BuyListing, Deliver, Close, MarketTypeOK, AssetTypeOK
  <1>8. QED
    BY <1>6, <1>7, BuyIsSale

\* Also while serials are issued over instances on sale, nobody is charged
\* without delivery, and nobody delivers unpaid.
THEOREM SoldIsPaid == CatalogSpec => SoldMeansPaid
  <1> DEFINE A == \A l \in ListingId : IsOpen(l) /\ listing'[l].status = "sold" => Sale(l)
  <1>1. CatalogInv /\ [CatalogNext]_catalogVars => [A]_catalogVars
    BY SalesAreSales DEF CatalogInv
  <1>2. QED
    BY <1>1, CatalogInvariant, PTL DEF CatalogSpec, SoldMeansPaid

\* A refresh moves no money, so every loss is a bridge debit or a price paid.
THEOREM MoneyIsGuardedAmongRefreshes ==
    CatalogSpec => [][\A p \in Account : balance'[p] < balance[p] =>
                        \/ PaysByFreshKey(p)
                        \/ \E l \in ListingId : listing[l] # NoListing /\ Sale(l)
                                                /\ owner'[listing[l].asset] = p]_catalogVars
  <1> DEFINE A == \A p \in Account : balance'[p] < balance[p] =>
                        \/ PaysByFreshKey(p)
                        \/ \E l \in ListingId : listing[l] # NoListing /\ Sale(l)
                                                /\ owner'[listing[l].asset] = p
  <1>1. CatalogInv /\ CatalogNext => A
    <2> SUFFICES ASSUME CatalogInv, CatalogNext PROVE A
      OBVIOUS
    <2>1. CASE MarketNext
      BY <2>1, FallsAreExplained DEF CatalogInv
    <2>2. CASE RefreshStep
      <3>1. \A q \in Account : balance[q] \in Nat
        BY LedgerAssumption DEF CatalogInv, MarketTypeOK, LedgerTypeOK
      <3>2. QED
        BY <2>2, <3>1, RefreshLeavesInstances DEF ledgerVars
    <2>3. QED
      BY <2>1, <2>2 DEF CatalogNext
  <1>2. CatalogInv /\ [CatalogNext]_catalogVars => [A]_catalogVars
    BY <1>1
  <1>3. QED
    BY <1>2, CatalogInvariant, PTL DEF CatalogSpec
=============================================================================
