-------------------------- MODULE AssetMarketProofs --------------------------
(***************************************************************************)
(* Proofs about the SPIRAL ledger, the market that pays with it, and the   *)
(* escrow the market implements: for every set of accounts, tokens,        *)
(* listings, keys, amounts and prices and every bound.                     *)
(***************************************************************************)
EXTENDS AssetMarket, FiniteSetTheorems, TLAPS

-----------------------------------------------------------------------------
(***************************************************************************)
(* Part one: the ledger by itself (LedgerSpec).                            *)
(***************************************************************************)

-----------------------------------------------------------------------------
(* Types *)

LEMMA SaturatingAddType ==
    ASSUME NEW x \in 0..MaxBalance, NEW n \in Nat
    PROVE  SaturatingAdd(x, n) \in 0..MaxBalance
  BY LedgerAssumption DEF SaturatingAdd

LEMMA LedgerInitType == LedgerInit => LedgerTypeOK
  BY LedgerAssumption DEF LedgerInit, LedgerTypeOK

LEMMA StampType ==
    ASSUME LedgerTypeOK, NEW a \in Account, NEW k \in Key, NEW next \in 0..MaxBalance,
           StampBridgeOp(a, next, k)
    PROVE  LedgerTypeOK'
  BY DEF LedgerTypeOK, StampBridgeOp

LEMMA LedgerStepType ==
    ASSUME LedgerTypeOK, LedgerNext
    PROVE  LedgerTypeOK'
  <1>1. ASSUME NEW a \in Account, NEW n \in Amount, FaucetSpiral(a, n)
        PROVE  LedgerTypeOK'
    <2>1. SaturatingAdd(balance[a], n) \in 0..MaxBalance
      BY LedgerAssumption, SaturatingAddType DEF LedgerTypeOK
    <2>2. QED
      BY <1>1, <2>1 DEF LedgerTypeOK, FaucetSpiral
  <1>2. ASSUME NEW k \in Key, BridgeReplay(k)
        PROVE  LedgerTypeOK'
    BY <1>2 DEF LedgerTypeOK, BridgeReplay, ledgerVars
  <1>3. ASSUME NEW a \in Account, NEW n \in Amount, NEW k \in Key, BridgeCredit(a, n, k)
        PROVE  LedgerTypeOK'
    <2>1. SaturatingAdd(balance[a], n) \in 0..MaxBalance
      BY LedgerAssumption, SaturatingAddType DEF LedgerTypeOK
    <2>2. QED
      BY <1>3, <2>1, StampType DEF BridgeCredit
  <1>4. ASSUME NEW a \in Account, NEW n \in Amount, NEW k \in Key, BridgeDebit(a, n, k)
        PROVE  LedgerTypeOK'
    <2>1. balance[a] - n \in 0..MaxBalance
      BY <1>4, LedgerAssumption DEF BridgeDebit, LedgerTypeOK
    <2>2. QED
      BY <1>4, <2>1, StampType DEF BridgeDebit
  <1>5. QED
    BY <1>1, <1>2, <1>3, <1>4 DEF LedgerNext, BridgeSpiral

\* Balances stay within u64 and a key's row is a balance.
THEOREM LedgerTypes == LedgerSpec => []LedgerTypeOK
  <1>1. LedgerTypeOK /\ UNCHANGED ledgerVars => LedgerTypeOK'
    BY DEF LedgerTypeOK, ledgerVars
  <1>2. QED
    BY <1>1, LedgerInitType, LedgerStepType, PTL DEF LedgerSpec

-----------------------------------------------------------------------------
(* Idempotency of the bridge *)

LEMMA StampAppliesOnce ==
    ASSUME LedgerTypeOK, BridgeAppliesOnce, NEW a \in Account, NEW k \in Key,
           NEW next \in 0..MaxBalance, bridgeOps[k] = NoResult, StampBridgeOp(a, next, k)
    PROVE  BridgeAppliesOnce'
  <1>1. next # NoResult
    BY LedgerAssumption
  <1>2. bridgeOps'[k] = next /\ applied'[k] = applied[k] + 1
    BY DEF StampBridgeOp, LedgerTypeOK
  <1>3. \A j \in Key : j # k => bridgeOps'[j] = bridgeOps[j] /\ applied'[j] = applied[j]
    BY DEF StampBridgeOp, LedgerTypeOK
  <1>4. QED
    BY <1>1, <1>2, <1>3 DEF BridgeAppliesOnce

LEMMA LedgerStepOnce ==
    ASSUME LedgerTypeOK, BridgeAppliesOnce, [LedgerNext]_ledgerVars
    PROVE  BridgeAppliesOnce'
  <1>1. ASSUME NEW a \in Account, NEW n \in Amount, NEW k \in Key, BridgeCredit(a, n, k)
        PROVE  BridgeAppliesOnce'
    <2>1. SaturatingAdd(balance[a], n) \in 0..MaxBalance
      BY LedgerAssumption, SaturatingAddType DEF LedgerTypeOK
    <2>2. QED
      BY <1>1, <2>1, StampAppliesOnce DEF BridgeCredit
  <1>2. ASSUME NEW a \in Account, NEW n \in Amount, NEW k \in Key, BridgeDebit(a, n, k)
        PROVE  BridgeAppliesOnce'
    <2>1. balance[a] - n \in 0..MaxBalance
      BY <1>2, LedgerAssumption DEF BridgeDebit, LedgerTypeOK
    <2>2. QED
      BY <1>2, <2>1, StampAppliesOnce DEF BridgeDebit
  <1>3. CASE UNCHANGED <<bridgeOps, applied>>
    BY <1>3 DEF BridgeAppliesOnce
  <1>4. QED
    BY <1>1, <1>2, <1>3 DEF LedgerNext, BridgeSpiral, BridgeReplay, FaucetSpiral, ledgerVars

\* A key moves money at most once, whatever its calls carry and however often
\* they are repeated.
THEOREM BridgeOnce == LedgerSpec => []BridgeAppliesOnce
  <1>1. LedgerInit => BridgeAppliesOnce
    BY DEF LedgerInit, BridgeAppliesOnce
  <1>2. LedgerTypeOK /\ BridgeAppliesOnce /\ [LedgerNext]_ledgerVars => BridgeAppliesOnce'
    BY LedgerStepOnce
  <1>3. QED
    BY <1>1, <1>2, LedgerTypes, PTL DEF LedgerSpec

\* The first answer to a key is its answer for good.
THEOREM BridgeAnswers == LedgerSpec => BridgeAnswerIsStable
  <1> DEFINE A == \A k \in Key : bridgeOps[k] # NoResult => bridgeOps'[k] = bridgeOps[k]
  <1>1. LedgerTypeOK /\ [LedgerNext]_ledgerVars => [A]_ledgerVars
    BY DEF LedgerNext, BridgeSpiral, BridgeReplay, BridgeCredit, BridgeDebit, FaucetSpiral,
           StampBridgeOp, LedgerTypeOK, ledgerVars
  <1>2. QED
    BY <1>1, LedgerTypes, PTL DEF LedgerSpec, BridgeAnswerIsStable

\* Money leaves a balance only by a debit stamped under a fresh key: addition
\* saturates and never wraps around.
LEMMA DebitsAreStamped ==
    ASSUME LedgerTypeOK, LedgerNext
    PROVE  \A a \in Account : balance'[a] < balance[a] => PaysByFreshKey(a)
  <1> DEFINE A == \A a \in Account : balance'[a] < balance[a] => PaysByFreshKey(a)
  <1>1. ASSUME LedgerTypeOK, NEW a \in Account, NEW n \in Amount
        PROVE  SaturatingAdd(balance[a], n) >= balance[a]
    BY <1>1, LedgerAssumption DEF LedgerTypeOK, SaturatingAdd
  <1>2. ASSUME LedgerTypeOK, NEW a \in Account, NEW n \in Amount, FaucetSpiral(a, n)
        PROVE  A
    <2>1. \A b \in Account : balance'[b] = IF b = a THEN SaturatingAdd(balance[a], n) ELSE balance[b]
      BY <1>2 DEF FaucetSpiral, LedgerTypeOK
    <2>2. \A b \in Account : balance[b] \in Nat
      BY <1>2, LedgerAssumption DEF LedgerTypeOK
    <2>3. SaturatingAdd(balance[a], n) >= balance[a]
      BY <1>1, <1>2
    <2>4. SaturatingAdd(balance[a], n) \in Nat
      BY <1>2, SaturatingAddType, LedgerAssumption DEF LedgerTypeOK, SaturatingAdd
    <2>5. \A b \in Account : ~(balance'[b] < balance[b])
      BY <2>1, <2>2, <2>3, <2>4
    <2>6. QED
      BY <2>5
  <1>3. ASSUME LedgerTypeOK, NEW a \in Account, NEW k \in Key, NEW next \in 0..MaxBalance,
               bridgeOps[k] = NoResult, StampBridgeOp(a, next, k)
        PROVE  A
    <2>1. bridgeOps'[k] = next
      BY <1>3 DEF StampBridgeOp, LedgerTypeOK
    <2>2. \A b \in Account : balance'[b] = IF b = a THEN next ELSE balance[b]
      BY <1>3 DEF StampBridgeOp, LedgerTypeOK
    <2>3. \A b \in Account : balance[b] \in Nat
      BY <1>3, LedgerAssumption DEF LedgerTypeOK
    <2>4. QED
      BY <1>3, <2>1, <2>2, <2>3 DEF PaysByFreshKey
  <1>4. ASSUME LedgerTypeOK, NEW a \in Account, NEW n \in Amount, NEW k \in Key, BridgeSpiral(a, n, k)
        PROVE  [A]_ledgerVars
    <2>1. SaturatingAdd(balance[a], n) \in 0..MaxBalance
      BY <1>4, SaturatingAddType, LedgerAssumption DEF LedgerTypeOK
    <2>2. BridgeDebit(a, n, k) => balance[a] - n \in 0..MaxBalance
      BY <1>4, LedgerAssumption DEF BridgeDebit, LedgerTypeOK
    <2>3. QED
      BY <1>3, <1>4, <2>1, <2>2 DEF BridgeSpiral, BridgeReplay, BridgeCredit, BridgeDebit
  <1>5. ASSUME UNCHANGED balance
        PROVE  A
    <2>1. \A b \in Account : balance[b] \in Nat
      BY LedgerAssumption DEF LedgerTypeOK
    <2>2. QED
      BY <1>5, <2>1
  <1>6. PICK a \in Account, n \in Amount :
          FaucetSpiral(a, n) \/ \E k \in Key : BridgeSpiral(a, n, k)
    BY DEF LedgerNext
  <1>7. CASE FaucetSpiral(a, n)
    BY <1>2, <1>7
  <1>8. ASSUME NEW k \in Key, BridgeSpiral(a, n, k)
        PROVE  A
    <2>1. A \/ UNCHANGED ledgerVars
      BY <1>4, <1>8
    <2>2. QED
      BY <1>5, <2>1 DEF ledgerVars
  <1>9. QED
    BY <1>6, <1>7, <1>8

-----------------------------------------------------------------------------
(***************************************************************************)
(* Part two: the market (MarketSpec).                                      *)
(***************************************************************************)

-----------------------------------------------------------------------------
(* Types *)

LEMMA AssetComponents ==
    /\ \A t \in Token, s \in Serial : <<t, s>> \in Asset
    /\ \A a \in Asset : TokenOf(a) \in Token /\ SerialOf(a) \in Serial
    /\ \A a \in Asset : a = <<TokenOf(a), SerialOf(a)>>
  BY DEF Asset, TokenOf, SerialOf

LEMMA OpenListingType ==
    ASSUME AssetTypeOK, NEW l \in ListingId, listing[l] # NoListing
    PROVE  /\ listing[l] \in ListingRow
           /\ listing[l].asset \in Asset
           /\ listing[l].seller \in Account
           /\ listing[l].price \in Price
  BY DEF AssetTypeOK, ListingRow

LEMMA EventType ==
    ASSUME NEW kind \in EventKind, NEW p \in Account \cup {NoAccount}
    PROVE  Event(kind, p) \in [kind : EventKind, holder : Account \cup {NoAccount}]
  BY DEF Event

LEMMA LogEventType ==
    ASSUME AssetTypeOK, NEW a \in Asset, NEW kind \in EventKind, NEW p \in Account,
           LogEvent(a, kind, p)
    PROVE  lastEvent' \in [Asset -> [kind : EventKind, holder : Account \cup {NoAccount}]]
  BY EventType DEF AssetTypeOK, LogEvent

LEMMA CloseType ==
    ASSUME AssetTypeOK, NEW l \in ListingId, IsOpen(l),
           NEW outcome \in {"sold", "cancelled"}, Close(l, outcome)
    PROVE  listing' \in [ListingId -> ListingRow \cup {NoListing}]
  BY DEF AssetTypeOK, IsOpen, Close, ListingRow

LEMMA AssetInitType == MarketInit => AssetTypeOK
  BY MarketAssumption, EventType DEF MarketInit, AssetTypeOK, EventKind

LEMMA AssetStepType ==
    ASSUME MarketTypeOK, MarketNext
    PROVE  AssetTypeOK'
  <1> USE DEF MarketTypeOK
  <1>1. ASSUME NEW c \in Collection, CreateCollection(c)
        PROVE  AssetTypeOK'
    BY <1>1 DEF AssetTypeOK, CreateCollection
  <1>2. ASSUME NEW c \in Collection, NEW t \in Token, NEW max \in Serial,
               NEW start \in 0..SupplyCap, RegisterToken(c, t, max, start)
        PROVE  AssetTypeOK'
    <2>1. max \in 0..SupplyCap
      BY MarketAssumption DEF Serial
    <2>2. QED
      BY <1>2, <2>1 DEF AssetTypeOK, RegisterToken
  <1>3. ASSUME NEW t \in Token, NEW by \in Account, ClaimToken(t, by)
        PROVE  AssetTypeOK'
    <2> DEFINE serial == minted[t] + 1
    <2>1. serial \in 0..SupplyCap /\ serial \in Serial
      BY <1>3, MarketAssumption DEF AssetTypeOK, ClaimToken, IssueSerial, Serial
    <2>2. <<t, serial>> \in Asset
      BY <2>1, AssetComponents
    <2>3. LogEvent(<<t, serial>>, "mint", by)
      BY <1>3 DEF ClaimToken, IssueSerial
    <2>4. lastEvent' \in [Asset -> [kind : EventKind, holder : Account \cup {NoAccount}]]
      BY <2>2, <2>3, LogEventType DEF EventKind
    <2>5. minted' \in [Token -> 0..SupplyCap]
      BY <1>3, <2>1 DEF AssetTypeOK, ClaimToken, IssueSerial
    <2>6. /\ owner' \in [Asset -> Account \cup {NoAccount}]
          /\ status' \in [Asset -> {"none", "active", "listed", "frozen"}]
      BY <1>3, <2>2 DEF AssetTypeOK, ClaimToken, IssueSerial
    <2>7. QED
      BY <1>3, <2>4, <2>5, <2>6 DEF AssetTypeOK, ClaimToken, IssueSerial
  <1>4. ASSUME NEW a \in Asset, NEW p \in Account, NEW q \in Account, TransferAsset(a, p, q)
        PROVE  AssetTypeOK'
    BY <1>4, LogEventType DEF AssetTypeOK, TransferAsset, GiveTo, EventKind
  <1>5. ASSUME NEW a \in Asset, NEW new \in {"active", "frozen"}, SetAssetStatus(a, new)
        PROVE  AssetTypeOK'
    BY <1>5, EventType DEF AssetTypeOK, SetAssetStatus, StoreStatus, StatusEvent, LogEvent,
                           EventKind
  <1>6. ASSUME NEW offered \in SUBSET Asset, NEW requested \in SUBSET Asset,
               NEW p \in Account, NEW q \in Account, SwapInstanceLists(offered, p, requested, q)
        PROVE  AssetTypeOK'
    BY <1>6, EventType DEF AssetTypeOK, SwapInstanceLists, ExchangeOwners, EventKind
  <1>7. ASSUME NEW l \in ListingId, NEW a \in Asset, NEW p \in Account, NEW price \in Price,
               CreateListing(l, a, p, price)
        PROVE  AssetTypeOK'
    BY <1>7, LogEventType DEF AssetTypeOK, CreateListing, PutUpForSale, EventKind, ListingRow
  <1>8. ASSUME NEW l \in ListingId, NEW p \in Account, CancelListing(l, p)
        PROVE  AssetTypeOK'
    <2>1. listing[l] # NoListing /\ IsOpen(l)
      BY <1>8 DEF CancelListing, Unlist, Release, IsOpen
    <2>2. listing' \in [ListingId -> ListingRow \cup {NoListing}]
      BY <1>8, <2>1, CloseType DEF CancelListing, Unlist, Release
    <2>3. lastEvent' \in [Asset -> [kind : EventKind, holder : Account \cup {NoAccount}]]
      BY <1>8, <2>1, OpenListingType, LogEventType DEF CancelListing, Unlist, Release, EventKind
    <2>4. status' \in [Asset -> {"none", "active", "listed", "frozen"}]
      BY <1>8 DEF AssetTypeOK, CancelListing, Unlist, Release
    <2>5. QED
      BY <1>8, <2>2, <2>3, <2>4 DEF AssetTypeOK, CancelListing, Unlist, Release
  <1>9. ASSUME NEW l \in ListingId, NEW p \in Account, BuyListing(l, p)
        PROVE  AssetTypeOK'
    <2>1. listing[l] # NoListing /\ IsOpen(l)
      BY <1>9 DEF BuyListing, Deliver, IsOpen
    <2>2. listing' \in [ListingId -> ListingRow \cup {NoListing}]
      BY <1>9, <2>1, CloseType DEF BuyListing, Deliver
    <2>3. lastEvent' \in [Asset -> [kind : EventKind, holder : Account \cup {NoAccount}]]
      BY <1>9, <2>1, OpenListingType, LogEventType DEF BuyListing, Deliver, EventKind
    <2>4. /\ owner' \in [Asset -> Account \cup {NoAccount}]
          /\ status' \in [Asset -> {"none", "active", "listed", "frozen"}]
      BY <1>9 DEF AssetTypeOK, BuyListing, Deliver
    <2>5. QED
      BY <1>9, <2>2, <2>3, <2>4 DEF AssetTypeOK, BuyListing, Deliver
  <1>10. CASE MoneyStep
    BY <1>10 DEF AssetTypeOK, MoneyStep, assetVars
  <1>11. QED
    BY <1>1, <1>2, <1>3, <1>4, <1>5, <1>6, <1>7, <1>8, <1>9, <1>10
    DEF MarketNext, CatalogStep, InstanceStep, TradeStep, ListingStep

\* Only a sale and the money operations touch the ledger.
LEMMA SaleBalanceType ==
    ASSUME MarketTypeOK, NEW l \in ListingId, NEW p \in Account, BuyListing(l, p)
    PROVE  LedgerTypeOK'
  <1> DEFINE price == listing[l].price
             seller == listing[l].seller
  <1>1. price \in Nat /\ seller \in Account
    BY OpenListingType, MarketAssumption DEF MarketTypeOK, BuyListing, Deliver, IsOpen
  <1>2. balance[p] - price \in 0..MaxBalance
    BY <1>1, LedgerAssumption DEF MarketTypeOK, LedgerTypeOK, BuyListing, Deliver
  <1>3. SaturatingAdd(balance[seller], price) \in 0..MaxBalance
    BY <1>1, SaturatingAddType DEF MarketTypeOK, LedgerTypeOK
  <1>4. seller # p
    BY DEF BuyListing, Deliver
  <1>5. balance' = [balance EXCEPT ![p] = balance[p] - price,
                                  ![seller] = SaturatingAdd(balance[seller], price)]
    BY <1>4 DEF BuyListing, Deliver, MarketTypeOK, LedgerTypeOK
  <1>6. balance' \in [Account -> 0..MaxBalance]
    BY <1>1, <1>2, <1>3, <1>5 DEF MarketTypeOK, LedgerTypeOK
  <1>7. QED
    BY <1>6 DEF MarketTypeOK, LedgerTypeOK, BuyListing, Deliver

LEMMA MarketStepType ==
    ASSUME MarketTypeOK, [MarketNext]_vars
    PROVE  MarketTypeOK'
  <1>1. CASE UNCHANGED vars
    BY <1>1 DEF MarketTypeOK, LedgerTypeOK, AssetTypeOK, vars, ledgerVars, assetVars
  <1>2. CASE MarketNext
    <2>1. AssetTypeOK'
      BY <1>2, AssetStepType
    <2>2. CASE CatalogStep
      BY <2>1, <2>2 DEF CatalogStep, CreateCollection, RegisterToken, MarketTypeOK, LedgerTypeOK,
                        ledgerVars
    <2>3. CASE InstanceStep
      BY <2>1, <2>3 DEF InstanceStep, ClaimToken, IssueSerial, TransferAsset, GiveTo,
                        SetAssetStatus, StoreStatus, StatusEvent,
                        MarketTypeOK, LedgerTypeOK, ledgerVars
    <2>4. CASE TradeStep
      BY <2>1, <2>4 DEF TradeStep, SwapInstanceLists, ExchangeOwners, MarketTypeOK, LedgerTypeOK,
                        ledgerVars
    <2>5. CASE ListingStep
      <3>1. ASSUME NEW l \in ListingId, NEW p \in Account, BuyListing(l, p)
            PROVE  LedgerTypeOK'
        BY <3>1, SaleBalanceType
      <3>2. ASSUME NEW l \in ListingId, NEW p \in Account, CancelListing(l, p)
            PROVE  LedgerTypeOK'
        BY <3>2 DEF CancelListing, Unlist, Release, MarketTypeOK, LedgerTypeOK, ledgerVars
      <3>3. ASSUME NEW l \in ListingId, NEW a \in Asset, NEW p \in Account, NEW price \in Price,
                   CreateListing(l, a, p, price)
            PROVE  LedgerTypeOK'
        BY <3>3 DEF CreateListing, PutUpForSale, MarketTypeOK, LedgerTypeOK, ledgerVars
      <3>4. QED
        BY <2>1, <2>5, <3>1, <3>2, <3>3 DEF ListingStep, MarketTypeOK
    <2>6. CASE MoneyStep
      BY <2>1, <2>6, LedgerStepType DEF MoneyStep, MarketTypeOK
    <2>7. QED
      BY <1>2, <2>2, <2>3, <2>4, <2>5, <2>6 DEF MarketNext
  <1>3. QED
    BY <1>1, <1>2

\* Every table keeps its shape: balances stay within u64, counters within the
\* supply cap, and every listing row is complete.
THEOREM MarketTypes == MarketSpec => []MarketTypeOK
  <1>1. MarketInit => MarketTypeOK
    BY LedgerInitType, AssetInitType DEF MarketInit, MarketTypeOK
  <1>2. MarketTypeOK /\ [MarketNext]_vars => MarketTypeOK'
    BY MarketStepType
  <1>3. QED
    BY <1>1, <1>2, PTL DEF MarketSpec

-----------------------------------------------------------------------------
(* Reservations: listings and instance rows agree *)

LEMMA MarketInitInv == MarketInit => MarketInv
  <1> SUFFICES ASSUME MarketInit PROVE MarketInv
    OBVIOUS
  <1>1. MarketTypeOK
    BY LedgerInitType, AssetInitType DEF MarketInit, MarketTypeOK
  <1>2. \A l \in ListingId : ~IsOpen(l)
    BY DEF MarketInit, IsOpen
  <1>3. \A a \in Asset : /\ status[a] = "none" /\ owner[a] = NoAccount
                        /\ lastEvent[a].kind = "none" /\ lastEvent[a].holder = NoAccount
    BY DEF MarketInit, Event
  <1>4. QED
    BY <1>1, <1>2, <1>3
    DEF MarketInv, RowsHaveOwners, OpenListingReserves, OneOpenListing,
        NoOrphanedReservation, SerialsAreIssued, EventLogExplainsState

\* What the invariant says depends on these variables only.
LEMMA InvFrame ==
    ASSUME MarketInv, MarketTypeOK',
           UNCHANGED <<owner, status, listing, lastEvent, minted, maxSupply>>
    PROVE  MarketInv'
  BY DEF MarketInv, RowsHaveOwners, OpenListingReserves, OneOpenListing,
         NoOrphanedReservation, SerialsAreIssued, EventLogExplainsState, IsOpen

\* Registering writes the row of a token that has none, and so no instances.
LEMMA RegisterTokenInv ==
    ASSUME MarketInv, MarketTypeOK', NEW c \in Collection, NEW t \in Token, NEW max \in Serial,
           NEW start \in 0..SupplyCap, RegisterToken(c, t, max, start)
    PROVE  MarketInv'
  <1>1. \A a \in Asset : TokenOf(a) = t => status[a] = "none"
    BY MarketAssumption, AssetComponents
    DEF MarketInv, SerialsAreIssued, RegisterToken, MarketTypeOK, AssetTypeOK, Serial
  <1>2. SerialsAreIssued'
    BY <1>1, AssetComponents
    DEF MarketInv, SerialsAreIssued, RegisterToken, MarketTypeOK, AssetTypeOK
  <1>3. QED
    BY <1>2 DEF RegisterToken, MarketInv, RowsHaveOwners, OpenListingReserves, OneOpenListing,
         NoOrphanedReservation, EventLogExplainsState, IsOpen

\* A claim finds its serial free.
LEMMA NextSerialIsFree ==
    ASSUME MarketInv, NEW t \in Token, minted[t] < maxSupply[t]
    PROVE  /\ minted[t] + 1 \in Serial
           /\ <<t, minted[t] + 1>> \in Asset
           /\ status[<<t, minted[t] + 1>>] = "none"
  <1>1. minted[t] \in Nat /\ maxSupply[t] \in Nat /\ maxSupply[t] <= SupplyCap
    BY MarketAssumption DEF MarketInv, MarketTypeOK, AssetTypeOK
  <1>2. minted[t] + 1 \in Serial
    BY <1>1, MarketAssumption DEF Serial
  <1>3. <<t, minted[t] + 1>> \in Asset
    BY <1>2, AssetComponents
  <1>4. TokenOf(<<t, minted[t] + 1>>) = t /\ SerialOf(<<t, minted[t] + 1>>) = minted[t] + 1
    BY DEF TokenOf, SerialOf
  <1>5. QED
    BY <1>1, <1>2, <1>3, <1>4 DEF MarketInv, SerialsAreIssued

\* A step that leaves the listings and every Listed instance alone, and lists
\* nothing, keeps listings and reservations in agreement.
LEMMA UnreservedFrame ==
    ASSUME MarketInv, NEW S \in SUBSET Asset, UNCHANGED listing,
           \A a \in S : status[a] # "listed" /\ status'[a] # "listed",
           \A a \in Asset \ S : owner'[a] = owner[a] /\ status'[a] = status[a]
    PROVE  OpenListingReserves' /\ OneOpenListing' /\ NoOrphanedReservation'
  <1>1. \A l \in ListingId : IsOpen(l)' <=> IsOpen(l)
    BY DEF IsOpen
  <1>2. \A l \in ListingId : IsOpen(l) => listing[l].asset \in Asset \ S
    BY OpenListingType DEF MarketInv, MarketTypeOK, OpenListingReserves, IsOpen
  <1>3. OpenListingReserves'
    BY <1>1, <1>2 DEF MarketInv, OpenListingReserves
  <1>4. OneOpenListing'
    BY <1>1 DEF MarketInv, OneOpenListing
  <1>5. NoOrphanedReservation'
    BY <1>1 DEF MarketInv, NoOrphanedReservation
  <1>6. QED
    BY <1>3, <1>4, <1>5

LEMMA ClaimTokenInv ==
    ASSUME MarketInv, MarketTypeOK', NEW t \in Token, NEW by \in Account, ClaimToken(t, by)
    PROVE  MarketInv'
  <1> DEFINE new == <<t, minted[t] + 1>>
  <1>1. new \in Asset /\ status[new] = "none" /\ minted[t] + 1 \in Serial
    BY NextSerialIsFree DEF ClaimToken, IssueSerial
  <1>2. MarketTypeOK /\ by # NoAccount
    BY MarketAssumption DEF MarketInv
  <1>3. /\ status' = [status EXCEPT ![new] = "active"]
        /\ owner' = [owner EXCEPT ![new] = by]
        /\ lastEvent' = [lastEvent EXCEPT ![new] = Event("mint", by)]
    BY DEF ClaimToken, IssueSerial, LogEvent
  <1>4. RowsHaveOwners'
    BY <1>1, <1>2, <1>3 DEF MarketInv, MarketTypeOK, AssetTypeOK, RowsHaveOwners
  <1>5. OpenListingReserves' /\ OneOpenListing' /\ NoOrphanedReservation'
    <2>1. UNCHANGED listing /\ {new} \in SUBSET Asset
      BY <1>1 DEF ClaimToken, IssueSerial
    <2>2. status[new] # "listed" /\ status'[new] # "listed"
      BY <1>1, <1>2, <1>3 DEF MarketTypeOK, AssetTypeOK
    <2>3. \A a \in Asset \ {new} : owner'[a] = owner[a] /\ status'[a] = status[a]
      BY <1>2, <1>3 DEF MarketTypeOK, AssetTypeOK
    <2>4. QED
      BY <2>1, <2>2, <2>3, UnreservedFrame
  <1>6. SerialsAreIssued'
    <2> SUFFICES ASSUME NEW a \in Asset, status'[a] # "none"
                 PROVE  SerialOf(a) <= minted'[TokenOf(a)] /\ SerialOf(a) <= maxSupply'[TokenOf(a)]
      BY DEF SerialsAreIssued
    <2>1. /\ minted' = [minted EXCEPT ![t] = minted[t] + 1]
          /\ maxSupply' = maxSupply /\ minted[t] < maxSupply[t]
      BY DEF ClaimToken, IssueSerial
    <2>2. TokenOf(a) \in Token /\ SerialOf(a) \in Nat
      BY AssetComponents, MarketAssumption DEF Serial
    <2>3. minted \in [Token -> Nat] /\ maxSupply \in [Token -> Nat]
      BY <1>2, MarketAssumption DEF MarketTypeOK, AssetTypeOK
    <2>4. CASE a = new
      <3>1. TokenOf(a) = t /\ SerialOf(a) = minted[t] + 1
        BY <2>4 DEF TokenOf, SerialOf
      <3>2. QED
        BY <2>1, <2>3, <3>1
    <2>5. CASE a # new
      <3>1. status[a] # "none"
        BY <1>2, <1>3, <2>5 DEF MarketTypeOK, AssetTypeOK
      <3>2. QED
        BY <2>1, <2>2, <2>3, <3>1 DEF MarketInv, SerialsAreIssued
    <2>6. QED
      BY <2>4, <2>5
  <1>7. EventLogExplainsState'
    BY <1>1, <1>2, <1>3 DEF MarketInv, MarketTypeOK, AssetTypeOK, EventLogExplainsState, Event
  <1>8. QED
    BY <1>4, <1>5, <1>6, <1>7 DEF MarketInv

LEMMA TransferAssetInv ==
    ASSUME MarketInv, MarketTypeOK', NEW a \in Asset, NEW p \in Account, NEW q \in Account,
           TransferAsset(a, p, q)
    PROVE  MarketInv'
  <1>1. MarketTypeOK /\ p # NoAccount /\ q # NoAccount
    BY MarketAssumption DEF MarketInv
  <1>2. RowsHaveOwners'
    BY <1>1 DEF TransferAsset, GiveTo, MarketInv, MarketTypeOK, AssetTypeOK, RowsHaveOwners
  <1>3. OpenListingReserves' /\ OneOpenListing' /\ NoOrphanedReservation'
    <2>1. UNCHANGED <<listing, status>> /\ status[a] = "active" /\ {a} \in SUBSET Asset
      BY DEF TransferAsset, GiveTo
    <2>2. \A b \in Asset \ {a} : owner'[b] = owner[b]
      BY <1>1 DEF TransferAsset, GiveTo, MarketTypeOK, AssetTypeOK
    <2>3. QED
      BY <2>1, <2>2, UnreservedFrame
  <1>4. SerialsAreIssued'
    BY DEF MarketInv, TransferAsset, GiveTo, SerialsAreIssued
  <1>5. EventLogExplainsState'
    BY <1>1 DEF TransferAsset, GiveTo, LogEvent, Event, MarketInv, MarketTypeOK, AssetTypeOK,
                EventLogExplainsState
  <1>6. QED
    BY <1>2, <1>3, <1>4, <1>5 DEF MarketInv

LEMMA SetAssetStatusInv ==
    ASSUME MarketInv, MarketTypeOK', NEW a \in Asset, NEW new \in {"active", "frozen"},
           SetAssetStatus(a, new)
    PROVE  MarketInv'
  <1>1. MarketTypeOK
    BY DEF MarketInv
  <1>2. RowsHaveOwners'
    BY <1>1 DEF SetAssetStatus, StoreStatus, StatusEvent, MarketInv, MarketTypeOK, AssetTypeOK,
                RowsHaveOwners
  <1>3. OpenListingReserves' /\ OneOpenListing' /\ NoOrphanedReservation'
    <2>1. UNCHANGED <<listing, owner>> /\ {a} \in SUBSET Asset
      BY DEF SetAssetStatus, StoreStatus, StatusEvent
    <2>2. status[a] # "listed" /\ status'[a] # "listed"
      BY <1>1 DEF SetAssetStatus, StoreStatus, StatusEvent, MarketTypeOK, AssetTypeOK
    <2>3. \A b \in Asset \ {a} : status'[b] = status[b]
      BY <1>1 DEF SetAssetStatus, StoreStatus, StatusEvent, MarketTypeOK, AssetTypeOK
    <2>4. QED
      BY <2>1, <2>2, <2>3, UnreservedFrame
  <1>4. SerialsAreIssued'
    BY <1>1 DEF MarketInv, SetAssetStatus, StoreStatus, StatusEvent, SerialsAreIssued,
                MarketTypeOK, AssetTypeOK
  <1>5. EventLogExplainsState'
    BY <1>1 DEF SetAssetStatus, StoreStatus, StatusEvent, LogEvent, Event, MarketInv, MarketTypeOK,
                AssetTypeOK,
                EventLogExplainsState
  <1>6. QED
    BY <1>2, <1>3, <1>4, <1>5 DEF MarketInv

LEMMA SwapInstanceListsInv ==
    ASSUME MarketInv, MarketTypeOK', NEW offered \in SUBSET Asset, NEW requested \in SUBSET Asset,
           NEW p \in Account, NEW q \in Account, SwapInstanceLists(offered, p, requested, q)
    PROVE  MarketInv'
  <1>1. MarketTypeOK /\ p # NoAccount /\ q # NoAccount
    BY MarketAssumption DEF MarketInv
  <1> DEFINE moved == offered \cup requested
  <1>2. UNCHANGED <<listing, status>> /\ moved \in SUBSET Asset
    BY DEF SwapInstanceLists, ExchangeOwners
  <1>3. \A a \in moved : status[a] = "active"
    BY DEF SwapInstanceLists, ExchangeOwners
  <1>4. \A a \in Asset \ moved : owner'[a] = owner[a] /\ lastEvent'[a] = lastEvent[a]
    BY DEF SwapInstanceLists, ExchangeOwners
  <1>5. \A a \in moved : owner'[a] \in {p, q} /\ lastEvent'[a] = Event("trade", owner'[a])
    BY DEF SwapInstanceLists, ExchangeOwners
  <1>6. RowsHaveOwners'
    BY <1>1, <1>2, <1>3, <1>4, <1>5 DEF MarketInv, RowsHaveOwners
  <1>7. OpenListingReserves' /\ OneOpenListing' /\ NoOrphanedReservation'
    BY <1>2, <1>3, <1>4, UnreservedFrame
  <1>8. SerialsAreIssued'
    BY DEF MarketInv, SwapInstanceLists, ExchangeOwners, SerialsAreIssued
  <1>9. EventLogExplainsState'
    <2> SUFFICES ASSUME NEW a \in Asset
                 PROVE  /\ lastEvent'[a].holder = owner'[a]
                        /\ status'[a] = CASE lastEvent'[a].kind = "none" -> "none"
                                          [] lastEvent'[a].kind = "list" -> "listed"
                                          [] lastEvent'[a].kind = "freeze" -> "frozen"
                                          [] OTHER -> "active"
      BY DEF EventLogExplainsState
    <2>1. CASE a \in moved
      <3>1. lastEvent'[a] = [kind |-> "trade", holder |-> owner'[a]]
        BY <1>5, <2>1 DEF Event
      <3>2. status'[a] = "active"
        BY <1>2, <1>3, <2>1
      <3>3. QED
        BY <3>1, <3>2
    <2>2. CASE a \notin moved
      BY <1>2, <1>4, <2>2 DEF MarketInv, EventLogExplainsState
    <2>3. QED
      BY <2>1, <2>2
  <1>10. QED
    BY <1>6, <1>7, <1>8, <1>9 DEF MarketInv

LEMMA CreateListingInv ==
    ASSUME MarketInv, MarketTypeOK', NEW l \in ListingId, NEW a \in Asset, NEW p \in Account,
           NEW price \in Price, CreateListing(l, a, p, price)
    PROVE  MarketInv'
  <1> DEFINE row == [asset |-> a, seller |-> p, price |-> price, status |-> "open"]
  <1>1. MarketTypeOK /\ row \in ListingRow
    BY DEF MarketInv, ListingRow
  <1>2. /\ listing[l] = NoListing /\ listing' = [listing EXCEPT ![l] = row]
        /\ status[a] = "active" /\ status' = [status EXCEPT ![a] = "listed"]
        /\ owner[a] = p /\ owner' = owner
        /\ lastEvent' = [lastEvent EXCEPT ![a] = Event("list", p)]
    BY DEF CreateListing, PutUpForSale, LogEvent
  <1>3. ~IsOpen(l) /\ IsOpen(l)' /\ listing'[l] = row
    BY <1>1, <1>2, MarketAssumption DEF IsOpen, MarketTypeOK, AssetTypeOK
  <1>4. \A m \in ListingId : m # l => listing'[m] = listing[m] /\ (IsOpen(m)' <=> IsOpen(m))
    BY <1>1, <1>2 DEF IsOpen, MarketTypeOK, AssetTypeOK
  <1>5. \A m \in ListingId : IsOpen(m) => listing[m].asset # a
    BY <1>2 DEF MarketInv, OpenListingReserves
  <1>6. \A b \in Asset : b # a => status'[b] = status[b]
    BY <1>1, <1>2 DEF MarketTypeOK, AssetTypeOK
  <1>7. status'[a] = "listed"
    BY <1>1, <1>2 DEF MarketTypeOK, AssetTypeOK
  <1>8. \A m \in ListingId : IsOpen(m) => listing[m].asset \in Asset
    BY <1>1, OpenListingType DEF MarketTypeOK, IsOpen
  <1>9. RowsHaveOwners'
    BY <1>2, <1>6, <1>7 DEF MarketInv, RowsHaveOwners
  <1>10. OpenListingReserves'
    BY <1>2, <1>3, <1>4, <1>5, <1>6, <1>7, <1>8 DEF MarketInv, OpenListingReserves
  <1>11. OneOpenListing'
    <2>1. \A m \in ListingId : m # l /\ IsOpen(m)' => listing'[m].asset # listing'[l].asset
      BY <1>3, <1>4, <1>5
    <2>2. \A m, k \in ListingId : m # l /\ k # l /\ IsOpen(m)' /\ IsOpen(k)'
                                   /\ listing'[m].asset = listing'[k].asset => m = k
      BY <1>4 DEF MarketInv, OneOpenListing
    <2>3. QED
      BY <2>1, <2>2 DEF OneOpenListing
  <1>12. NoOrphanedReservation'
    <2> SUFFICES ASSUME NEW b \in Asset, status'[b] = "listed"
                 PROVE  \E m \in ListingId : IsOpen(m)' /\ listing'[m].asset = b
                                             /\ listing'[m].seller = owner'[b]
      BY DEF NoOrphanedReservation
    <2>1. CASE b = a
      BY <2>1, <1>2, <1>3
    <2>2. CASE b # a
      <3>1. PICK m \in ListingId : IsOpen(m) /\ listing[m].asset = b /\ listing[m].seller = owner[b]
        BY <2>2, <1>6 DEF MarketInv, NoOrphanedReservation
      <3>2. m # l
        BY <3>1, <1>3
      <3>3. QED
        BY <3>1, <3>2, <1>2, <1>4
    <2>3. QED
      BY <2>1, <2>2
  <1>13. SerialsAreIssued'
    BY <1>2, <1>6 DEF MarketInv, CreateListing, PutUpForSale, SerialsAreIssued
  <1>14. EventLogExplainsState'
    BY <1>1, <1>2, <1>6, <1>7 DEF Event, MarketInv, MarketTypeOK, AssetTypeOK, EventLogExplainsState
  <1>15. QED
    BY <1>9, <1>10, <1>11, <1>12, <1>13, <1>14 DEF MarketInv

\* What closing a listing leaves of the reservations: the instance is no
\* longer reserved, the other listings are as they were.
LEMMA ClosingKeepsReservations ==
    ASSUME MarketInv, NEW l \in ListingId, IsOpen(l),
           NEW outcome \in {"sold", "cancelled"}, Close(l, outcome),
           status' = [status EXCEPT ![listing[l].asset] = "active"],
           \A b \in Asset : b # listing[l].asset => owner'[b] = owner[b]
    PROVE  OpenListingReserves' /\ OneOpenListing' /\ NoOrphanedReservation'
  <1> DEFINE a == listing[l].asset
  <1>1. MarketTypeOK /\ a \in Asset /\ listing[l] \in ListingRow
    BY OpenListingType DEF MarketInv, MarketTypeOK, IsOpen
  <1>2. ~IsOpen(l)'
    BY <1>1 DEF Close, IsOpen, MarketTypeOK, AssetTypeOK, ListingRow
  <1>3. \A m \in ListingId : m # l => listing'[m] = listing[m] /\ (IsOpen(m)' <=> IsOpen(m))
    BY <1>1 DEF Close, IsOpen, MarketTypeOK, AssetTypeOK
  <1>4. \A m \in ListingId : m # l /\ IsOpen(m) => listing[m].asset \in Asset \ {a}
    BY <1>1, OpenListingType DEF MarketInv, MarketTypeOK, OneOpenListing, IsOpen
  <1>5. status'[a] = "active" /\ \A b \in Asset : b # a => status'[b] = status[b]
    BY <1>1 DEF MarketTypeOK, AssetTypeOK
  <1>6. OpenListingReserves'
    BY <1>2, <1>3, <1>4, <1>5 DEF MarketInv, OpenListingReserves
  <1>7. OneOpenListing'
    BY <1>2, <1>3 DEF MarketInv, OneOpenListing
  <1>8. NoOrphanedReservation'
    <2> SUFFICES ASSUME NEW b \in Asset, status'[b] = "listed"
                 PROVE  \E m \in ListingId : IsOpen(m)' /\ listing'[m].asset = b
                                             /\ listing'[m].seller = owner'[b]
      BY DEF NoOrphanedReservation
    <2>1. b # a /\ status[b] = "listed"
      BY <1>5
    <2>2. PICK m \in ListingId : IsOpen(m) /\ listing[m].asset = b /\ listing[m].seller = owner[b]
      BY <2>1 DEF MarketInv, NoOrphanedReservation
    <2>3. m # l
      BY <2>1, <2>2
    <2>4. QED
      BY <2>1, <2>2, <2>3, <1>3
  <1>9. QED
    BY <1>6, <1>7, <1>8

LEMMA CancelListingInv ==
    ASSUME MarketInv, MarketTypeOK', NEW l \in ListingId, NEW p \in Account, CancelListing(l, p)
    PROVE  MarketInv'
  <1> DEFINE a == listing[l].asset
  <1>1. MarketTypeOK /\ IsOpen(l) /\ a \in Asset /\ p = listing[l].seller
    BY OpenListingType DEF MarketInv, MarketTypeOK, CancelListing, Unlist, Release, IsOpen
  <1>2. status[a] = "listed" /\ owner[a] = p
    BY <1>1 DEF MarketInv, OpenListingReserves
  <1>3. /\ status' = [status EXCEPT ![a] = "active"] /\ owner' = owner
        /\ Close(l, "cancelled")
        /\ lastEvent' = [lastEvent EXCEPT ![a] = Event("unlist", p)]
    BY <1>2 DEF CancelListing, Unlist, Release, LogEvent
  <1>4. status'[a] = "active" /\ \A b \in Asset : b # a => status'[b] = status[b]
    BY <1>1, <1>3 DEF MarketTypeOK, AssetTypeOK
  <1>5. RowsHaveOwners'
    BY <1>2, <1>3, <1>4 DEF MarketInv, RowsHaveOwners
  <1>6. OpenListingReserves' /\ OneOpenListing' /\ NoOrphanedReservation'
    BY <1>1, <1>3, ClosingKeepsReservations
  <1>7. SerialsAreIssued'
    BY <1>2, <1>4 DEF MarketInv, CancelListing, Unlist, Release, SerialsAreIssued
  <1>8. EventLogExplainsState'
    BY <1>1, <1>2, <1>3, <1>4 DEF Event, MarketInv, MarketTypeOK, AssetTypeOK, EventLogExplainsState
  <1>9. QED
    BY <1>5, <1>6, <1>7, <1>8 DEF MarketInv

LEMMA BuyListingInv ==
    ASSUME MarketInv, MarketTypeOK', NEW l \in ListingId, NEW p \in Account, BuyListing(l, p)
    PROVE  MarketInv'
  <1> DEFINE a == listing[l].asset
  <1>1. MarketTypeOK /\ IsOpen(l) /\ a \in Asset /\ p # NoAccount
    BY OpenListingType, MarketAssumption DEF MarketInv, MarketTypeOK, BuyListing, Deliver, IsOpen
  <1>2. /\ status[a] = "listed" /\ status' = [status EXCEPT ![a] = "active"]
        /\ owner' = [owner EXCEPT ![a] = p]
        /\ Close(l, "sold")
        /\ lastEvent' = [lastEvent EXCEPT ![a] = Event("trade", p)]
    BY DEF BuyListing, Deliver, LogEvent
  <1>3. /\ status'[a] = "active" /\ owner'[a] = p
        /\ \A b \in Asset : b # a => status'[b] = status[b] /\ owner'[b] = owner[b]
    BY <1>1, <1>2 DEF MarketTypeOK, AssetTypeOK
  <1>4. RowsHaveOwners'
    BY <1>1, <1>3 DEF MarketInv, RowsHaveOwners
  <1>5. OpenListingReserves' /\ OneOpenListing' /\ NoOrphanedReservation'
    BY <1>1, <1>2, <1>3, ClosingKeepsReservations
  <1>6. SerialsAreIssued'
    BY <1>2, <1>3 DEF MarketInv, BuyListing, Deliver, SerialsAreIssued
  <1>7. EventLogExplainsState'
    BY <1>1, <1>2, <1>3 DEF Event, MarketInv, MarketTypeOK, AssetTypeOK, EventLogExplainsState
  <1>8. QED
    BY <1>4, <1>5, <1>6, <1>7 DEF MarketInv

LEMMA MarketStepInv ==
    ASSUME MarketInv, [MarketNext]_vars
    PROVE  MarketInv'
  <1>1. MarketTypeOK'
    BY MarketStepType DEF MarketInv
  <1>2. CASE UNCHANGED vars
    BY <1>1, <1>2, InvFrame DEF vars, assetVars
  <1>3. CASE MarketNext
    <2>1. CASE CatalogStep
      <3>1. ASSUME NEW c \in Collection, CreateCollection(c)
            PROVE  MarketInv'
        BY <1>1, <3>1, InvFrame DEF CreateCollection
      <3>2. QED
        BY <1>1, <2>1, <3>1, RegisterTokenInv DEF CatalogStep
    <2>2. CASE InstanceStep
      BY <1>1, <2>2, ClaimTokenInv, TransferAssetInv, SetAssetStatusInv DEF InstanceStep
    <2>3. CASE TradeStep
      BY <1>1, <2>3, SwapInstanceListsInv DEF TradeStep
    <2>4. CASE ListingStep
      BY <1>1, <2>4, CreateListingInv, CancelListingInv, BuyListingInv DEF ListingStep
    <2>5. CASE MoneyStep
      BY <1>1, <2>5, InvFrame DEF MoneyStep, assetVars
    <2>6. QED
      BY <1>3, <2>1, <2>2, <2>3, <2>4, <2>5 DEF MarketNext
  <1>4. QED
    BY <1>2, <1>3

\* The market's listings, instance rows, counters and event log agree in every
\* reachable state, whatever claims, gifts, swaps, sales and cancels happen.
THEOREM MarketInvariant == MarketSpec => []MarketInv
  <1>1. MarketInit => MarketInv
    BY MarketInitInv
  <1>2. MarketInv /\ [MarketNext]_vars => MarketInv'
    BY MarketStepInv
  <1>3. QED
    BY <1>1, <1>2, PTL DEF MarketSpec

\* An open listing always has its instance in reserve, an instance is never
\* on sale twice, and no instance stays reserved without a listing that can
\* release it.
THEOREM ReservationsHold ==
    MarketSpec => [](OpenListingReserves /\ OneOpenListing /\ NoOrphanedReservation)
  <1>1. MarketInv => OpenListingReserves /\ OneOpenListing /\ NoOrphanedReservation
    BY DEF MarketInv
  <1>2. QED
    BY <1>1, MarketInvariant, PTL

\* However a listing ends, or however often one is tried, no instance stays
\* reserved without an open listing that can release it.
THEOREM NothingStaysReserved == MarketSpec => []NoOrphanedReservation
  <1>1. QED
    BY ReservationsHold, PTL

\* Serials in circulation were issued by the counter and fit the supply.
THEOREM SerialsHold == MarketSpec => []SerialsAreIssued
  <1>1. MarketInv => SerialsAreIssued
    BY DEF MarketInv
  <1>2. QED
    BY <1>1, MarketInvariant, PTL

\* Instances of one token differ by their serials, so serials within the supply
\* are instances within it.
LEMMA SerialsCountInstances ==
    ASSUME AssetTypeOK,
           \A a \in Asset : status[a] # "none" => SerialOf(a) <= maxSupply[TokenOf(a)]
    PROVE  InstancesWithinSupply
  <1> SUFFICES ASSUME NEW t \in Token
               PROVE  Cardinality({a \in Asset : TokenOf(a) = t /\ status[a] # "none"}) <= maxSupply[t]
    BY DEF InstancesWithinSupply
  <1> DEFINE I == {a \in Asset : TokenOf(a) = t /\ status[a] # "none"}
             serials == [a \in I |-> SerialOf(a)]
  <1>1. maxSupply[t] \in Nat
    BY MarketAssumption DEF AssetTypeOK
  <1>2. \A a \in I : SerialOf(a) \in 1..maxSupply[t]
    BY <1>1, AssetComponents, MarketAssumption DEF Serial
  <1>3. \A a, b \in I : SerialOf(a) = SerialOf(b) => a = b
    BY AssetComponents
  <1>4. serials \in Injection(I, 1..maxSupply[t])
    BY <1>2, <1>3 DEF Injection, IsInjective
  <1>5. IsFiniteSet(1..maxSupply[t]) /\ Cardinality(1..maxSupply[t]) = maxSupply[t]
    BY <1>1, FS_Interval
  <1>6. Cardinality(I) <= Cardinality(1..maxSupply[t])
    BY <1>4, <1>5, FS_Injection
  <1>7. QED
    BY <1>5, <1>6

\* However claims, gifts, swaps and sales interleave, a token never has more
\* instances than it was registered with.
THEOREM SupplyHolds == MarketSpec => []InstancesWithinSupply
  <1>1. MarketInv => InstancesWithinSupply
    BY SerialsCountInstances DEF MarketInv, MarketTypeOK, SerialsAreIssued
  <1>2. QED
    BY <1>1, MarketInvariant, PTL

\* The newest event of an instance always tells its holder and its status.
THEOREM ProvenanceHolds == MarketSpec => []EventLogExplainsState
  <1>1. MarketInv => EventLogExplainsState
    BY DEF MarketInv
  <1>2. QED
    BY <1>1, MarketInvariant, PTL

-----------------------------------------------------------------------------
(* What a step may never do *)

\* Minting takes no instance from anyone.
THEOREM MintingIsSafe == MarketSpec => MintTakesNothing
  <1> DEFINE A == \A a \in Asset : minted' # minted /\ status[a] # "none" =>
                      owner'[a] = owner[a] /\ status'[a] = status[a]
  <1>1. ASSUME MarketInv, MarketNext, minted' # minted
        PROVE  A
    <2>1. ASSUME NEW t \in Token, NEW by \in Account, ClaimToken(t, by)
          PROVE  A
      BY <1>1, <2>1, NextSerialIsFree DEF ClaimToken, IssueSerial, MarketInv, MarketTypeOK,
                                          AssetTypeOK
    <2>2. ASSUME NEW c \in Collection, NEW t \in Token, NEW max \in Serial,
                 NEW start \in 0..SupplyCap, RegisterToken(c, t, max, start)
          PROVE  A
      BY <2>2 DEF RegisterToken
    <2>3. QED
      BY <1>1, <2>1, <2>2
      DEF MarketNext, CatalogStep, InstanceStep, TradeStep, ListingStep, MoneyStep,
          CreateCollection,
          TransferAsset, GiveTo, SetAssetStatus, StoreStatus, StatusEvent, SwapInstanceLists,
          ExchangeOwners, CreateListing, PutUpForSale, CancelListing, Unlist, Release, BuyListing,
          Deliver,
          assetVars
  <1>2. MarketInv /\ [MarketNext]_vars => [A]_vars
    BY <1>1 DEF vars, assetVars
  <1>3. QED
    BY <1>2, MarketInvariant, PTL DEF MarketSpec, MintTakesNothing

\* A purchase is a sale: it pays the full price against the instance.
LEMMA BuyIsSale ==
    ASSUME MarketTypeOK, NEW l \in ListingId, NEW p \in Account, BuyListing(l, p)
    PROVE  /\ Sale(l)
           /\ owner'[listing[l].asset] = p
           /\ listing' = [listing EXCEPT ![l].status = "sold"]
  <1> DEFINE a == listing[l].asset
  <1>1. IsOpen(l) /\ a \in Asset /\ listing[l] \in ListingRow
    BY OpenListingType DEF MarketTypeOK, BuyListing, Deliver, IsOpen
  <1>2. owner'[a] = p
    BY <1>1 DEF BuyListing, Deliver, MarketTypeOK, AssetTypeOK
  <1>3. listing'[l].status = "sold"
    BY <1>1 DEF BuyListing, Deliver, Close, MarketTypeOK, AssetTypeOK, ListingRow
  <1>4. QED
    BY <1>1, <1>2, <1>3 DEF BuyListing, Deliver, Close, Sale

\* An instance changes hands only while active and without money, or by the
\* paid sale of its own listing.
THEOREM OwnershipIsGuarded == MarketSpec => OwnershipMovesByConsentOrSale
  <1> DEFINE A == \A a \in Asset : owner[a] # NoAccount /\ owner'[a] # owner[a] =>
          \/ status[a] = "active" /\ status'[a] = "active" /\ UNCHANGED balance
          \/ \E l \in ListingId : listing[l] # NoListing /\ listing[l].asset = a /\ Sale(l)
  <1>1. ASSUME MarketInv, NEW t \in Token, NEW by \in Account, ClaimToken(t, by)
        PROVE  A
    BY <1>1, NextSerialIsFree
    DEF ClaimToken, IssueSerial, MarketInv, MarketTypeOK, AssetTypeOK, RowsHaveOwners
  <1>2. ASSUME MarketInv, NEW a \in Asset, NEW p \in Account, NEW q \in Account,
               TransferAsset(a, p, q)
        PROVE  A
    BY <1>2 DEF TransferAsset, GiveTo, MarketInv, MarketTypeOK, AssetTypeOK, ledgerVars
  <1>3. ASSUME NEW offered \in SUBSET Asset, NEW requested \in SUBSET Asset,
               NEW p \in Account, NEW q \in Account, SwapInstanceLists(offered, p, requested, q)
        PROVE  A
    BY <1>3 DEF SwapInstanceLists, ExchangeOwners, ledgerVars
  <1>4. ASSUME MarketInv, NEW l \in ListingId, NEW p \in Account, BuyListing(l, p)
        PROVE  A
    <2>1. Sale(l) /\ listing[l] # NoListing
      BY <1>4, BuyIsSale DEF BuyListing, Deliver, IsOpen, MarketInv
    <2>2. \A a \in Asset : a # listing[l].asset => owner'[a] = owner[a]
      BY <1>4 DEF BuyListing, Deliver, MarketInv, MarketTypeOK, AssetTypeOK
    <2>3. QED
      BY <2>1, <2>2
  <1>5. ASSUME UNCHANGED owner
        PROVE  A
    BY <1>5
  <1>6. ASSUME MarketInv, MarketNext
        PROVE  A
    <2>1. CASE CatalogStep \/ MoneyStep
      BY <2>1, <1>5 DEF CatalogStep, CreateCollection, RegisterToken, MoneyStep, assetVars
    <2>2. CASE InstanceStep
      BY <2>2, <1>1, <1>2, <1>5, <1>6 DEF InstanceStep, SetAssetStatus, StoreStatus, StatusEvent
    <2>3. CASE TradeStep
      BY <2>3, <1>3 DEF TradeStep
    <2>4. CASE ListingStep
      BY <2>4, <1>4, <1>5, <1>6 DEF ListingStep, CreateListing, PutUpForSale, CancelListing,
                                    Unlist, Release
    <2>5. QED
      BY <1>6, <2>1, <2>2, <2>3, <2>4 DEF MarketNext
  <1>7. MarketInv /\ [MarketNext]_vars => [A]_vars
    BY <1>6
  <1>8. QED
    BY <1>7, MarketInvariant, PTL DEF MarketSpec, OwnershipMovesByConsentOrSale

\* A listing ends once: sold in a complete sale, or cancelled with the
\* instance back in its seller's hands.
THEOREM ListingsCloseOnce == MarketSpec => ListingClosesOnce
  <1> DEFINE B(l) ==
          /\ IsOpen(l)
          /\ listing'[l] \in {[listing[l] EXCEPT !.status = s] : s \in {"sold", "cancelled"}}
          /\ listing'[l].status = "sold" => Sale(l)
          /\ listing'[l].status = "cancelled" =>
                /\ status'[listing[l].asset] = "active"
                /\ owner'[listing[l].asset] = listing[l].seller
                /\ UNCHANGED balance
  <1> DEFINE A == \A l \in ListingId : listing[l] # NoListing /\ listing'[l] # listing[l] => B(l)
  <1>1. ASSUME MarketInv, NEW l \in ListingId, NEW p \in Account, CancelListing(l, p)
        PROVE  A
    <2>1. IsOpen(l) /\ listing[l] # NoListing /\ listing[l].asset \in Asset /\ listing[l] \in ListingRow
      BY <1>1, OpenListingType DEF MarketInv, MarketTypeOK, CancelListing, Unlist, Release, IsOpen
    <2>2. status[listing[l].asset] = "listed" /\ owner[listing[l].asset] = listing[l].seller
      BY <2>1, <1>1 DEF MarketInv, OpenListingReserves
    <2>3. listing'[l] = [listing[l] EXCEPT !.status = "cancelled"]
      BY <1>1, <2>1 DEF CancelListing, Unlist, Release, Close, MarketInv, MarketTypeOK, AssetTypeOK
    <2>4. status'[listing[l].asset] = "active" /\ owner' = owner /\ UNCHANGED balance
      BY <1>1, <2>1, <2>2 DEF CancelListing, Unlist, Release, MarketInv, MarketTypeOK, AssetTypeOK,
                              ledgerVars
    <2>5. listing'[l].status = "cancelled"
      BY <2>1, <2>3 DEF ListingRow
    <2>6. B(l)
      BY <2>1, <2>2, <2>3, <2>4, <2>5
    <2>7. \A m \in ListingId : m # l => listing'[m] = listing[m]
      BY <1>1 DEF CancelListing, Unlist, Release, Close, MarketInv, MarketTypeOK, AssetTypeOK
    <2>8. QED
      BY <2>6, <2>7
  <1>2. ASSUME MarketInv, NEW l \in ListingId, NEW p \in Account, BuyListing(l, p)
        PROVE  A
    <2>1. Sale(l) /\ IsOpen(l) /\ listing[l] \in ListingRow
      BY <1>2, BuyIsSale, OpenListingType DEF MarketInv, MarketTypeOK, BuyListing, Deliver, IsOpen
    <2>2. listing'[l] = [listing[l] EXCEPT !.status = "sold"]
      BY <1>2, BuyIsSale DEF MarketInv, MarketTypeOK, AssetTypeOK
    <2>3. listing'[l].status = "sold"
      BY <2>1 DEF Sale
    <2>4. B(l)
      BY <2>1, <2>2, <2>3
    <2>5. \A m \in ListingId : m # l => listing'[m] = listing[m]
      BY <1>2, BuyIsSale DEF MarketInv, MarketTypeOK, AssetTypeOK
    <2>6. QED
      BY <2>4, <2>5
  <1>3. ASSUME MarketInv, NEW l \in ListingId, NEW a \in Asset, NEW p \in Account, NEW price \in Price,
               CreateListing(l, a, p, price)
        PROVE  A
    BY <1>3 DEF CreateListing, PutUpForSale, MarketInv, MarketTypeOK, AssetTypeOK
  <1>4. ASSUME UNCHANGED listing
        PROVE  A
    BY <1>4
  <1>5. ASSUME MarketInv, MarketNext
        PROVE  A
    <2>1. CASE CatalogStep \/ MoneyStep \/ InstanceStep \/ TradeStep
      BY <2>1, <1>4 DEF CatalogStep, CreateCollection, RegisterToken, MoneyStep, assetVars,
                        InstanceStep, ClaimToken, IssueSerial, TransferAsset, GiveTo,
                        SetAssetStatus, StoreStatus, StatusEvent,
                        TradeStep, SwapInstanceLists, ExchangeOwners
    <2>2. CASE ListingStep
      BY <2>2, <1>1, <1>2, <1>3, <1>5 DEF ListingStep
    <2>3. QED
      BY <1>5, <2>1, <2>2 DEF MarketNext
  <1>6. MarketInv /\ [MarketNext]_vars => [A]_vars
    BY <1>5
  <1>7. QED
    BY <1>6, MarketInvariant, PTL DEF MarketSpec, ListingClosesOnce

-----------------------------------------------------------------------------
(* Money *)

\* Assets and their sales leave the bridge's keys alone.
LEMMA MarketStepOfLedger ==
    ASSUME [MarketNext]_vars
    PROVE  [LedgerNext]_ledgerVars \/ UNCHANGED <<bridgeOps, applied>>
  <1>1. CASE UNCHANGED vars
    BY <1>1 DEF vars
  <1>2. CASE MoneyStep
    BY <1>2 DEF MoneyStep
  <1>3. CASE CatalogStep \/ InstanceStep \/ TradeStep \/ ListingStep
    BY <1>3 DEF CatalogStep, CreateCollection, RegisterToken, ledgerVars, InstanceStep,
                ClaimToken, IssueSerial, TransferAsset, GiveTo, SetAssetStatus, StoreStatus,
                StatusEvent, TradeStep, SwapInstanceLists, ExchangeOwners, ListingStep,
                CreateListing, PutUpForSale, CancelListing, Unlist, Release, BuyListing, Deliver
  <1>4. QED
    BY <1>1, <1>2, <1>3 DEF MarketNext

\* Among all of the market's operations, too, a bridge key moves money at most
\* once.
THEOREM BridgeOnceInMarket == MarketSpec => []BridgeAppliesOnce
  <1>1. MarketInit => BridgeAppliesOnce
    BY DEF MarketInit, LedgerInit, BridgeAppliesOnce
  <1>2. LedgerTypeOK /\ BridgeAppliesOnce /\ [MarketNext]_vars => BridgeAppliesOnce'
    BY MarketStepOfLedger, LedgerStepOnce DEF BridgeAppliesOnce
  <1>3. MarketTypeOK => LedgerTypeOK
    BY DEF MarketTypeOK
  <1>4. QED
    BY <1>1, <1>2, <1>3, MarketTypes, PTL DEF MarketSpec

\* Whoever loses SPIRAL in a step of the market pays a bridge debit or a price.
LEMMA FallsAreExplained ==
    ASSUME MarketTypeOK, MarketNext
    PROVE  \A p \in Account : balance'[p] < balance[p] =>
               \/ PaysByFreshKey(p)
               \/ \E l \in ListingId :
                     listing[l] # NoListing /\ Sale(l) /\ owner'[listing[l].asset] = p
  <1> DEFINE A == \A p \in Account : balance'[p] < balance[p] =>
          \/ PaysByFreshKey(p)
          \/ \E l \in ListingId :
                listing[l] # NoListing /\ Sale(l) /\ owner'[listing[l].asset] = p
  <1>1. ASSUME MarketTypeOK, NEW l \in ListingId, NEW p \in Account, BuyListing(l, p)
        PROVE  A
    <2>1. listing[l] # NoListing /\ Sale(l) /\ owner'[listing[l].asset] = p
      BY <1>1, BuyIsSale DEF BuyListing, Deliver, IsOpen
    <2> DEFINE seller == listing[l].seller
    <2>2. listing[l].price \in Nat /\ seller \in Account
      BY <1>1, OpenListingType, MarketAssumption DEF BuyListing, Deliver, IsOpen, MarketTypeOK
    <2>3. balance[seller] \in 0..MaxBalance /\ MaxBalance \in Nat
      BY <1>1, <2>2, LedgerAssumption DEF MarketTypeOK, LedgerTypeOK
    <2>4. ~(SaturatingAdd(balance[seller], listing[l].price) < balance[seller])
      BY <2>2, <2>3 DEF SaturatingAdd
    <2>5. balance'[seller] = SaturatingAdd(balance[seller], listing[l].price)
      BY <1>1, <2>2 DEF BuyListing, MarketTypeOK, LedgerTypeOK
    <2>6. \A q \in Account : q # p /\ q # seller => balance'[q] = balance[q]
      BY <1>1 DEF BuyListing, MarketTypeOK, LedgerTypeOK
    <2>7. \A q \in Account : balance[q] \in Nat
      BY <1>1, LedgerAssumption DEF MarketTypeOK, LedgerTypeOK
    <2>8. QED
      BY <2>1, <2>4, <2>5, <2>6, <2>7
  <1>2. ASSUME MarketTypeOK, UNCHANGED balance
        PROVE  A
    <2>1. \A q \in Account : balance[q] \in Nat
      BY <1>2, LedgerAssumption DEF MarketTypeOK, LedgerTypeOK
    <2>2. QED
      BY <1>2, <2>1
  <1>3. ASSUME MarketTypeOK, MarketNext
        PROVE  A
    <2>1. CASE MoneyStep
      BY <2>1, <1>3, DebitsAreStamped DEF MoneyStep, MarketTypeOK
    <2>2. CASE CatalogStep \/ InstanceStep \/ TradeStep
      <3>1. UNCHANGED balance
        BY <2>2 DEF CatalogStep, CreateCollection, RegisterToken, ledgerVars, InstanceStep,
                    ClaimToken, IssueSerial, TransferAsset, GiveTo, SetAssetStatus, StoreStatus,
                    StatusEvent, TradeStep, SwapInstanceLists, ExchangeOwners
      <3>2. QED
        BY <1>2, <1>3, <3>1
    <2>3. ASSUME NEW l \in ListingId, NEW p \in Account, BuyListing(l, p)
          PROVE  A
      BY <1>1, <1>3, <2>3
    <2>4. CASE ListingStep
      BY <1>2, <1>3, <2>3, <2>4 DEF ListingStep, CreateListing, PutUpForSale, CancelListing,
                                    Unlist, Release, ledgerVars
    <2>5. QED
      BY <1>3, <2>1, <2>2, <2>4 DEF MarketNext
  <1>4. QED
    BY <1>3

\* A balance falls only by a bridge debit under a fresh key or by a purchase.
THEOREM MoneyIsGuarded == MarketSpec => BalanceFallsByDebitOrSale
  <1>1. MarketInv => MarketTypeOK
    BY DEF MarketInv
  <1>2. QED
    BY <1>1, FallsAreExplained, MarketInvariant, PTL DEF MarketSpec, BalanceFallsByDebitOrSale

-----------------------------------------------------------------------------
(***************************************************************************)
(* Part three: AssetMarket implements AssetEscrow: listings, serials,      *)
(* bridge keys and events only realise one holder and at most one asking   *)
(* price per instance.                                                     *)
(***************************************************************************)

\* What the mapped state says: exactly the Listed instances are on offer, each
\* at the price of its open listing.
AsksMatchListings ==
    /\ \A a \in Asset : status[a] # "listed" => AskedPrice(a) = 0
    /\ \A a \in Asset, l \in ListingId : IsOpen(l) /\ listing[l].asset = a =>
          /\ status[a] = "listed"
          /\ AskedPrice(a) = listing[l].price
          /\ AskedPrice(a) \in Price
    /\ \A a \in Asset : status[a] = "listed" =>
          \E l \in ListingId : IsOpen(l) /\ listing[l].asset = a

\* The invariant makes the CHOOSE in the mapping unambiguous.
LEMMA AskIsListingPrice == MarketInv => AsksMatchListings
  <1> SUFFICES ASSUME MarketInv PROVE AsksMatchListings
    OBVIOUS
  <1>1. \A a \in Asset : status[a] # "listed" => AskedPrice(a) = 0
    BY DEF AskedPrice
  <1>2. ASSUME NEW a \in Asset, NEW l \in ListingId, IsOpen(l), listing[l].asset = a
        PROVE  /\ status[a] = "listed"
               /\ AskedPrice(a) = listing[l].price
               /\ AskedPrice(a) \in Price
    <2>1. listing[l].price \in Price
      BY <1>2, OpenListingType DEF MarketInv, MarketTypeOK, IsOpen
    <2>2. status[a] = "listed"
      BY <1>2 DEF MarketInv, OpenListingReserves
    <2>3. OpenListingOf(a) \in ListingId /\ IsOpen(OpenListingOf(a)) /\ listing[OpenListingOf(a)].asset = a
      BY <1>2 DEF OpenListingOf
    <2>4. OpenListingOf(a) = l
      BY <1>2, <2>3 DEF MarketInv, OneOpenListing
    <2>5. QED
      BY <2>1, <2>2, <2>4 DEF AskedPrice
  <1>3. \A a \in Asset : status[a] = "listed" =>
            \E l \in ListingId : IsOpen(l) /\ listing[l].asset = a
    BY DEF MarketInv, NoOrphanedReservation
  <1>4. QED
    BY <1>1, <1>2, <1>3 DEF AsksMatchListings

LEMMA AskIsListingPriceNext == MarketInv' => AsksMatchListings'
  BY AskIsListingPrice, PTL

\* An instance keeps its asking price while its own listing and its
\* reservation stay as they are.
LEMMA AskKept ==
    ASSUME AsksMatchListings, AsksMatchListings', NEW a \in Asset,
           status'[a] = "listed" <=> status[a] = "listed",
           \A l \in ListingId : IsOpen(l) /\ listing[l].asset = a => listing'[l] = listing[l]
    PROVE  AskedPrice(a)' = AskedPrice(a)
  <1>1. CASE status[a] # "listed"
    BY <1>1 DEF AsksMatchListings
  <1>2. CASE status[a] = "listed"
    <2>1. PICK l \in ListingId : IsOpen(l) /\ listing[l].asset = a
      BY <1>2 DEF AsksMatchListings
    <2>2. listing'[l] = listing[l]
      BY <2>1
    <2>3. IsOpen(l)' /\ listing'[l].asset = a
      BY <2>1, <2>2 DEF IsOpen
    <2>4. AskedPrice(a) = listing[l].price
      BY <2>1 DEF AsksMatchListings
    <2>5. AskedPrice(a)' = listing'[l].price
      BY <2>3 DEF AsksMatchListings
    <2>6. QED
      BY <2>2, <2>4, <2>5
  <1>3. QED
    BY <1>1, <1>2

\* A step that moves no listing and reserves or releases nothing asks what was asked.
LEMMA AsksKept ==
    ASSUME AsksMatchListings, AsksMatchListings', UNCHANGED listing,
           \A a \in Asset : status'[a] = "listed" <=> status[a] = "listed"
    PROVE  [a \in Asset |-> AskedPrice(a)]' = [a \in Asset |-> AskedPrice(a)]
  <1>1. \A a \in Asset : AskedPrice(a)' = AskedPrice(a)
    BY AskKept
  <1>2. QED
    BY <1>1

\* An instance the holder may dispose of is what the code calls Active.
LEMMA ActiveIsFree ==
    ASSUME MarketInv, AsksMatchListings, NEW a \in Asset, status[a] = "active"
    PROVE  Escrow!Free(a)
  <1>1. owner[a] # NoAccount
    BY DEF MarketInv, RowsHaveOwners
  <1>2. AskedPrice(a) = 0
    BY DEF AsksMatchListings
  <1>3. QED
    BY <1>1, <1>2 DEF Escrow!Free

-----------------------------------------------------------------------------
(* One lemma per action of AssetMarket: the step of AssetEscrow it is. *)

LEMMA ClaimIsIssue ==
    ASSUME MarketInv, AsksMatchListings, AsksMatchListings',
           NEW t \in Token, NEW by \in Account, ClaimToken(t, by)
    PROVE  Escrow!Issue(<<t, minted[t] + 1>>, by) /\ <<t, minted[t] + 1>> \in Asset
  <1> DEFINE new == <<t, minted[t] + 1>>
  <1>1. new \in Asset /\ status[new] = "none" /\ owner[new] = NoAccount
    BY NextSerialIsFree DEF ClaimToken, IssueSerial, MarketInv, RowsHaveOwners
  <1>2. owner' = [owner EXCEPT ![new] = by] /\ UNCHANGED balance /\ UNCHANGED listing
    BY DEF ClaimToken, IssueSerial, ledgerVars
  <1>3. /\ status \in [Asset -> {"none", "active", "listed", "frozen"}]
        /\ status' = [status EXCEPT ![new] = "active"]
    BY DEF ClaimToken, IssueSerial, MarketInv, MarketTypeOK, AssetTypeOK
  <1>4. \A a \in Asset : /\ status'[a] = "listed" <=> status[a] = "listed"
                         /\ status'[a] = "frozen" <=> status[a] = "frozen"
    BY <1>1, <1>3
  <1>5. [a \in Asset |-> AskedPrice(a)]' = [a \in Asset |-> AskedPrice(a)]
    BY <1>2, <1>4, AsksKept
  <1>6. {a \in Asset : status'[a] = "frozen"} = {a \in Asset : status[a] = "frozen"}
    BY <1>4
  <1>7. QED
    BY <1>1, <1>2, <1>5, <1>6 DEF Escrow!Issue

LEMMA TransferIsGive ==
    ASSUME MarketInv, AsksMatchListings, AsksMatchListings',
           NEW a \in Asset, NEW p \in Account, NEW q \in Account, TransferAsset(a, p, q)
    PROVE  Escrow!Give(a, q)
  <1>1. Escrow!Free(a)
    BY ActiveIsFree DEF TransferAsset, GiveTo
  <1>2. owner' = [owner EXCEPT ![a] = q] /\ UNCHANGED <<balance, listing, status>>
    BY DEF TransferAsset, GiveTo, ledgerVars
  <1>3. [b \in Asset |-> AskedPrice(b)]' = [b \in Asset |-> AskedPrice(b)]
    BY <1>2, AsksKept
  <1>4. QED
    BY <1>1, <1>2, <1>3 DEF Escrow!Give

LEMMA SetStatusIsFreezeOrThaw ==
    ASSUME MarketInv, AsksMatchListings, AsksMatchListings',
           NEW a \in Asset, NEW new \in {"active", "frozen"}, SetAssetStatus(a, new)
    PROVE  Escrow!Freeze(a) \/ Escrow!Thaw(a) \/ UNCHANGED Escrow!escrowVars
  <1>1. /\ status \in [Asset -> {"none", "active", "listed", "frozen"}]
        /\ status' = [status EXCEPT ![a] = new]
        /\ status[a] \in {"active", "frozen"}
        /\ UNCHANGED <<owner, balance, listing>>
    BY DEF SetAssetStatus, StoreStatus, StatusEvent, ledgerVars, MarketInv, MarketTypeOK,
           AssetTypeOK
  <1>2. \A b \in Asset : status'[b] = "listed" <=> status[b] = "listed"
    BY <1>1
  <1>3. [b \in Asset |-> AskedPrice(b)]' = [b \in Asset |-> AskedPrice(b)]
    BY <1>1, <1>2, AsksKept
  <1>4. CASE status[a] = new
    <2>1. status' = status
      BY <1>1, <1>4
    <2>2. QED
      BY <1>1, <1>3, <2>1 DEF Escrow!escrowVars
  <1>5. CASE status[a] = "active" /\ new = "frozen"
    <2>1. {b \in Asset : status'[b] = "frozen"} = {b \in Asset : status[b] = "frozen"} \cup {a}
      BY <1>1, <1>5
    <2>2. Escrow!Free(a)
      BY <1>5, ActiveIsFree
    <2>3. QED
      BY <1>1, <1>3, <2>1, <2>2 DEF Escrow!Freeze
  <1>6. CASE status[a] = "frozen" /\ new = "active"
    <2>1. {b \in Asset : status'[b] = "frozen"} = {b \in Asset : status[b] = "frozen"} \ {a}
      BY <1>1, <1>6
    <2>2. a \in {b \in Asset : status[b] = "frozen"}
      BY <1>6
    <2>3. QED
      BY <1>1, <1>3, <2>1, <2>2 DEF Escrow!Thaw
  <1>7. QED
    BY <1>1, <1>4, <1>5, <1>6

LEMMA SwapIsExchange ==
    ASSUME MarketInv, AsksMatchListings, AsksMatchListings',
           NEW offered \in SUBSET Asset, NEW requested \in SUBSET Asset,
           NEW p \in Account, NEW q \in Account, SwapInstanceLists(offered, p, requested, q)
    PROVE  Escrow!Exchange(offered, p, requested, q)
  <1>1. /\ \A a \in offered : owner[a] = p /\ status[a] = "active"
        /\ \A a \in requested : owner[a] = q /\ status[a] = "active"
        /\ owner' = [a \in Asset |-> IF a \in offered THEN q
                                     ELSE IF a \in requested THEN p ELSE owner[a]]
        /\ UNCHANGED <<balance, listing, status>>
    BY DEF SwapInstanceLists, ExchangeOwners, ledgerVars
  <1>2. \A a \in offered : Escrow!Free(a)
    BY <1>1, ActiveIsFree
  <1>3. \A a \in requested : Escrow!Free(a)
    BY <1>1, ActiveIsFree
  <1>4. [b \in Asset |-> AskedPrice(b)]' = [b \in Asset |-> AskedPrice(b)]
    BY <1>1, AsksKept
  <1>5. QED
    BY <1>1, <1>2, <1>3, <1>4 DEF Escrow!Exchange

LEMMA CreateListingIsOffer ==
    ASSUME MarketInv, AsksMatchListings, AsksMatchListings',
           NEW l \in ListingId, NEW a \in Asset, NEW p \in Account, NEW price \in Price,
           CreateListing(l, a, p, price)
    PROVE  Escrow!Offer(a, price)
  <1>1. /\ status \in [Asset -> {"none", "active", "listed", "frozen"}]
        /\ listing \in [ListingId -> ListingRow \cup {NoListing}]
        /\ status' = [status EXCEPT ![a] = "listed"]
        /\ status[a] = "active"
        /\ listing' = [listing EXCEPT ![l] = [asset |-> a, seller |-> p,
                                              price |-> price, status |-> "open"]]
        /\ listing[l] = NoListing
        /\ UNCHANGED <<owner, balance>>
    BY DEF CreateListing, PutUpForSale, ledgerVars, MarketInv, MarketTypeOK, AssetTypeOK
  <1>2. Escrow!Free(a)
    BY <1>1, ActiveIsFree
  <1>3. AskedPrice(a)' = price
    <2>1. listing'[l] = [asset |-> a, seller |-> p, price |-> price, status |-> "open"]
      BY <1>1
    <2>2. listing'[l] # NoListing
      <3>1. listing'[l] \in ListingRow
        BY <2>1 DEF CreateListing, PutUpForSale, MarketInv, MarketTypeOK, AssetTypeOK, ListingRow,
                    ledgerVars,
           CreateListing
      <3>2. QED
        BY <3>1, MarketAssumption
    <2>3. IsOpen(l)' /\ listing'[l].asset = a
      BY <2>1, <2>2 DEF IsOpen
    <2>4. QED
      BY <2>1, <2>3 DEF AsksMatchListings
  <1>4. \A b \in Asset : b # a => AskedPrice(b)' = AskedPrice(b)
    <2>1. ASSUME NEW b \in Asset, b # a
          PROVE  AskedPrice(b)' = AskedPrice(b)
      <3>1. status'[b] = status[b]
        BY <1>1, <2>1
      <3>2. \A m \in ListingId : IsOpen(m) => m # l
        BY <1>1 DEF IsOpen
      <3>3. \A m \in ListingId : IsOpen(m) => listing'[m] = listing[m]
        BY <1>1, <3>2
      <3>4. QED
        BY <3>1, <3>3, AskKept
    <2>2. QED
      BY <2>1
  <1>5. [b \in Asset |-> AskedPrice(b)]' = [[b \in Asset |-> AskedPrice(b)] EXCEPT ![a] = price]
    BY <1>3, <1>4
  <1>6. {b \in Asset : status'[b] = "frozen"} = {b \in Asset : status[b] = "frozen"}
    BY <1>1
  <1>7. QED
    BY <1>1, <1>2, <1>5, <1>6 DEF Escrow!Offer

\* Cancelling and selling close the one listing of the instance: nothing is
\* asked for it any more, every other instance keeps its price.
LEMMA ClosingWithdrawsAsk ==
    ASSUME MarketInv, AsksMatchListings, AsksMatchListings',
           NEW l \in ListingId, NEW a \in Asset, IsOpen(l), listing[l].asset = a,
           NEW outcome \in {"sold", "cancelled"}, Close(l, outcome),
           status' = [status EXCEPT ![a] = "active"]
    PROVE  /\ [b \in Asset |-> AskedPrice(b)]'
                = [[b \in Asset |-> AskedPrice(b)] EXCEPT ![a] = 0]
           /\ {b \in Asset : status'[b] = "frozen"} = {b \in Asset : status[b] = "frozen"}
           /\ AskedPrice(a) = listing[l].price
           /\ AskedPrice(a) # 0
  <1>1. /\ status \in [Asset -> {"none", "active", "listed", "frozen"}]
        /\ listing \in [ListingId -> ListingRow \cup {NoListing}]
        /\ listing' = [listing EXCEPT ![l].status = outcome]
    BY DEF MarketInv, MarketTypeOK, AssetTypeOK, Close, IsOpen
  <1>2. status[a] = "listed" /\ AskedPrice(a) = listing[l].price /\ AskedPrice(a) \in Price
    BY <1>1 DEF AsksMatchListings
  <1>3. AskedPrice(a) # 0
    BY <1>2, MarketAssumption
  <1>4. AskedPrice(a)' = 0
    BY <1>1 DEF AsksMatchListings
  <1>5. ASSUME NEW b \in Asset, b # a
        PROVE  AskedPrice(b)' = AskedPrice(b)
    <2>1. status'[b] = status[b]
      BY <1>1, <1>5
    <2>2. \A m \in ListingId : listing[m].asset = b => listing'[m] = listing[m]
      BY <1>1, <1>5
    <2>3. QED
      BY <2>1, <2>2, AskKept
  <1>6. [b \in Asset |-> AskedPrice(b)]' = [[b \in Asset |-> AskedPrice(b)] EXCEPT ![a] = 0]
    BY <1>4, <1>5
  <1>7. {b \in Asset : status'[b] = "frozen"} = {b \in Asset : status[b] = "frozen"}
    BY <1>1, <1>2
  <1>8. QED
    BY <1>2, <1>3, <1>6, <1>7

LEMMA CancelIsRetract ==
    ASSUME MarketInv, AsksMatchListings, AsksMatchListings',
           NEW l \in ListingId, NEW p \in Account, CancelListing(l, p)
    PROVE  listing[l].asset \in Asset /\ Escrow!Retract(listing[l].asset)
  <1>1. PICK a \in Asset : listing[l].asset = a
    BY OpenListingType DEF CancelListing, Unlist, Release, IsOpen, MarketInv, MarketTypeOK
  <1>2. IsOpen(l) /\ Close(l, "cancelled") /\ UNCHANGED <<owner, balance>>
    BY DEF CancelListing, Unlist, Release, ledgerVars
  <1>3. status[a] = "listed"
    BY <1>1, <1>2 DEF AsksMatchListings
  <1>4. status' = [status EXCEPT ![a] = "active"]
    BY <1>1, <1>3 DEF CancelListing, Unlist, Release
  <1>5. /\ [b \in Asset |-> AskedPrice(b)]' = [[b \in Asset |-> AskedPrice(b)] EXCEPT ![a] = 0]
        /\ {b \in Asset : status'[b] = "frozen"} = {b \in Asset : status[b] = "frozen"}
        /\ AskedPrice(a) # 0
    BY <1>1, <1>2, <1>4, ClosingWithdrawsAsk
  <1>6. Escrow!Retract(a)
    BY <1>2, <1>5 DEF Escrow!Retract
  <1>7. QED
    BY <1>1, <1>6

LEMMA BuyIsSell ==
    ASSUME MarketInv, AsksMatchListings, AsksMatchListings',
           NEW l \in ListingId, NEW p \in Account, BuyListing(l, p)
    PROVE  listing[l].asset \in Asset /\ Escrow!Sell(listing[l].asset, p)
  <1>1. PICK a \in Asset : listing[l].asset = a
    BY OpenListingType DEF BuyListing, Deliver, IsOpen, MarketInv, MarketTypeOK
  <1>2. /\ IsOpen(l) /\ Close(l, "sold")
        /\ status' = [status EXCEPT ![a] = "active"]
        /\ owner' = [owner EXCEPT ![a] = p]
        /\ owner[a] = listing[l].seller
        /\ p # owner[a]
        /\ balance[p] >= listing[l].price
        /\ balance' = [balance EXCEPT ![p] = @ - listing[l].price,
                                      ![owner[a]] = SaturatingAdd(@, listing[l].price)]
    BY <1>1 DEF BuyListing, Deliver
  <1>3. /\ [b \in Asset |-> AskedPrice(b)]' = [[b \in Asset |-> AskedPrice(b)] EXCEPT ![a] = 0]
        /\ {b \in Asset : status'[b] = "frozen"} = {b \in Asset : status[b] = "frozen"}
        /\ AskedPrice(a) = listing[l].price
        /\ AskedPrice(a) # 0
    BY <1>1, <1>2, ClosingWithdrawsAsk
  <1>4. balance' = [balance EXCEPT ![p] = @ - AskedPrice(a),
                                   ![owner[a]] = Escrow!Earned(owner[a], AskedPrice(a))]
    <2>1. owner[a] \in Account /\ balance \in [Account -> 0..MaxBalance]
      BY <1>1, <1>2, OpenListingType
      DEF MarketInv, MarketTypeOK, LedgerTypeOK, IsOpen
    <2>2. Escrow!Earned(owner[a], AskedPrice(a)) = SaturatingAdd(balance[owner[a]], AskedPrice(a))
      BY DEF Escrow!Earned, SaturatingAdd
    <2>3. QED
      BY <1>2, <1>3, <2>1, <2>2
  <1>5. balance[p] >= AskedPrice(a)
    BY <1>2, <1>3
  <1>6. Escrow!Sell(a, p)
    BY <1>2, <1>3, <1>4, <1>5 DEF Escrow!Sell
  <1>7. QED
    BY <1>1, <1>6

LEMMA MoneyStepIsTransfer ==
    ASSUME MarketInv, AsksMatchListings, AsksMatchListings', MoneyStep
    PROVE  \/ \E p \in Account, n \in Amount : Escrow!Deposit(p, n) \/ Escrow!Withdraw(p, n)
           \/ UNCHANGED Escrow!escrowVars
  <1>1. UNCHANGED <<owner, status, listing>>
    BY DEF MoneyStep, assetVars
  <1>2. [b \in Asset |-> AskedPrice(b)]' = [b \in Asset |-> AskedPrice(b)]
    BY <1>1, AsksKept
  <1>3. PICK p \in Account, n \in Amount :
            FaucetSpiral(p, n) \/ \E k \in Key : BridgeSpiral(p, n, k)
    BY DEF MoneyStep, LedgerNext
  <1>4. balance \in [Account -> 0..MaxBalance]
    BY DEF MarketInv, MarketTypeOK, LedgerTypeOK
  <1>5. CASE balance' = [balance EXCEPT ![p] = SaturatingAdd(@, n)]
    BY <1>1, <1>2, <1>4, <1>5 DEF Escrow!Deposit, Escrow!Earned, SaturatingAdd
  <1>6. CASE balance[p] >= n /\ balance' = [balance EXCEPT ![p] = @ - n]
    BY <1>1, <1>2, <1>6 DEF Escrow!Withdraw
  <1>7. CASE UNCHANGED balance
    BY <1>1, <1>2, <1>7 DEF Escrow!escrowVars
  <1>8. ASSUME NEW k \in Key, BridgeSpiral(p, n, k)
        PROVE  \/ balance' = [balance EXCEPT ![p] = SaturatingAdd(@, n)]
               \/ balance[p] >= n /\ balance' = [balance EXCEPT ![p] = @ - n]
               \/ UNCHANGED balance
    BY <1>4, <1>8 DEF BridgeSpiral, BridgeReplay, BridgeCredit, BridgeDebit, StampBridgeOp,
                      ledgerVars
  <1>9. QED
    BY <1>3, <1>5, <1>6, <1>7, <1>8 DEF FaucetSpiral

-----------------------------------------------------------------------------
(* The simulation *)

\* Every step of the market is a step of the escrow or a stutter.
LEMMA MarketStepSimulates ==
    ASSUME MarketInv, MarketInv', [MarketNext]_vars
    PROVE  [Escrow!EscrowNext]_(Escrow!escrowVars)
  <1>1. AsksMatchListings /\ AsksMatchListings'
    BY AskIsListingPrice, AskIsListingPriceNext
  <1>2. CASE UNCHANGED <<owner, status, listing, balance>>
    <2>1. [b \in Asset |-> AskedPrice(b)]' = [b \in Asset |-> AskedPrice(b)]
      BY <1>1, <1>2, AsksKept
    <2>2. QED
      BY <1>2, <2>1 DEF Escrow!escrowVars
  <1>3. CASE CatalogStep
    BY <1>2, <1>3 DEF CatalogStep, CreateCollection, RegisterToken, ledgerVars
  <1>4. CASE InstanceStep
    <2>1. ASSUME NEW t \in Token, NEW by \in Account, ClaimToken(t, by)
          PROVE  Escrow!EscrowNext
      BY <1>1, <2>1, ClaimIsIssue DEF Escrow!EscrowNext
    <2>2. ASSUME NEW a \in Asset, NEW p \in Account, NEW q \in Account, TransferAsset(a, p, q)
          PROVE  Escrow!EscrowNext
      BY <1>1, <2>2, TransferIsGive DEF Escrow!EscrowNext
    <2>3. ASSUME NEW a \in Asset, NEW new \in {"active", "frozen"}, SetAssetStatus(a, new)
          PROVE  [Escrow!EscrowNext]_(Escrow!escrowVars)
      BY <1>1, <2>3, SetStatusIsFreezeOrThaw DEF Escrow!EscrowNext
    <2>4. QED
      BY <1>4, <2>1, <2>2, <2>3 DEF InstanceStep
  <1>5. CASE TradeStep
    <2>1. PICK offered \in SUBSET Asset, requested \in SUBSET Asset, p \in Account, q \in Account :
              SwapInstanceLists(offered, p, requested, q)
      BY <1>5 DEF TradeStep
    <2>2. Escrow!Exchange(offered, p, requested, q)
      BY <1>1, <2>1, SwapIsExchange
    <2>3. QED
      BY <2>2 DEF Escrow!EscrowNext
  <1>6. CASE ListingStep
    <2>1. ASSUME NEW l \in ListingId, NEW a \in Asset, NEW p \in Account, NEW price \in Price,
                 CreateListing(l, a, p, price)
          PROVE  Escrow!EscrowNext
      BY <1>1, <2>1, CreateListingIsOffer DEF Escrow!EscrowNext
    <2>2. ASSUME NEW l \in ListingId, NEW p \in Account, CancelListing(l, p)
          PROVE  Escrow!EscrowNext
      BY <1>1, <2>2, CancelIsRetract DEF Escrow!EscrowNext
    <2>3. ASSUME NEW l \in ListingId, NEW p \in Account, BuyListing(l, p)
          PROVE  Escrow!EscrowNext
      BY <1>1, <2>3, BuyIsSell DEF Escrow!EscrowNext
    <2>4. QED
      BY <1>6, <2>1, <2>2, <2>3 DEF ListingStep
  <1>7. CASE MoneyStep
    BY <1>1, <1>7, MoneyStepIsTransfer DEF Escrow!EscrowNext
  <1>8. CASE UNCHANGED vars
    BY <1>2, <1>8 DEF vars, assetVars, ledgerVars
  <1>9. QED
    BY <1>3, <1>4, <1>5, <1>6, <1>7, <1>8 DEF MarketNext

LEMMA MarketInitSimulates ==
    ASSUME MarketInit
    PROVE  Escrow!EscrowInit
  <1>1. \A a \in Asset : status[a] = "none" /\ AskedPrice(a) = 0
    BY DEF MarketInit, AskedPrice
  <1>2. QED
    BY <1>1 DEF MarketInit, LedgerInit, Escrow!EscrowInit

\* The marketplace keeps the escrow's promise for every number of accounts,
\* tokens, listings and bridge calls.
THEOREM MarketImplementsEscrow == MarketSpec => ImplementsEscrow
  <1>1. MarketInit => Escrow!EscrowInit
    BY MarketInitSimulates
  <1>2. MarketInv /\ MarketInv' /\ [MarketNext]_vars => [Escrow!EscrowNext]_(Escrow!escrowVars)
    BY MarketStepSimulates
  <1>3. QED
    BY <1>1, <1>2, MarketInvariant, PTL DEF MarketSpec, ImplementsEscrow, Escrow!EscrowSpec
=============================================================================
