---------------------------- MODULE AssetMarket ----------------------------
(***************************************************************************)
(* The asset registry and the marketplace of wou-storage: collections,     *)
(* token types with a capped supply, numbered instances with one owner,    *)
(* price listings that reserve an instance, the event log, and the SPIRAL  *)
(* balances that pay for a sale.  Each operation is one exclusive Redb     *)
(* write transaction and therefore one action; refused calls change        *)
(* nothing.  The one operation that spreads over two transactions, the     *)
(* metadata refresh upsert_token, is added by AssetCatalog.                *)
(***************************************************************************)
EXTENDS SpiralLedger, FiniteSets

CONSTANTS
    Collection,    \* collection ids
    Token,         \* token type ids
    SupplyCap,     \* largest max_supply a token is registered with
    ListingId,     \* fresh listing ids (a uuid per listing)
    Price,         \* prices a seller may ask
    NoAccount,     \* no instance row
    NoListing      \* no listing row

VARIABLES
    collections,   \* ASSET_COLLECTIONS_TABLE
    maxSupply,     \* max_supply of a token row; 0 when there is no row
    minted,        \* minted of a token row
    owner,         \* owner of an instance row
    status,        \* status of an instance row, "none" without one
    listing,       \* ASSET_LISTINGS_TABLE
    lastEvent      \* the newest ASSET_EVENTS_TABLE row of an asset

assetVars == <<collections, maxSupply, minted, owner, status, listing, lastEvent>>
vars == <<ledgerVars, assetVars>>

\* An instance id is `{token}#{serial}`.
Serial == 1..SupplyCap
Asset == Token \X Serial
TokenOf(a) == a[1]
SerialOf(a) == a[2]

EventKind == {"none", "mint", "transfer", "freeze", "restore", "trade", "list", "unlist"}

ListingRow == [asset : Asset, seller : Account, price : Price,
               status : {"open", "sold", "cancelled"}]

ASSUME MarketAssumption ==
    /\ SupplyCap \in Nat
    /\ Price \subseteq Nat \ {0}
    /\ NoAccount \notin Account
    /\ NoListing \notin ListingRow

\* An event names the account it leaves holding the asset: `to`, or `from`
\* for the events without a `to` (list, unlist).
Event(kind, holder) == [kind |-> kind, holder |-> holder]

-----------------------------------------------------------------------------
MarketInit ==
    /\ LedgerInit
    /\ collections = {}
    /\ maxSupply = [t \in Token |-> 0]
    /\ minted = [t \in Token |-> 0]
    /\ owner = [a \in Asset |-> NoAccount]
    /\ status = [a \in Asset |-> "none"]
    /\ listing = [l \in ListingId |-> NoListing]
    /\ lastEvent = [a \in Asset |-> Event("none", NoAccount)]

LogEvent(a, kind, holder) == lastEvent' = [lastEvent EXCEPT ![a] = Event(kind, holder)]

-----------------------------------------------------------------------------
(* Catalogue *)

CreateCollection(c) ==
    /\ c \notin collections
    /\ collections' = collections \cup {c}
    /\ UNCHANGED <<ledgerVars, maxSupply, minted, owner, status, listing, lastEvent>>

\* The row is stored as the request carries it, its `minted` included.
RegisterToken(c, t, max, start) ==
    /\ c \in collections
    /\ max > 0
    /\ maxSupply[t] = 0
    /\ maxSupply' = [maxSupply EXCEPT ![t] = max]
    /\ minted' = [minted EXCEPT ![t] = start]
    /\ UNCHANGED <<ledgerVars, collections, owner, status, listing, lastEvent>>

-----------------------------------------------------------------------------
(* Instances *)

\* What a claim writes, whether or not a row exists under the serial.
IssueSerial(t, serial, by) ==
    /\ owner' = [owner EXCEPT ![<<t, serial>>] = by]
    /\ status' = [status EXCEPT ![<<t, serial>>] = "active"]
    /\ LogEvent(<<t, serial>>, "mint", by)
    /\ UNCHANGED <<ledgerVars, collections, maxSupply, listing>>

\* Mutant of ClaimToken: the supply is off by one.
ClaimPastSupply(t, by) ==
    /\ minted[t] <= maxSupply[t]
    /\ minted' = [minted EXCEPT ![t] = @ + 1]
    /\ IssueSerial(t, minted[t] + 1, by)

ClaimToken(t, by) ==
    /\ minted[t] < maxSupply[t]
    /\ minted' = [minted EXCEPT ![t] = @ + 1]
    /\ IssueSerial(t, minted[t] + 1, by)

GiveTo(a, to) ==
    /\ owner' = [owner EXCEPT ![a] = to]
    /\ LogEvent(a, "transfer", to)
    /\ UNCHANGED <<ledgerVars, collections, maxSupply, minted, status, listing>>

\* Mutant of TransferAsset: the status is not checked.
TransferAnyStatus(a, expectedOwner, to) == owner[a] = expectedOwner /\ GiveTo(a, to)

TransferAsset(a, expectedOwner, to) ==
    /\ owner[a] = expectedOwner
    /\ status[a] = "active"
    /\ GiveTo(a, to)

StoreStatus(a, new) ==
    /\ status' = [status EXCEPT ![a] = new]
    /\ UNCHANGED <<ledgerVars, collections, maxSupply, minted, owner, listing>>

StatusEvent(a, new) == LogEvent(a, IF new = "frozen" THEN "freeze" ELSE "restore", owner[a])

\* Mutant of SetAssetStatus: the event is left out.
SetStatusUnlogged(a, new) ==
    /\ status[a] \in {"active", "frozen"}
    /\ StoreStatus(a, new)
    /\ UNCHANGED lastEvent

\* The producer's freeze (new = "frozen") and restore (new = "active").
SetAssetStatus(a, new) ==
    /\ status[a] \in {"active", "frozen"}
    /\ StoreStatus(a, new)
    /\ StatusEvent(a, new)

ExchangeOwners(offered, p, requested, q) ==
    /\ owner' = [a \in Asset |-> IF a \in offered THEN q
                                 ELSE IF a \in requested THEN p ELSE owner[a]]
    /\ lastEvent' = [a \in Asset |-> IF a \in offered THEN Event("trade", q)
                                     ELSE IF a \in requested THEN Event("trade", p)
                                     ELSE lastEvent[a]]
    /\ UNCHANGED <<ledgerVars, collections, maxSupply, minted, status, listing>>

\* Mutants of SwapInstanceLists: statuses, or the requested side's owner, unchecked.
SwapAnyStatus(offered, p, requested, q) ==
    /\ offered # {} /\ requested # {} /\ p # q
    /\ \A a \in offered : owner[a] = p
    /\ \A a \in requested : owner[a] = q
    /\ ExchangeOwners(offered, p, requested, q)

SwapUnowned(offered, p, requested, q) ==
    /\ offered # {} /\ requested # {} /\ p # q
    /\ \A a \in offered : owner[a] = p /\ status[a] = "active"
    /\ \A a \in requested : status[a] = "active"
    /\ ExchangeOwners(offered, p, requested, q)

\* One commit swaps both sides of a card trade; swap_instances is the case
\* of two singletons.  The accept handler refuses one's own offer, hence p # q.
SwapInstanceLists(offered, p, requested, q) ==
    /\ offered # {} /\ requested # {} /\ p # q
    /\ \A a \in offered : owner[a] = p /\ status[a] = "active"
    /\ \A a \in requested : owner[a] = q /\ status[a] = "active"
    /\ ExchangeOwners(offered, p, requested, q)

-----------------------------------------------------------------------------
(* Listings *)

PutUpForSale(l, a, seller, price) ==
    /\ listing[l] = NoListing
    /\ owner[a] = seller
    /\ status' = [status EXCEPT ![a] = "listed"]
    /\ listing' = [listing EXCEPT ![l] = [asset |-> a, seller |-> seller,
                                          price |-> price, status |-> "open"]]
    /\ LogEvent(a, "list", seller)
    /\ UNCHANGED <<ledgerVars, collections, maxSupply, minted, owner>>

CreateListing(l, a, seller, price) ==
    status[a] = "active" /\ PutUpForSale(l, a, seller, price)

IsOpen(l) == listing[l] # NoListing /\ listing[l].status = "open"

Close(l, outcome) == listing' = [listing EXCEPT ![l].status = outcome]

Unlist(l, caller) ==
    /\ listing[l].seller = caller
    /\ Close(l, "cancelled")
    /\ LogEvent(listing[l].asset, "unlist", caller)
    /\ UNCHANGED <<ledgerVars, collections, maxSupply, minted, owner>>

Release(a) ==
    status' = IF status[a] = "listed" THEN [status EXCEPT ![a] = "active"] ELSE status

\* Mutants of CancelListing: the instance stays reserved, and a listing that
\* is over is cancelled.
CancelWithoutRelease(l, caller) == IsOpen(l) /\ Unlist(l, caller) /\ UNCHANGED status

CancelClosed(l, caller) ==
    listing[l] # NoListing /\ Unlist(l, caller) /\ Release(listing[l].asset)

CancelListing(l, caller) ==
    IsOpen(l) /\ Unlist(l, caller) /\ Release(listing[l].asset)

\* What a purchase requires, and all it writes but the balances.
Deliver(l, buyer) ==
    LET a == listing[l].asset
    IN  /\ IsOpen(l)
        /\ listing[l].seller # buyer
        /\ balance[buyer] >= listing[l].price
        /\ owner[a] = listing[l].seller
        /\ status[a] = "listed"
        /\ owner' = [owner EXCEPT ![a] = buyer]
        /\ status' = [status EXCEPT ![a] = "active"]
        /\ Close(l, "sold")
        /\ LogEvent(a, "trade", buyer)
        /\ UNCHANGED <<bridgeOps, applied, collections, maxSupply, minted>>

\* Mutant of BuyListing: the seller is paid and the buyer is not charged.
BuyUncharged(l, buyer) ==
    /\ Deliver(l, buyer)
    /\ balance' = [balance EXCEPT ![listing[l].seller] = SaturatingAdd(@, listing[l].price)]

\* SPIRAL, instance and listing move in one commit, or nothing does.
BuyListing(l, buyer) ==
    /\ Deliver(l, buyer)
    /\ balance' = [balance EXCEPT ![buyer] = @ - listing[l].price,
                                  ![listing[l].seller] = SaturatingAdd(@, listing[l].price)]

-----------------------------------------------------------------------------
CatalogStep ==
    \/ \E c \in Collection : CreateCollection(c)
    \/ \E c \in Collection, t \in Token, max \in Serial, start \in 0..SupplyCap :
          RegisterToken(c, t, max, start)

InstanceStep ==
    \/ \E t \in Token, by \in Account : ClaimToken(t, by)
    \/ \E a \in Asset, p, q \in Account : TransferAsset(a, p, q)
    \/ \E a \in Asset, new \in {"active", "frozen"} : SetAssetStatus(a, new)

TradeStep ==
    \E offered, requested \in SUBSET Asset, p, q \in Account :
        SwapInstanceLists(offered, p, requested, q)

ListingStep ==
    \/ \E l \in ListingId, a \in Asset, p \in Account, price \in Price :
          CreateListing(l, a, p, price)
    \/ \E l \in ListingId, p \in Account : CancelListing(l, p)
    \/ \E l \in ListingId, p \in Account : BuyListing(l, p)

MoneyStep == LedgerNext /\ UNCHANGED assetVars

MarketNext == CatalogStep \/ InstanceStep \/ TradeStep \/ ListingStep \/ MoneyStep

MarketSpec == MarketInit /\ [][MarketNext]_vars

-----------------------------------------------------------------------------
AssetTypeOK ==
    /\ collections \subseteq Collection
    /\ maxSupply \in [Token -> 0..SupplyCap]
    /\ minted \in [Token -> 0..SupplyCap]
    /\ owner \in [Asset -> Account \cup {NoAccount}]
    /\ status \in [Asset -> {"none", "active", "listed", "frozen"}]
    /\ listing \in [ListingId -> ListingRow \cup {NoListing}]
    /\ lastEvent \in [Asset -> [kind : EventKind, holder : Account \cup {NoAccount}]]

MarketTypeOK == LedgerTypeOK /\ AssetTypeOK

\* An open listing holds its instance in reserve for as long as it is open:
\* the instance is Listed and still the seller's, so a buyer who pays the
\* price receives it (create_listing: "transfers, trades and swaps refuse it
\* until sold or cancelled").
OpenListingReserves ==
    \A l \in ListingId : IsOpen(l) =>
        /\ status[listing[l].asset] = "listed"
        /\ owner[listing[l].asset] = listing[l].seller

\* An instance is on sale at one price at a time.
OneOpenListing ==
    \A l, m \in ListingId :
        IsOpen(l) /\ IsOpen(m) /\ listing[l].asset = listing[m].asset => l = m

\* A Listed instance can always be released: its owner has an open listing
\* to cancel or sell.  Freeze and restore refuse a Listed instance, so one
\* without a listing would be locked for good.
NoOrphanedReservation ==
    \A a \in Asset : status[a] = "listed" =>
        \E l \in ListingId : IsOpen(l) /\ listing[l].asset = a /\ listing[l].seller = owner[a]

\* Every instance carries a serial the counter has already passed and the
\* supply admits: the next claim finds its serial free, and a token never
\* has more instances than max_supply.
SerialsAreIssued ==
    \A a \in Asset : status[a] # "none" =>
        SerialOf(a) <= minted[TokenOf(a)] /\ SerialOf(a) <= maxSupply[TokenOf(a)]

\* A token never has more instances than its max_supply.
InstancesWithinSupply ==
    \A t \in Token :
        Cardinality({a \in Asset : TokenOf(a) = t /\ status[a] # "none"}) <= maxSupply[t]

\* The event last written for an instance tells its holder and whether it is
\* reserved or frozen: no operation changes the row without its event.  This
\* is the order of writing.  A stored event has the second it was written in
\* and a random id, and asset_events sorts by the second alone, so a reader of
\* the log cannot tell the newest of two events of one second.
EventLogExplainsState ==
    \A a \in Asset :
        /\ lastEvent[a].holder = owner[a]
        /\ status[a] = CASE lastEvent[a].kind = "none" -> "none"
                         [] lastEvent[a].kind = "list" -> "listed"
                         [] lastEvent[a].kind = "freeze" -> "frozen"
                         [] OTHER -> "active"

\* A row has an owner: status "none" and NoAccount both say there is no row.
RowsHaveOwners == \A a \in Asset : status[a] = "none" <=> owner[a] = NoAccount

\* The inductive invariant behind the market's safety properties.
MarketInv ==
    /\ MarketTypeOK
    /\ RowsHaveOwners
    /\ OpenListingReserves
    /\ OneOpenListing
    /\ NoOrphanedReservation
    /\ SerialsAreIssued
    /\ EventLogExplainsState

\* The sale of listing l to the instance's next owner: full price from the
\* buyer, to the seller, and to nobody else.
Sale(l) ==
    LET a == listing[l].asset
        seller == listing[l].seller
        price == listing[l].price
    IN  /\ IsOpen(l)
        /\ listing'[l].status = "sold"
        /\ owner[a] = seller /\ owner'[a] # seller
        /\ balance[owner'[a]] >= price
        /\ balance' = [balance EXCEPT ![owner'[a]] = @ - price,
                                      ![seller] = SaturatingAdd(@, price)]

\* An instance that exists changes hands only while it is active, without
\* money, or by the paid sale of its own listing; a frozen instance stays.
OwnershipMovesByConsentOrSale ==
    [][\A a \in Asset : owner[a] # NoAccount /\ owner'[a] # owner[a] =>
          \/ status[a] = "active" /\ status'[a] = "active" /\ UNCHANGED balance
          \/ \E l \in ListingId : listing[l] # NoListing /\ listing[l].asset = a /\ Sale(l)]_vars

\* A listing ends once, as what it was opened for: sold in a complete sale or
\* cancelled with the instance back in its seller's hands.
ListingClosesOnce ==
    [][\A l \in ListingId : listing[l] # NoListing /\ listing'[l] # listing[l] =>
          /\ IsOpen(l)
          /\ listing'[l] \in {[listing[l] EXCEPT !.status = s] : s \in {"sold", "cancelled"}}
          /\ listing'[l].status = "sold" => Sale(l)
          /\ listing'[l].status = "cancelled" =>
                /\ status'[listing[l].asset] = "active"
                /\ owner'[listing[l].asset] = listing[l].seller
                /\ UNCHANGED balance]_vars

\* A balance falls only by the one bridge debit that stamps a fresh key with
\* what it leaves, or by paying for a listing: no credit wraps around at the
\* top of u64, and a replayed key takes nothing.
BalanceFallsByDebitOrSale ==
    [][\A p \in Account : balance'[p] < balance[p] =>
          \/ PaysByFreshKey(p)
          \/ \E l \in ListingId :
                listing[l] # NoListing /\ Sale(l) /\ owner'[listing[l].asset] = p]_vars

\* The listing that reserves a, and the price a is on sale at.
OpenListingOf(a) == CHOOSE l \in ListingId : IsOpen(l) /\ listing[l].asset = a

AskedPrice(a) == IF status[a] = "listed" THEN listing[OpenListingOf(a)].price ELSE 0

\* Listings, serials, keys and events implement one holder and at most one
\* asking price per instance, with payment against delivery.
Escrow == INSTANCE AssetEscrow
    WITH Item <- Asset, Nobody <- NoAccount, NoAsk <- 0,
         holder <- owner, purse <- balance,
         frozen <- {a \in Asset : status[a] = "frozen"},
         ask <- [a \in Asset |-> AskedPrice(a)]

ImplementsEscrow == Escrow!EscrowSpec

\* Minting creates an instance and leaves every existing one as it was.
MintTakesNothing ==
    [][\A a \in Asset : minted' # minted /\ status[a] # "none" =>
          owner'[a] = owner[a] /\ status'[a] = status[a]]_vars
=============================================================================
