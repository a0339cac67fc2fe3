# wou-id: models, checks and proofs

wou-id is the identity and account service of the World of Unreal games: an Axum
server (`wou-server`) over a storage crate (`wou-storage`) that keeps durable tables in
Redb and short-lived keys in Valkey. This directory holds TLA+ models of its stateful
parts, the TLC configurations that check them on small instances, and TLAPS proofs of
what matters most for every instance.

Line numbers refer to `src/`; `store.rs` is `crates/wou-storage/src/store.rs` and
`routes/` is `crates/wou-server/src/routes/`. `PROJECT.json` maps each definition to its
lines.

## 1. What makes this system hard

* **Two stores, two disciplines.** A Redb write transaction is exclusive and aborts when
  it returns early, so one transaction is one atomic step. Valkey commands are atomic one
  by one; a handler that sends two of them can be overtaken, or die, in between.
* **Handlers are tasks.** `main.rs` runs a multi-threaded tokio runtime; handlers of the
  same row interleave at every `await`, and a row read in one step may be written back in
  another.
* **No retry, no recovery log.** A client that gets no answer calls again; a restart
  forgets what was in flight and keeps both stores.

A component that works inside one transaction therefore needs strong invariants over its
tables; a component that works across steps needs its steps modelled one by one. The
models follow that division: one action per transaction, or per command.

## 2. Inventory

| Component | State | Operations | Hard part | Correct when | Model |
|---|---|---|---|---|---|
| SPIRAL ledger and bridge | balances, bridge keys (Redb) | faucet, bridge credit and debit | repeated calls under one key, saturation at u64 | a key moves money once and always answers the same | `SpiralLedger` |
| Assets and marketplace | collections, tokens, instances, listings, events (Redb) | create collection, register, claim, transfer, freeze, restore, swap lists, list, cancel, buy | buyers, seller and producer compete for one instance | reservation, payment against delivery, supply, provenance | `AssetMarket`, `AssetEscrow` |
| Token metadata refresh | token rows | upsert in two transactions | overlaps a claim | a refresh keeps the supply counter | `AssetCatalog` |
| Card trades | trade rows | create, accept, cancel | read, swap, save are three steps; restart between them | status tells the truth, only admitted accounts swap | `CardTrade` |
| QR sign-in | challenge row, approval lock (Valkey) | start, poll, approve by phone or chat, cancel | lock only on one path, GET and DEL apart | one desktop signed in, once, as the first approver | `QrLogin` |
| Email codes | counters, penalty, ban, pending code (Valkey) | request, verify | INCR and EXPIRE apart, races, a counter that outlives its code | limits hold, codes work once, throttles end | `OtpLadder` |
| One-time codes | nonces, OAuth states, link codes with a counter of misses, the gate of one code a minute (Valkey) | issue, take, mint, try | GET and DEL apart, SETNX and EXPIRE apart, a counter read and written back | a code is good for one use, misses are braked, the gate opens again | `OneTimeCodes`, with `Sessions` in `Access` |
| Accounts, identities, bot links | account rows and the index of identities (Redb), cached copies and bot links (Valkey) | sign in by code, wallet or provider, resolve, link, unlink, save other fields | whole-row read-modify-write from a cache, concurrent first logins | a proof leads to one account, an identity stays where it is | `Accounts`, `IdentityRegistry` |
| Handles | index of handles (Redb), its cache (Valkey) | generate, rename, find | checked and saved apart, old rows kept | a handle finds its one owner | not modelled |
| Account reset | all tables and keys | reset of the human accounts | a snapshot against running handlers, many commands before one commit | nothing of a removed account is left | `AccountReset` in `Community` |
| Vault migration | account rows | re-derive wallets at boot | none: it runs alone | - | not modelled |
| Legacy inventory | cards per account (Redb) | collect | read and written apart | what was claimed is kept | `Inventory` in `Community` |
| Clans | clan rows and member rows (Redb), cached clan (Valkey), tag of the account | create, join, leave | count not tied to membership; cache and account follow the transaction | count equals members, a displayed tag is a membership | `Clans` in `Community` |
| Social graph, feed | edges, activities (Redb), a set for each end, the feed (Valkey), counts in the accounts | follow, unfollow, record | five writes, none of them tied to another | edges, sets and counts agree | `Social` in `Community` |
| Sessions | tokens, revocation keys (Valkey) | issue, authorize, refresh, resume, logout | a key that ends, a decoder with leeway, unreachable Valkey, a path that does not look | a refused token stays refused | `Sessions` in `Access` |
| Signatures, OAuth providers, CrazyGames | none | verify | stateless computation | - | not modelled |
| Mailer, templates, upload, newsletter, contact | none of their own | I/O | - | - | not modelled |
| Client SDKs, sign-in widget, deployment | a session token | HTTP calls, user interface, scripts | - | - | not modelled |

Interaction: trades and listings act on the same instance rows; sales and the bridge act
on the same balances; the producer's endpoints (`routes/assets.rs`, `routes/internal.rs`)
issue, freeze and refresh; QR approval and email codes both end in a session for an
account, as do all sign-ins of `Accounts`; nonces and OAuth states end in a session, and a
session mints a link code (`Access` composes these). Clans and follows act on whole account
rows and their cached copies, as `Accounts` does. `PROJECT.json` lists the hazards, each at its
line, with the properties that cover it.

## 3. Modules

```
SpiralLedger <- AssetMarket <- AssetCatalog     AssetEscrow   IdentityRegistry <-implements- Accounts
                     ^   \___________________implements__^
                     |
                 CardTrade                      QrLogin   OtpLadder

Sessions <- OneTimeCodes <- Access      AccountRows <- Clans, Social, Inventory <- AccountReset <- Community
```

An arrow points from a module to the ones that extend it. Each component `X` has its
configurations `X*.cfg`, where needed a module `MCX` with symmetry sets and bounds for TLC
(`MCMarketUsers` is that of both `AssetCatalog` and `CardTrade`),
and proofs: `AssetMarketProofs` (which holds those of the ledger and of the escrow, too),
`CatalogProofs`, `CardTradeProofs`, `QrLoginProofs`, `OtpLadderProofs`, `AccountsProofs`,
`AccessProofs` and `CommunityProofs`.

**SpiralLedger** (`store.rs:2329-2448`). `balance` and `bridgeOps` are two tables;
`applied` is a history of how often a key moved money. `BridgeSpiral` has three disjuncts:
the key is known and is answered from its row, a credit, a debit that the balance covers.
A refused debit writes nothing and leaves its key unused, so it is not an action. `u64` is
`0..MaxBalance`, saturating as `saturating_add` does.

**AssetMarket** (`store.rs:1838-2680`) extends the ledger. An asset is a token and a
serial; `owner` and `status` are the instance row, `minted` and `maxSupply` the token row,
`listing` the listing row, `lastEvent` the newest entry of the event log, which every
operation writes itself. Every action is one Redb transaction with the guards in the
order the code returns errors. A request that is refused writes nothing. Where the handler
checks the caller (owner of the instance, seller of the listing) the check is a guard.

**AssetEscrow** is the abstract promise: one holder per item, at most one asking price, an
item on offer stays until the offer is retracted or exactly its price is paid.
`AssetMarket!Escrow` is the refinement mapping: the asking price of an instance is that of
its open listing, found by `CHOOSE`, which is unambiguous because `OneOpenListing` holds.

**AssetCatalog** adds `upsert_token` (`store.rs:1938`) with its read and its write as two
steps of a maintainer's request. Its write puts back the row it read, so the steps of
`AssetMarket` interleave with it.

**CardTrade** (`routes/inventory.rs:115-241`). A request in `request` has read a trade row;
accept then swaps (a step of `AssetMarket!SwapInstanceLists`) and then saves the row, cancel
only saves it. `RequestEnds` is the refusal of a swap, or, with `Restarts`, the process
stopping. `swaps` is a history of who exchanged cards through a trade. `handle_trade_create`
is one step: it reads the offered and requested cards one after the other and saves the
row, and what it read may be stale by then, but nothing after relies on it, as the swap
looks again. A restart ends one request and not all at once; the requests it leaves alone
could end by steps of their own right after it, so no state is missed.

**QrLogin** (`routes/qr.rs`, `routes/bots.rs:138-303`, `store.rs:402-510`). One challenge row
(`NoRow`, `Pending` or the approved account), one lock, and slots for approvals by phone,
taps in chats and polls. Each Valkey command is a step. `Faults` lets handlers die and
commands fail (the code ignores failures of DEL and EXPIRE), `Slow` lets an approval outlast
the lock. `delivered` counts sessions handed out.

**OtpLadder** (`store.rs:144-358`, `routes/otp.rs`). One address. `count` holds three
counters, each with a value and whether it has an expiry; `Incr` and `Arm` are the two
commands of `incr_win`. Requests and verifications go through named stages, one per
command. `granted`, `wrong` and `used` are histories. Codes are numbered as they are issued,
so a verification that read an earlier code can be told from one that read the newest.

**Accounts** (`store.rs:421-690, 944-1087`, `models.rs:348`, `routes/otp.rs`, `web3.rs`, `oauth.rs`,
`anonymous.rs`, `link.rs`, `bots.rs`, `internal.rs`). `rows` and `index` are the tables of accounts
and of identities, `cached` the copies in Valkey, `links` the bot links. A request in `req` is
a record of what its handler holds and the stage it is at: it finds an account (`SignInFind`,
`ResolveFind`), reads it from the cache or from Redb (`Load...`), decides which account to
use (`Decide...`), saves the row with its index rows in one transaction (`SaveCommits`,
`SaveRefused`), writes the cache (`CacheCopy`) and answers. `resolve_or_create_service_identity`
decides and creates in one transaction (`ResolveCreates`, `ResolveFound`); unlinking goes through
four steps. `TouchOwn` stands for every handler that reads an account, changes fields that
are not modelled and saves all of it: profile, clans, social graph, newsletter, upload.
`signedIn` is a history of sessions given for a proof of a key. `loose` is a history of the
keys whose index row was removed (an unlink) or never written (the email of a resolved
account): for these the code keeps no promise, and the invariants leave them out.

An identity is a model value, and which providers' identities may take which path is not
told apart: a link, a sign-in with a verified email, a resolution may concern any of them.

**IdentityRegistry** is the abstract promise: keys are bound to one account all or none, a
bound key is released only if its kind is revocable (a chat), and a proof of a key lets into
the account it leads to at that moment, unless the key is waived. `Accounts!Registry` maps
the index, the sessions given and the loose keys onto it; rows, caches, links and requests
in flight disappear.

**Sessions** (`auth.rs`, `guard.rs:48`, `routes/session.rs`, `routes/anonymous.rs`, `jwt.rs`). A token
is a number with its account (`owner`) and what is left of its life; `stamp` is what is left
of its revocation key. Times count down: `Tick` takes one off both. A request is admitted by
the extractor (`Admit`, which passes a token when Valkey does not answer) or by the proof of
ownership of a resume (`AdmitOwner`, which does not look at the key), and acts in a later
step (`Renew`, `Logout`, or the link request of `Access`), so a token may be logged out in
between. `life` runs below zero, as the library's decoder accepts a token for its leeway of
60 s after `exp`. `loggedOut` is a history.

**OneTimeCodes** (`store.rs:285-399`, `routes/web3.rs`, `oauth.rs`, `bots.rs:11-40, 194-238`). What
a nonce or state key `held` is the number of its issue; taking it is a GET (`TakeRead`), a DEL
(`TakeDrop`) and the rest of the handler. A link code is taken by a script in one step
(`Consume`); its counter of misses is read before (`TryRead`) and written back after
(`CountMiss`). `rate` is the gate's key: `RateSet` and `RateArm` are SETNX and EXPIRE. The
histories `shared`, `crossed` and `stuck` name the issues, codes and accounts for which two
requests overlapped or a command failed.

**Access** composes the two: a fitting answer ends in `SignIn`, and a request for a link code
goes through the gate in three steps before `Mint`.

**AccountRows** (`store.rs:537-690`) is what clans and follows share: `rows` and `cached`, slots
of `work`, each with the stage a request is at and the copy of the account it has read, the
two writes of `save_account` (`SaveRow`, `CopyRow`) and failures. `Copies` is
`get_account_by_id`: the cached copy or, since its time to live may be over or Valkey may not
answer, the row.

**Clans** (`store.rs:2683-2893`, `routes/clan.rs`), **Social** (`store.rs:737-942`, `routes/social.rs`,
`routes/internal.rs:179`) and **Inventory** (`store.rs:1560-1611`, `routes/inventory.rs:67`) have one
action per transaction or command of their handlers. A failing command that a handler
ignores is a disjunct of its action, everything else that can go wrong is `Dies`.

**AccountReset** (`store.rs:1096-1554`) goes through five steps: the snapshot of the tables, the
sets of the others, the keys, the feed, the commit of all removals; its walks over Valkey
keys are one step each, though a command for each key in the code. Other requests interleave
with all of them, and it may fail after any. **Community** composes the four.

Its invariants speak of what no failure and no overlap has touched, and the histories say
what that is: `crossed` holds what was at stake in requests that overlapped (each other, or a
reset) or failed, `skewed` the accounts and tags whose counts were changed out of turn (a
repeated join, follow or unfollow, an uninvited leave), `removed` the accounts a reset took
away and no request has touched since.

## 4. Runs

All configurations switch the deadlock check off, as the system may stop: ids of listings,
trades and accounts are finite here and are never reused, challenges and codes are issued a
bounded number of times, and no user has to call again.

| Run | Question | Bounds |
|---|---|---|
| market | Does a reservation hold against everybody else, do claims respect the supply, does a bridge key move money once? Is the escrow implemented? | 3 accounts (a seller, two buyers), 2 serials, 2 listings, 1 bridge key, amounts and prices of 1, balances to 1: a second credit saturates |
| market_users | Who works on the market's rows in several transactions: what survives a refresh that overlaps claims; is a settled trade always a real one, and final, and does it leave what is on sale alone? | 2 accounts, 2 serials; 2 refreshes in flight and 2 listings, or 1 trade, 2 requests in flight, 1 listing, restarts |
| qr_bots | Does the lock serialise chats, and is a session delivered once? | 2 taps, 1 poll, nothing fails or is slow |
| qr_all | With everything: who can bring a challenge back, does it end? | 2 phones, 2 taps, 2 polls, failures, slow approvals |
| otp_race | Does the limit hold among racing, dying requests? | 2 requests, 1 verification, limits 1, failures |
| otp_serial | One caller at a time: a used code gone, counters that end? | limits 1, 3 guesses, 2 codes |
| accounts | Does one proof lead to one account, whoever races to bind it? Is the registry implemented? | 3 accounts, 2 emails, 1 chat, 4 requests, 2 at a time |
| access | Is what is good for one use used once, does a refused token stay refused, does the gate open again? | 1 account, 2 tokens of a life of 2 ticks and a leeway of 1, 2 requests, 1 nonce key, 1 state, 2 takers, 1 link code, 2 chats, 2 misses, 5 requests in all, failures |
| community | What do tables, caches and accounts agree on while requests overlap, fail, and a reset runs? | a human and a bot, 1 tag, 2 cards, 1 activity, 2 requests at a time, 3 or 4 requests, resets and failures in all |
| card_trade_cancel, otp_guesses, logout | Where the code departs from what is said of it | below |

Bounds by name: `MaxBalance` stands for `u64::MAX`; `SupplyCap` bounds `max_supply`; `Several`
is where a history of sessions stops counting (one, or more than one); `SwapBound` follows a
trade up to its first exchange and the step that makes a second; `Issues` bounds the codes
issued; `MaxAsked` bounds the requests ever begun on accounts: four let a link, two racing
sign-ins and a save from an old copy follow each other. Counters of the ladder stop one
past their limit, beyond which the code does not tell values apart; `GuessBound` is
`2 * GuessMax - 2`, the most wrong guesses a code bears (`GuessMax - 1` before its counter
expires and as many after). The limits of the ladder (3, 6
and 5 in the code) are constants: limits of 1 and of 3 guesses already separate below, at
and above. The theorems of section 5 hold for all of these. In `market_users` and
`card_trade_cancel` `Key` is empty: the bridge is part of the market run, and to a refresh or
a trade a bridge step is a change of a balance. `MCMarketUsers` gives each behaviour
refreshes or trades, with all steps of the market beside them: a trade writes no token row, a
refresh no owner and no status, and what a serial given out again does to an offer (its card
has another owner) a gift does as well. Behaviours with trades have no money, so nothing is
sold in them, and at most one listing (`OneListing`). Symmetry is used on ids that the code
only compares, and never in a run with a liveness property.

In the access run `MaxTokens` is 2, so a refresh or resume of one token and its logout meet;
`MaxRequests` 5 lets a code be missed, counted and tried again while a token is logged out.
`Life`, `Leeway` and `MinStamp` stand for 30 days, 60 s and 60 s; a life longer than both, and a
leeway above zero, are what the properties tell apart, and `RefusedTokensStay` holds for any.
In the community run `MCCommunity` gives each behaviour one family of operations (clans;
activities and claims; follows; creating and following together, which share an account's
row) and bounds requests, resets and failures together: `MaxLong` for the short operations,
`MaxShort` for the follows, whose nine steps interleave most. Three events are two overlapping
requests and a reset or a failure; four add the second reset or one more request. A clan
and a follow of an account meet in nothing but its row, so no other mix of operations
says more. `MaxCount` is the number of requests: no count reaches it.

### Where the code and its comments disagree

Each of these is a run that violates one property, the statement of a comment or a document:

* **card_trade_cancel** (`SettledNeverRewritten`): a cancel overwrites the accept it overlaps
  ("never rewrite a settled one").
* **otp_guesses** (`GuessesBurn`): a code takes more than "5 wrong guesses" (`store.rs:160`,
  `docs/SECURITY.md:23`, `tests/server_integration_test.rs:183`). Failures are counted under the
  address, `save_pending_otp` leaves the counter as it is, and 600 s after the guess that began
  it the counter expires. In the run a guess at a first code begins it, a second code is
  issued and guessed at, the counter expires while the second code waits, and the count starts
  again: with a limit of 3 the code is still there after 3 wrong guesses. No step fails and
  nobody races. What is true is proved (`GuessesAreBounded`): `2 * GuessMax - 2` guesses, 8 with
  the code's limit of 5.
* **logout** (`LoggedOutStaysOut`): a resume asks for the token's signature, expiry and subject
  only, so a token that is logged out is exchanged for a fresh one ("logout kills the token
  server-side", `models.rs:386-388`).

Read off the models, without a run of their own:

* A claim between the two transactions of `upsert_token` is uncounted ("max_supply, minted and
  created_at stay exactly as stored", `store.rs:1934-1937`); the next claim gives its serial
  out again and overwrites the instance, even one on sale. `RowsWithinSupply` and
  `SoldMeansPaid` say what remains true; neither would notice the uncounted claim or the
  overwritten instance.
* Approval by phone takes no lock, so it can replace a chat's approval, or be replaced by
  one ("web+bot approvers cannot interleave", `routes/bots.rs:137`). `ApprovalNeverRewritten`
  is therefore checked among chats.
* An account created by `resolve_or_create_service_identity` has a verified email without an
  index row. A code for that email finds no account and creates another ("returns its
  existing account", `docs/identity-contract.md:18`), after which the first can no longer be
  saved.
* A restart between swap and save leaves an executed offer open; it can be accepted once
  more when the cards are back where they were.
* Two overlapping polls both read an approved challenge before either deletes it, and both
  hand the session out (`routes/qr.rs:191`, "single atomic delivery"); two overlapping
  verifications are both let in by one code. `SingleDelivery` is therefore checked for one
  poll at a time; of a code, that nobody who reads it later is let in (`UsedIsGone`).
* A handler that dies, or a command that fails, between SETNX or INCR and EXPIRE leaves an
  approval lock or a counter without expiry.
* The other side of the guess counter that belongs to the address: guesses at an earlier code
  burn the next one sooner than "5 wrong guesses burn the code", and a burn in flight deletes
  whatever code is pending by then, one issued meanwhile included.
* `handle_unlink` removes the index row of a chat whoever it leads to (`bots.rs:131`). Saved from
  an older copy, an account can go on listing an identity whose row is gone, and can no
  longer be saved once another account takes it.
* A save from an older copy loses what was linked or changed since.
* Two requests that both read a nonce or a state before either deletes it are both let in
  ("single-use", `store.rs:284`), and a DEL that fails leaves it for the next one.
* From a token's `exp` on, its revocation key is gone while the decoder takes the token for
  another minute (`InGrace`), and when Valkey does not answer the extractor lets any through.
* Joining again counts a member twice; leaving a clan one is not in counts one less, and
  removes a clan of one ("Last member left, remove clan", `store.rs:2878`) with its member's row
  left behind. Following or unfollowing again moves both counts.
* Two claims of an account that overlap lose one, as each writes back what it read.
* Nothing asks whether a follower or a target exists, so a session that outlives its account
  leaves edges of it; a request in flight during a reset brings a removed row, copy or
  membership back. A reset leaves the follow counts and the displayed tags of bots as they
  were.

### Fairness

Safety does not use it. `QrFairness`, `OtpFairness` and `AccessFairness` assume that a handler
which has begun goes on (the runtime polls its task until it ends or dies) and that a Valkey
key with a time to live goes away; a key without one never does. Nobody has to scan,
approve, deny, poll, request, verify or ask for a link code. All of it is weak fairness: once
a step is possible it stays possible until taken. For `NextCodeComes` two steps are enough: a
request that has set the gate's key goes on to EXPIRE, and the key expires.

### Assumption on times

A pending code lives no longer than the 600 s of the guess counter:
`WOU_OTP_EXPIRY_SECONDS` defaults to 600 (`main.rs`). `CounterExpires("fail")` therefore waits for
a code that was pending when the counter began. All other expiries are free to happen at
any time.

## 5. Proofs

The eight modules named in section 3 hold the theorems, for any finite or infinite sets of
accounts, tokens, keys, listings, trades, handlers, and for any limits the named assumptions
of the modules admit. What is assumed of constants beyond the ranges of limits and that the
markers (`NoAccount`, `Idle`, ...) are no values of their own: `CountAssumption` of `Community`
says that there are finitely many accounts, no more than the counts can count
(`Cardinality(Account) <= MaxCount`, `u32` in the code), and the supply theorems need no
finiteness at all, as serials below a cap are finitely many. Every safety property that a
passing run checks is stated by a theorem (`ReservedFromTrades` by `TradesRespectListings`, as
`OpenListingReserves` of `TradeSpec`).

* **Ledger.** Types, then `BridgeAppliesOnce` (inductive with the types): a key has a row
  exactly when it has moved money once. The stable answer, and the lemma `DebitsAreStamped`,
  are step properties that follow from these.
* **Market.** `MarketInv` joins the type invariant with `RowsHaveOwners`, `OpenListingReserves`,
  `OneOpenListing`, `NoOrphanedReservation`, `SerialsAreIssued` and `EventLogExplainsState`. None
  of the listing facts is inductive alone: that a cancel releases the right instance needs
  that the listing reserves it, that creating a listing keeps listings unique needs that
  every Listed instance already has a listing, and that a claim hits a free serial needs
  that all serials in use are below the counter. One lemma per action; two frame lemmas
  cover actions that leave listings alone. `BridgeOnceInMarket` carries the ledger's result
  into the market; `MoneyIsGuarded` adds that a balance falls only by a bridge debit under a
  fresh key or by a purchase. `SupplyHolds` counts: serials in use are issued, issued ones are
  `1..minted`, and `minted` is at most `max_supply`.
* **Refreshes.** A stale write-back of a token row breaks `SerialsAreIssued`, and with it that
  an open listing reserves its instance and that the log explains the state: a serial is
  issued over an instance that has an owner. `CatalogInv` is what is left, types and serials
  within `max_supply`, and it is enough for `SupplyHoldsAmongRefreshes`, for `SoldIsPaid` and for
  `MoneyIsGuardedAmongRefreshes`, which rest on the guards of each step alone.
* **Refinement.** Under `MarketInv` the mapped price is well-defined; one lemma per action
  names the escrow step it is. Registration and collections are stutters.
* **Trades.** `TradeInv` adds what a request in flight still knows of its row
  (`RequestsMatchRows`): parties and cards of an offer never change. From it, acceptance is
  always backed by a swap. The swap is the market's own `SwapInstanceLists`, so by the lemma
  `MarketUnderTrades` the market's invariants hold with trades in it; the one that says
  something of a trade is `TradesRespectListings`: a listing keeps its instance out of trades
  offered before it, because the swap looks at the statuses again.
  `TradesAreFinal` proves `QuietTradeIsFinal`: once no request that read it open is left, a
  settled trade stays as it is.
* **QR sign-in.** `GoneStaysGone` with failures and any timing. With quick approvals and no
  failures (`~Slow /\ ~Faults`) the lock serialises any number of chats; adding that only chats
  approve and polls do not overlap (`ChatsOnly`), single delivery and the stable approval
  follow (`OnceInv`). That only chats approve is needed: a phone rewrites an approval
  (section 4). So are polls that do not overlap (section 4).
* **Email codes.** `ThrottleHolds`: the limit holds for any number of requests, under deaths
  and failures. Its invariant ties `granted` to the window counter: while the counter is
  below its limit it is at least `granted`, and once over it lets nobody through.
  `SpentCodesAreGone` needs that Valkey does not drop the DEL; it holds for any number of
  racing verifications, which the serial run does not show. `GuessesAreBounded` is
  the bound that holds in place of the documented one (section 4). It assumes no failing
  command and one verification at a time (`OneAtATime`), beside any number of requests that
  replace the code. Its invariant `GuessInv` bounds the guesses counted against the pending
  code (`Tally`) by cases of the counter (`TallyBounded`): gone, and the tally is what one
  counter lets pass; armed under an earlier code, and all of the tally is in it, so that it may
  expire once; armed under this code, and it cannot expire before it, so the tally is at most
  what an earlier counter let pass and what this one holds. `StagesFit` says what a verification
  between INCR and EXPIRE, or between burning and reset, knows of the counter.
* **Accounts.** `ProofLeadsToOneAccount` is not inductive: that an answer is safe depends on
  what the handler learnt several steps earlier. `AccountsInv` therefore adds `Sound`, which
  says for each stage what its handler relies on: a sign-in about to save lists the proved
  keys in its copy or knows that they lead to its account, one about to write the cache
  holds only keys that do. The argument has two parts. `Persists`: no step takes a key that
  leads to an account away from it, except by making the key loose, and no row disappears
  (`SaveOwns`, `CreateOwns`, `DropKeeps`); so what other requests rely on survives
  (`OthersStaySound`). And each step leaves its own request sound (`StepNext`, one lemma per
  group of handlers). From these follow `OneAccountPerProof`, `RowsAndCopiesOwn` and
  `IdentitiesStay`. `AccountsImplementRegistry` is the refinement: a save is a binding of all its
  keys, `resolve_or_create` the founding of an account, an unlink a release or nothing, and every
  answer an admission (`Backed`: the proved keys still lead to the account, however long ago
  they were looked up).
* **Access.** `AccessTypes` first. `RefusedTokensStay`: while a token has life left, a
  revocation key that is there lives at least as long (`TokenInv`), so neither a second logout
  nor the passing of time lets the token in again before its expiry; `OtherTokensStay` is a
  step property. `OneSignInEach` is not inductive: `TakeInv` adds that an issue nobody shared is
  in one place at a time (`SoleAt`), in its key, in the hands of one taker or answered.
  `LinkCodesSpentOnce` needs that a code not yet gone is given to nobody; `MissesAreBraked` that
  for a code without overlap the counter, and what the one chat at it has read, are no less
  than its misses (`BrakeHolds`). All hold for any number of tokens, takers, chats and codes, and
  with failures.

* **Community.** The properties leave out what requests crossed, so each proof has to say what
  a request knows of the things it is alone with. `BaseInv` does it once for all: types, the
  shape of the request of each operation at each stage (`JobsShaped`), and `StakesAlone`: what
  is at stake in a request and not in `crossed` is at stake in no other request, and in no
  reset. On it stand seven invariants, each for one property and inductive with those named:
  * `CardsInv` (`ClaimedIsKept`): the copy of the hoard a claim is about to write has all that
    was gained;
  * `EdgesInv` (`GraphsAgree`): an edge and its two set entries agree, but for the entries the
    stage of the follow at work has still to write, or the reset at work has already removed;
  * `ErasedInv` (`NothingIsLeft`): of an account no request touches the snapshot knows all there
    is (`ResetKnows`), and what a step has taken out stays out (`SweptSoFar`);
  * `CopyInv` and `TagsInv` (`TagsTellMembership`): row and copy are equal but while a request is
    between its two writes, and any tag a request carries to an account's row is a membership;
  * `TruthInv` and `ClanCopyInv` (`ClansTellTruth`): the count is the cardinality of the members, and
    what the snapshot read of a clan is so until the commit;
  * `CountsInv` with `CopyInv` (`CountsAreEdges`): a count is the cardinality of the edges, but for the one
    a follow at work has still to count (`DueOut`, `DueIn`), and so in every row a request carries.

  Each was checked by TLC on the instance of the community run before it was proved.

The type invariants, `SerialsAreIssued`, `MintTakesNothing`, `BridgeAnswerIsStable`,
`OneOpenListing`, `OtherDevicesStay` and `IdentityStaysPut` are proved and no longer run by TLC
(`CommunityTypeOK` is both).

Model-checked only: liveness (`ChallengeEnds`, `CountersExpire`, `NextCodeComes`), which is out of
the prover's reach, and the three counterexamples of section 4.

## 6. Not modelled

* Of the assets: names, images, metadata, prices' text; the log beyond its newest entry.
  "Newest" is the order of writing: a stored event carries whole seconds and a random id
  (`store.rs:1998-2008`), and `asset_events` sorts by the second alone (`store.rs:2321`), so a
  reader of the log cannot order two events of one second. `EventLogExplainsState` says that
  every operation writes the event of the state it leaves, and not what `asset_events` returns.
  Also the check, before the transaction, that a recipient's account exists.
* Of the ladder: gates by IP, the global counter and the protection mode, alerts and mail.
* Of the accounts: handles (the index is overwritten without a look, so that a handle may find
  a second holder follows from one line of `save_account`), the set of an account's chats, the
  welcome flag, all other fields, the repair of rows without a handle when they are read.
* Of one-time codes: the confirmations of contact and newsletter forms, which guard a mail and
  no state.
* Of the reset: its removal of balances, instances, events, listings, trades and index rows,
  which follows the same snapshot; of the feed, its trim to a hundred entries, and
  that the reset removes it and pushes back what remains in several commands
  (`store.rs:1458-1468`, one step in `ResetFeed`): a reset that stops in between leaves the feed
  empty or cut short, and no property is about that; the reads that
  fall back to the durable table (`get_followers`, `get_social_feed`, `list_clans`).
* `migrate_vault_addresses` runs once at boot, before any request. `settle_trade` and
  `remove_from_inventory` are called by tests only.
* HTTP, signatures, parsing and wording everywhere.
* The components marked not modelled in section 2.

## 7. Plan

1. *Done:* ledger, market, escrow, catalog, trades, QR sign-in, email codes, accounts, sessions,
   one-time codes, clans, social graph, inventory, account reset.
2. *Done:* proofs of all safety properties of the runs; refinements of the escrow by the market
   and of the identity registry by the accounts.
3. An abstract voucher (good for one use) that link codes implement; one desktop, once, as the
   abstract promise of QR sign-in among chats; the bound on guesses for several verifications
   at a time.
4. The market's tables in `AccountReset`, with an `AssetMarket` whose accounts may go.
