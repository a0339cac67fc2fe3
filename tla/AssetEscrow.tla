---------------------------- MODULE AssetEscrow ----------------------------
(***************************************************************************)
(* What the marketplace promises its users, without listing ids, serial    *)
(* counters, idempotency keys or an event log: every item has one holder   *)
(* and at most one asking price; an item on offer stays where it is until  *)
(* the holder retracts the offer or somebody pays exactly the price asked. *)
(* AssetMarket implements this specification (proof in AssetMarketProofs). *)
(***************************************************************************)
EXTENDS Integers

CONSTANTS Account, Item, Amount, Price, MaxBalance, Nobody, NoAsk

VARIABLES
    holder,   \* holder[i]: the account that holds item i, or Nobody
    frozen,   \* the items the producer has frozen
    ask,      \* ask[i]: the price i is offered at, or NoAsk
    purse     \* what each account can spend

escrowVars == <<holder, frozen, ask, purse>>

\* An item its holder may dispose of.
Free(i) == holder[i] # Nobody /\ i \notin frozen /\ ask[i] = NoAsk

Earned(p, n) == IF purse[p] + n > MaxBalance THEN MaxBalance ELSE purse[p] + n

EscrowInit ==
    /\ holder = [i \in Item |-> Nobody]
    /\ frozen = {}
    /\ ask = [i \in Item |-> NoAsk]
    /\ purse = [p \in Account |-> 0]

Issue(i, p) ==
    /\ holder[i] = Nobody
    /\ holder' = [holder EXCEPT ![i] = p]
    /\ UNCHANGED <<frozen, ask, purse>>

Give(i, p) ==
    /\ Free(i)
    /\ holder' = [holder EXCEPT ![i] = p]
    /\ UNCHANGED <<frozen, ask, purse>>

\* Items of p against items of q, all or none.
Exchange(mine, p, yours, q) ==
    /\ \A i \in mine : Free(i) /\ holder[i] = p
    /\ \A i \in yours : Free(i) /\ holder[i] = q
    /\ holder' = [i \in Item |-> IF i \in mine THEN q
                                 ELSE IF i \in yours THEN p ELSE holder[i]]
    /\ UNCHANGED <<frozen, ask, purse>>

Freeze(i) == Free(i) /\ frozen' = frozen \cup {i} /\ UNCHANGED <<holder, ask, purse>>

Thaw(i) == i \in frozen /\ frozen' = frozen \ {i} /\ UNCHANGED <<holder, ask, purse>>

Offer(i, price) ==
    /\ Free(i)
    /\ ask' = [ask EXCEPT ![i] = price]
    /\ UNCHANGED <<holder, frozen, purse>>

Retract(i) ==
    /\ ask[i] # NoAsk
    /\ ask' = [ask EXCEPT ![i] = NoAsk]
    /\ UNCHANGED <<holder, frozen, purse>>

\* The price asked, from the buyer to the holder, against the item.
Sell(i, buyer) ==
    /\ ask[i] # NoAsk
    /\ buyer # holder[i]
    /\ purse[buyer] >= ask[i]
    /\ purse' = [purse EXCEPT ![buyer] = @ - ask[i],
                              ![holder[i]] = Earned(holder[i], ask[i])]
    /\ holder' = [holder EXCEPT ![i] = buyer]
    /\ ask' = [ask EXCEPT ![i] = NoAsk]
    /\ UNCHANGED frozen

\* The faucet and the wallet bridge.
Deposit(p, n) ==
    /\ purse' = [purse EXCEPT ![p] = Earned(p, n)]
    /\ UNCHANGED <<holder, frozen, ask>>

Withdraw(p, n) ==
    /\ purse[p] >= n
    /\ purse' = [purse EXCEPT ![p] = @ - n]
    /\ UNCHANGED <<holder, frozen, ask>>

EscrowNext ==
    \/ \E i \in Item : Freeze(i) \/ Thaw(i) \/ Retract(i)
    \/ \E i \in Item, p \in Account : Issue(i, p) \/ Give(i, p) \/ Sell(i, p)
    \/ \E mine, yours \in SUBSET Item, p, q \in Account : Exchange(mine, p, yours, q)
    \/ \E i \in Item, price \in Price : Offer(i, price)
    \/ \E p \in Account, n \in Amount : Deposit(p, n) \/ Withdraw(p, n)

EscrowSpec == EscrowInit /\ [][EscrowNext]_escrowVars
=============================================================================
