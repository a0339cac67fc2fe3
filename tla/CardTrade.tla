----------------------------- MODULE CardTrade -----------------------------
(***************************************************************************)
(* Card-for-card trades on top of the market.  A trade is a row of its own *)
(* table, written by three handlers of wou-server.  Accept and cancel read *)
(* the row, check it, act, and save the row they read with a new status:   *)
(* one transaction each for the read, the swap of the instances and the    *)
(* save, so that handlers of one trade interleave and a restart can fall   *)
(* between the swap and the save.                                          *)
(***************************************************************************)
EXTENDS AssetMarket, Sequences

CONSTANTS
    TradeId,       \* fresh trade ids (a nanoid per trade)
    Handler,       \* accept and cancel requests in flight together
    Restarts,      \* BOOLEAN: may the process stop between swap and save
    Anyone,        \* to_account of an open offer
    NoTrade,       \* no trade row
    Idle           \* a handler slot without a request

VARIABLES
    trade,         \* TRADES_TABLE
    request,       \* what an accept or cancel in flight has read and done
    swaps          \* history: who swapped cards with the offerer, in order

tradeVars == <<vars, trade, request, swaps>>

TradeRow == [from : Account, to : Account \cup {Anyone},
             offered : (SUBSET Asset) \ {{}}, requested : (SUBSET Asset) \ {{}},
             status : {"open", "accepted", "cancelled"}]

\* Only the status of a row ever changes, and a request goes on only when it
\* read "open": what it holds of the row is the row with that status.
Request == [does : {"accept", "cancel"}, trade : TradeId, caller : Account, swapped : BOOLEAN]

ASSUME TradeAssumption ==
    /\ Anyone \notin Account
    /\ NoTrade \notin TradeRow
    /\ Idle \notin Request
    /\ Restarts \in BOOLEAN

-----------------------------------------------------------------------------
TradeInit ==
    /\ MarketInit
    /\ trade = [t \in TradeId |-> NoTrade]
    /\ request = [h \in Handler |-> Idle]
    /\ swaps = [t \in TradeId |-> <<>>]

IsOpenTrade(t) == trade[t] # NoTrade /\ trade[t].status = "open"

\* Every instance named exists; what is offered and not also requested is the
\* caller's.  The handler's reads and its save are taken as one step: nothing
\* relies on what they saw, since accept checks every instance again.
TradeCreate(t, from, to, offered, requested) ==
    /\ trade[t] = NoTrade
    /\ offered # {} /\ requested # {}
    /\ \A a \in offered \cup requested : owner[a] # NoAccount
    /\ \A a \in offered \ requested : owner[a] = from
    /\ trade' = [trade EXCEPT ![t] = [from |-> from, to |-> to, offered |-> offered,
                                      requested |-> requested, status |-> "open"]]
    /\ UNCHANGED <<vars, request, swaps>>

Begin(h, does, t, caller) ==
    /\ request[h] = Idle
    /\ request' = [request EXCEPT ![h] = [does |-> does, trade |-> t,
                                          caller |-> caller, swapped |-> FALSE]]
    /\ UNCHANGED <<vars, trade, swaps>>

\* Mutant of AcceptRead: the addressee is not checked.
AcceptReadUnaddressed(h, t, acceptor) ==
    /\ IsOpenTrade(t)
    /\ trade[t].from # acceptor
    /\ Begin(h, "accept", t, acceptor)

AcceptRead(h, t, acceptor) ==
    /\ IsOpenTrade(t)
    /\ trade[t].to \in {Anyone, acceptor}
    /\ trade[t].from # acceptor
    /\ Begin(h, "accept", t, acceptor)

\* Mutant of CancelRead: a settled trade is accepted for cancelling.
CancelReadSettled(h, t, caller) ==
    /\ trade[t] # NoTrade
    /\ trade[t].from = caller
    /\ Begin(h, "cancel", t, caller)

CancelRead(h, t, caller) ==
    /\ IsOpenTrade(t)
    /\ trade[t].from = caller
    /\ Begin(h, "cancel", t, caller)

\* The swap checks owners and statuses of the instances again; the trade row
\* is not looked at again.
AcceptSwap(h) ==
    /\ request[h] # Idle
    /\ LET r == request[h]
           row == trade[r.trade]
       IN  /\ r.does = "accept" /\ ~r.swapped
           /\ SwapInstanceLists(row.offered, row.from, row.requested, r.caller)
           /\ swaps' = [swaps EXCEPT ![r.trade] = Append(@, r.caller)]
    /\ request' = [request EXCEPT ![h].swapped = TRUE]
    /\ UNCHANGED trade

\* Mutant of SaveTrade: the status is saved before the swap is done.
SaveTradeEarly(h) ==
    /\ request[h] # Idle
    /\ LET r == request[h]
       IN  trade' = [trade EXCEPT ![r.trade].status =
                        IF r.does = "accept" THEN "accepted" ELSE "cancelled"]
    /\ request' = [request EXCEPT ![h] = Idle]
    /\ UNCHANGED <<vars, swaps>>

\* save_trade overwrites whatever status the row has by now.
SaveTrade(h) ==
    /\ request[h] # Idle
    /\ LET r == request[h]
       IN  /\ r.does = "accept" => r.swapped
           /\ trade' = [trade EXCEPT ![r.trade].status =
                           IF r.does = "accept" THEN "accepted" ELSE "cancelled"]
    /\ request' = [request EXCEPT ![h] = Idle]
    /\ UNCHANGED <<vars, swaps>>

\* A refused swap or a failed read ends a request that has changed nothing; a
\* restart, or a save the database refuses, also one that has swapped.
RequestEnds(h) ==
    /\ request[h] # Idle
    /\ Restarts \/ ~request[h].swapped
    /\ request' = [request EXCEPT ![h] = Idle]
    /\ UNCHANGED <<vars, trade, swaps>>

CardTradeStep ==
    \/ \E t \in TradeId, from \in Account, to \in Account \cup {Anyone},
          offered, requested \in SUBSET Asset :
          TradeCreate(t, from, to, offered, requested)
    \/ \E h \in Handler, t \in TradeId, p \in Account : AcceptRead(h, t, p)
    \/ \E h \in Handler, t \in TradeId, p \in Account : CancelRead(h, t, p)
    \/ \E h \in Handler : AcceptSwap(h) \/ SaveTrade(h) \/ RequestEnds(h)

TradeNext == (MarketNext /\ UNCHANGED <<trade, request, swaps>>) \/ CardTradeStep

TradeSpec == TradeInit /\ [][TradeNext]_tradeVars

-----------------------------------------------------------------------------
TradeRowsOK ==
    /\ trade \in [TradeId -> TradeRow \cup {NoTrade}]
    /\ request \in [Handler -> Request \cup {Idle}]
    /\ swaps \in [TradeId -> Seq(Account)]

\* A trade that says accepted has moved its cards: nothing is recorded as
\* settled that was not (handle_trade_accept swaps first and saves second).
AcceptedMeansSwapped ==
    \A t \in TradeId : trade[t] # NoTrade /\ trade[t].status = "accepted" => swaps[t] # <<>>

\* A trade can pass through the hands of the offerer and of accounts the
\* offer admits only, whatever requests are in flight.
OnlyAdmittedAcceptors ==
    \A t \in TradeId : trade[t] # NoTrade => \A i \in DOMAIN swaps[t] :
        swaps[t][i] # trade[t].from /\ trade[t].to \in {Anyone, swaps[t][i]}

\* What a request in flight knows stays true of its row, whatever other
\* requests save meanwhile: parties and cards of an offer never change.
RequestsMatchRows ==
    \A h \in Handler : request[h] # Idle =>
        LET r == request[h]
            row == trade[r.trade]
        IN  /\ row # NoTrade
            /\ r.does = "accept" => row.from # r.caller /\ row.to \in {Anyone, r.caller}
            /\ r.swapped => swaps[r.trade] # <<>>

\* The inductive invariant of the trade table, its requests and the history.
TradeInv ==
    /\ TradeRowsOK
    /\ \A t \in TradeId : trade[t] = NoTrade => swaps[t] = <<>>
    /\ RequestsMatchRows
    /\ AcceptedMeansSwapped
    /\ OnlyAdmittedAcceptors

InFlight(t) == \E h \in Handler : request[h] # Idle /\ request[h].trade = t

\* Once a trade is accepted or cancelled and no request that read it open is
\* left, it is over for good: the row stays, and no card moves by it again.
QuietTradeIsFinal ==
    [][\A t \in TradeId :
          trade[t] # NoTrade /\ trade[t].status # "open" /\ ~InFlight(t) =>
             /\ ~InFlight(t)'
             /\ trade'[t] = trade[t] /\ swaps'[t] = swaps[t]]_tradeVars

\* What the comment in handle_trade_cancel says: "CAS: only open trades can be
\* cancelled (never rewrite a settled one)".
SettledNeverRewritten ==
    [][\A t \in TradeId : trade[t] # NoTrade /\ trade[t].status = "accepted" =>
          trade'[t] = trade[t]]_tradeVars
=============================================================================
