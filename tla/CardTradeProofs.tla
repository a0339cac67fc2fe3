-------------------------- MODULE CardTradeProofs --------------------------
(***************************************************************************)
(* Proofs about CardTrade.  Every step of a trade handler is a step of     *)
(* AssetMarket or leaves it alone, so all that is proved of the market     *)
(* holds with trades; and what a trade row says of its own past.           *)
(***************************************************************************)
EXTENDS CardTrade, AssetMarketProofs, TLAPS

LEMMA TradeRowType ==
    ASSUME TradeRowsOK, NEW t \in TradeId, trade[t] # NoTrade
    PROVE  /\ trade[t] \in TradeRow
           /\ trade[t].from \in Account
           /\ trade[t].to \in Account \cup {Anyone}
           /\ trade[t].offered \in SUBSET Asset
           /\ trade[t].requested \in SUBSET Asset
  BY DEF TradeRowsOK, TradeRow

LEMMA RequestType ==
    ASSUME TradeRowsOK, NEW h \in Handler, request[h] # Idle
    PROVE  /\ request[h] \in Request
           /\ request[h].trade \in TradeId
           /\ request[h].caller \in Account
  BY DEF TradeRowsOK, Request

LEMMA AppendFacts ==
    ASSUME NEW s \in Seq(Account), NEW p \in Account
    PROVE  /\ Append(s, p) \in Seq(Account)
           /\ Append(s, p) # <<>>
           /\ \A i \in DOMAIN Append(s, p) :
                 \/ i \in DOMAIN s /\ Append(s, p)[i] = s[i]
                 \/ Append(s, p)[i] = p
  OBVIOUS

\* Setting the status of a row keeps everything else of it.
LEMMA StatusUpdate ==
    ASSUME TradeRowsOK, NEW t \in TradeId, trade[t] # NoTrade,
           NEW s \in {"open", "accepted", "cancelled"},
           trade' = [trade EXCEPT ![t].status = s]
    PROVE  /\ trade' \in [TradeId -> TradeRow \cup {NoTrade}]
           /\ \A u \in TradeId : (trade'[u] = NoTrade) <=> (trade[u] = NoTrade)
           /\ \A u \in TradeId : trade[u] # NoTrade =>
                 trade'[u].from = trade[u].from /\ trade'[u].to = trade[u].to
           /\ trade'[t].status = s
           /\ \A u \in TradeId : u # t => trade'[u] = trade[u]
  <1>1. trade[t] \in TradeRow
    BY TradeRowType
  <1>2. trade'[t] = [trade[t] EXCEPT !.status = s] /\ \A u \in TradeId : u # t => trade'[u] = trade[u]
    BY DEF TradeRowsOK
  <1>3. trade'[t] \in TradeRow /\ trade'[t].status = s
        /\ trade'[t].from = trade[t].from /\ trade'[t].to = trade[t].to
    BY <1>1, <1>2 DEF TradeRow
  <1>4. trade'[t] # NoTrade
    BY <1>3, TradeAssumption
  <1>5. QED
    BY <1>2, <1>3, <1>4 DEF TradeRowsOK

-----------------------------------------------------------------------------
LEMMA TradeInitInv == TradeInit => TradeInv
  BY DEF TradeInit, TradeInv, TradeRowsOK, RequestsMatchRows, AcceptedMeansSwapped,
         OnlyAdmittedAcceptors

LEMMA TradeFrame ==
    ASSUME TradeInv, UNCHANGED <<trade, request, swaps>>
    PROVE  TradeInv'
  BY DEF TradeInv, TradeRowsOK, RequestsMatchRows, AcceptedMeansSwapped, OnlyAdmittedAcceptors

LEMMA TradeCreateInv ==
    ASSUME TradeInv, NEW t \in TradeId, NEW from \in Account, NEW to \in Account \cup {Anyone},
           NEW offered \in SUBSET Asset, NEW requested \in SUBSET Asset,
           TradeCreate(t, from, to, offered, requested)
    PROVE  TradeInv'
  <1> DEFINE row == [from |-> from, to |-> to, offered |-> offered,
                     requested |-> requested, status |-> "open"]
  <1>1. row \in TradeRow /\ row # NoTrade /\ row.status = "open"
    BY TradeAssumption DEF TradeCreate, TradeRow
  <1>2. /\ trade[t] = NoTrade /\ swaps[t] = <<>>
        /\ trade' = [trade EXCEPT ![t] = row]
        /\ UNCHANGED <<request, swaps>>
    BY DEF TradeCreate, TradeInv
  <1> HIDE DEF row
  <1>3. \A u \in TradeId : u # t => trade'[u] = trade[u]
    BY <1>2 DEF TradeInv, TradeRowsOK
  <1>4. trade'[t] = row
    BY <1>2 DEF TradeInv, TradeRowsOK
  <1>5. TradeRowsOK'
    BY <1>1, <1>2 DEF TradeInv, TradeRowsOK
  <1>6. \A u \in TradeId : trade'[u] = NoTrade => swaps'[u] = <<>>
    BY <1>2, <1>3 DEF TradeInv
  <1>7. RequestsMatchRows'
    <2>1. \A h \in Handler : request[h] # Idle => request[h].trade \in TradeId /\ request[h].trade # t
      BY <1>2, RequestType DEF TradeInv, RequestsMatchRows
    <2>2. QED
      BY <1>2, <1>3, <2>1 DEF TradeInv, RequestsMatchRows
  <1>8. AcceptedMeansSwapped'
    BY <1>1, <1>2, <1>3, <1>4 DEF TradeInv, AcceptedMeansSwapped
  <1>9. OnlyAdmittedAcceptors'
    BY <1>2, <1>3 DEF TradeInv, OnlyAdmittedAcceptors
  <1>10. QED
    BY <1>5, <1>6, <1>7, <1>8, <1>9 DEF TradeInv

\* Both reads record a request whose row and caller were just checked.
LEMMA BeginInv ==
    ASSUME TradeInv, NEW h \in Handler, NEW does \in {"accept", "cancel"}, NEW t \in TradeId,
           NEW p \in Account, Begin(h, does, t, p), IsOpenTrade(t),
           does = "accept" => trade[t].from # p /\ trade[t].to \in {Anyone, p}
    PROVE  TradeInv'
  <1> DEFINE r == [does |-> does, trade |-> t, caller |-> p, swapped |-> FALSE]
  <1>1. /\ r \in Request
        /\ r.does = does /\ r.trade = t /\ r.caller = p /\ r.swapped = FALSE
    BY DEF Request
  <1>2. request' = [request EXCEPT ![h] = r] /\ UNCHANGED <<trade, swaps>>
    BY DEF Begin
  <1> HIDE DEF r
  <1>3. TradeRowsOK'
    BY <1>1, <1>2 DEF TradeInv, TradeRowsOK
  <1>4. request'[h] = r /\ \A g \in Handler : g # h => request'[g] = request[g]
    BY <1>2 DEF TradeInv, TradeRowsOK
  <1>5. RequestsMatchRows'
    BY <1>1, <1>2, <1>4 DEF TradeInv, RequestsMatchRows, IsOpenTrade
  <1>6. QED
    BY <1>2, <1>3, <1>5 DEF TradeInv, AcceptedMeansSwapped, OnlyAdmittedAcceptors

LEMMA AcceptSwapInv ==
    ASSUME TradeInv, NEW h \in Handler, AcceptSwap(h)
    PROVE  TradeInv'
  <1> DEFINE t == request[h].trade
             p == request[h].caller
  <1>1. /\ t \in TradeId /\ p \in Account /\ request[h] \in Request
        /\ trade[t] # NoTrade /\ trade[t].from # p /\ trade[t].to \in {Anyone, p}
    BY RequestType DEF TradeInv, RequestsMatchRows, AcceptSwap
  <1>2. /\ swaps' = [swaps EXCEPT ![t] = Append(@, p)]
        /\ request' = [request EXCEPT ![h].swapped = TRUE]
        /\ trade' = trade
    BY DEF AcceptSwap
  <1>3. swaps \in [TradeId -> Seq(Account)] /\ request \in [Handler -> Request \cup {Idle}]
    BY DEF TradeInv, TradeRowsOK
  <1>4. /\ swaps'[t] = Append(swaps[t], p)
        /\ \A u \in TradeId : u # t => swaps'[u] = swaps[u]
    BY <1>1, <1>2, <1>3
  <1>5. /\ swaps'[t] # <<>>
        /\ swaps'[t] \in Seq(Account)
        /\ \A i \in DOMAIN swaps'[t] :
              \/ i \in DOMAIN swaps[t] /\ swaps'[t][i] = swaps[t][i]
              \/ swaps'[t][i] = p
    <2>1. swaps[t] \in Seq(Account)
      BY <1>1, <1>3
    <2>2. /\ Append(swaps[t], p) \in Seq(Account)
          /\ Append(swaps[t], p) # <<>>
          /\ \A i \in DOMAIN Append(swaps[t], p) :
                \/ i \in DOMAIN swaps[t] /\ Append(swaps[t], p)[i] = swaps[t][i]
                \/ Append(swaps[t], p)[i] = p
      BY <1>1, <2>1, AppendFacts
    <2>3. QED
      BY <1>4, <2>2, Zenon
  <1>6. /\ request'[h] \in Request /\ request'[h].trade = t /\ request'[h].caller = p
        /\ request'[h].does = request[h].does
        /\ \A g \in Handler : g # h => request'[g] = request[g]
    BY <1>1, <1>2, <1>3 DEF Request
  <1>7. TradeRowsOK'
    BY <1>2, <1>3, <1>4, <1>5, <1>6 DEF TradeInv, TradeRowsOK
  <1>8. \A u \in TradeId : trade'[u] = NoTrade => swaps'[u] = <<>>
    BY <1>1, <1>2, <1>4 DEF TradeInv
  <1>9. RequestsMatchRows'
    <2>1. ASSUME NEW g \in Handler, g # h, request[g] # Idle, request[g].swapped
          PROVE  swaps'[request[g].trade] # <<>>
      <3>1. request[g].trade \in TradeId /\ swaps[request[g].trade] # <<>>
        BY <2>1, RequestType DEF TradeInv, RequestsMatchRows
      <3>2. QED
        BY <1>4, <1>5, <3>1
    <2>2. QED
      BY <1>1, <1>2, <1>5, <1>6, <2>1 DEF TradeInv, RequestsMatchRows
  <1>10. AcceptedMeansSwapped'
    BY <1>2, <1>4, <1>5 DEF TradeInv, AcceptedMeansSwapped
  <1>11. OnlyAdmittedAcceptors'
    BY <1>1, <1>2, <1>4, <1>5 DEF TradeInv, OnlyAdmittedAcceptors
  <1>12. QED
    BY <1>7, <1>8, <1>9, <1>10, <1>11 DEF TradeInv

LEMMA SaveTradeInv ==
    ASSUME TradeInv, NEW h \in Handler, SaveTrade(h)
    PROVE  TradeInv'
  <1> DEFINE t == request[h].trade
             s == IF request[h].does = "accept" THEN "accepted" ELSE "cancelled"
  <1>1. t \in TradeId /\ trade[t] # NoTrade /\ request[h] # Idle
    BY RequestType DEF TradeInv, RequestsMatchRows, SaveTrade
  <1>2. /\ trade' = [trade EXCEPT ![t].status = s]
        /\ request' = [request EXCEPT ![h] = Idle]
        /\ swaps' = swaps
    BY DEF SaveTrade
  <1>3. s = "accepted" => swaps[t] # <<>>
    BY DEF TradeInv, RequestsMatchRows, SaveTrade
  <1>4. s \in {"open", "accepted", "cancelled"}
    OBVIOUS
  <1> HIDE DEF s, t
  <1>5. /\ trade' \in [TradeId -> TradeRow \cup {NoTrade}]
        /\ \A u \in TradeId : (trade'[u] = NoTrade) <=> (trade[u] = NoTrade)
        /\ \A u \in TradeId : trade[u] # NoTrade =>
              trade'[u].from = trade[u].from /\ trade'[u].to = trade[u].to
        /\ trade'[t].status = s
        /\ \A u \in TradeId : u # t => trade'[u] = trade[u]
    <2>1. ASSUME NEW u \in TradeId, NEW x \in {"open", "accepted", "cancelled"},
                 trade[u] # NoTrade, trade' = [trade EXCEPT ![u].status = x]
          PROVE  /\ trade' \in [TradeId -> TradeRow \cup {NoTrade}]
                 /\ \A v \in TradeId : (trade'[v] = NoTrade) <=> (trade[v] = NoTrade)
                 /\ \A v \in TradeId : trade[v] # NoTrade =>
                       trade'[v].from = trade[v].from /\ trade'[v].to = trade[v].to
                 /\ trade'[u].status = x
                 /\ \A v \in TradeId : v # u => trade'[v] = trade[v]
      BY <2>1, StatusUpdate DEF TradeInv
    <2>2. QED
      BY <1>1, <1>2, <1>4, <2>1
  <1>6. TradeRowsOK'
    BY <1>2, <1>5 DEF TradeInv, TradeRowsOK
  <1>7. \A g \in Handler : request'[g] # Idle => request'[g] = request[g]
    BY <1>2 DEF TradeInv, TradeRowsOK
  <1>8. RequestsMatchRows'
    <2>1. ASSUME NEW g \in Handler, request'[g] # Idle
          PROVE  LET r == request'[g]
                     row == trade'[r.trade]
                 IN  /\ row # NoTrade
                     /\ r.does = "accept" => row.from # r.caller /\ row.to \in {Anyone, r.caller}
                     /\ r.swapped => swaps'[r.trade] # <<>>
      <3>1. request'[g] = request[g] /\ request[g] # Idle /\ request[g].trade \in TradeId
        BY <1>7, <2>1, RequestType DEF TradeInv
      <3>2. QED
        BY <1>2, <1>5, <3>1 DEF TradeInv, RequestsMatchRows
    <2>2. QED
      BY <2>1 DEF RequestsMatchRows
  <1>9. AcceptedMeansSwapped'
    BY <1>2, <1>3, <1>5 DEF TradeInv, AcceptedMeansSwapped
  <1>10. OnlyAdmittedAcceptors'
    BY <1>2, <1>5 DEF TradeInv, OnlyAdmittedAcceptors
  <1>11. \A u \in TradeId : trade'[u] = NoTrade => swaps'[u] = <<>>
    BY <1>2, <1>5 DEF TradeInv
  <1>12. QED
    BY <1>6, <1>8, <1>9, <1>10, <1>11 DEF TradeInv

LEMMA RequestEndsInv ==
    ASSUME TradeInv, NEW h \in Handler, RequestEnds(h)
    PROVE  TradeInv'
  <1>1. request' = [request EXCEPT ![h] = Idle] /\ UNCHANGED <<trade, swaps>>
    BY DEF RequestEnds
  <1>2. \A g \in Handler : request'[g] # Idle => request'[g] = request[g]
    BY <1>1 DEF TradeInv, TradeRowsOK
  <1>3. TradeRowsOK'
    BY <1>1 DEF TradeInv, TradeRowsOK
  <1>4. RequestsMatchRows'
    BY <1>1, <1>2 DEF TradeInv, RequestsMatchRows
  <1>5. QED
    BY <1>1, <1>3, <1>4 DEF TradeInv, AcceptedMeansSwapped, OnlyAdmittedAcceptors

LEMMA TradeStepInv == TradeInv /\ [TradeNext]_tradeVars => TradeInv'
  <1> SUFFICES ASSUME TradeInv, [TradeNext]_tradeVars PROVE TradeInv'
    OBVIOUS
  <1>1. CASE UNCHANGED <<trade, request, swaps>>
    BY <1>1, TradeFrame
  <1>2. ASSUME NEW t \in TradeId, NEW from \in Account, NEW to \in Account \cup {Anyone},
               NEW offered \in SUBSET Asset, NEW requested \in SUBSET Asset,
               TradeCreate(t, from, to, offered, requested)
        PROVE  TradeInv'
    BY <1>2, TradeCreateInv
  <1>3. ASSUME NEW h \in Handler, NEW t \in TradeId, NEW p \in Account, AcceptRead(h, t, p)
        PROVE  TradeInv'
    BY <1>3, BeginInv DEF AcceptRead
  <1>4. ASSUME NEW h \in Handler, NEW t \in TradeId, NEW p \in Account, CancelRead(h, t, p)
        PROVE  TradeInv'
    BY <1>4, BeginInv DEF CancelRead
  <1>5. ASSUME NEW h \in Handler, AcceptSwap(h) \/ SaveTrade(h) \/ RequestEnds(h)
        PROVE  TradeInv'
    BY <1>5, AcceptSwapInv, SaveTradeInv, RequestEndsInv
  <1>6. QED
    BY <1>1, <1>2, <1>3, <1>4, <1>5 DEF TradeNext, CardTradeStep, tradeVars

\* Whatever requests are in flight and whenever the process restarts, a trade
\* that says accepted has moved its cards, and only admitted accounts ever
\* exchanged cards through it.
THEOREM TradeRowsTellTruth == TradeSpec => [](AcceptedMeansSwapped /\ OnlyAdmittedAcceptors)
  <1>1. TradeInit => TradeInv
    BY TradeInitInv
  <1>2. TradeInv /\ [TradeNext]_tradeVars => TradeInv'
    BY TradeStepInv
  <1>3. TradeInv => AcceptedMeansSwapped /\ OnlyAdmittedAcceptors
    BY DEF TradeInv
  <1>4. QED
    BY <1>1, <1>2, <1>3, PTL DEF TradeSpec

\* Whoever's accept was in flight when, cards move through an offer to the account
\* it names, or to anyone if it names none, and to nobody else.
THEOREM OnlyTheNamedAccept == TradeSpec => []OnlyAdmittedAcceptors
  <1>1. QED
    BY TradeRowsTellTruth, PTL

-----------------------------------------------------------------------------
(* The end of a trade *)

\* A trade that is over admits no new request.
LEMMA QuietStep ==
    ASSUME TradeInv, TradeNext, NEW t \in TradeId,
           trade[t] # NoTrade, trade[t].status # "open", ~InFlight(t)
    PROVE  ~InFlight(t)' /\ trade'[t] = trade[t] /\ swaps'[t] = swaps[t]
  <1> USE DEF InFlight
  <1>1. CASE UNCHANGED <<trade, request, swaps>>
    BY <1>1
  <1>2. ASSUME NEW u \in TradeId, NEW from \in Account, NEW to \in Account \cup {Anyone},
               NEW offered \in SUBSET Asset, NEW requested \in SUBSET Asset,
               TradeCreate(u, from, to, offered, requested)
        PROVE  ~InFlight(t)' /\ trade'[t] = trade[t] /\ swaps'[t] = swaps[t]
    <2>1. u # t /\ request' = request /\ swaps' = swaps
      BY <1>2 DEF TradeCreate
    <2>2. QED
      BY <1>2, <2>1 DEF TradeCreate, TradeInv, TradeRowsOK
  <1>3. ASSUME NEW h \in Handler, NEW u \in TradeId, NEW p \in Account,
               AcceptRead(h, u, p) \/ CancelRead(h, u, p)
        PROVE  ~InFlight(t)' /\ trade'[t] = trade[t] /\ swaps'[t] = swaps[t]
    <2>1. u # t /\ UNCHANGED <<trade, swaps>>
      BY <1>3 DEF AcceptRead, CancelRead, IsOpenTrade, Begin
    <2>2. \A g \in Handler : g # h => request'[g] = request[g]
      BY <1>3 DEF AcceptRead, CancelRead, Begin, TradeInv, TradeRowsOK
    <2>3. request'[h].trade = u
      BY <1>3 DEF AcceptRead, CancelRead, Begin, TradeInv, TradeRowsOK
    <2>4. QED
      BY <2>1, <2>2, <2>3
  <1>4. ASSUME NEW h \in Handler, AcceptSwap(h) \/ SaveTrade(h) \/ RequestEnds(h)
        PROVE  ~InFlight(t)' /\ trade'[t] = trade[t] /\ swaps'[t] = swaps[t]
    <2>1. request[h] # Idle /\ request[h].trade \in TradeId /\ request[h].trade # t
      BY <1>4, RequestType DEF TradeInv, AcceptSwap, SaveTrade, RequestEnds
    <2>2. trade'[t] = trade[t] /\ swaps'[t] = swaps[t]
      BY <1>4, <2>1 DEF AcceptSwap, SaveTrade, RequestEnds, TradeInv, TradeRowsOK
    <2>3. \A g \in Handler : g # h => request'[g] = request[g]
      BY <1>4 DEF AcceptSwap, SaveTrade, RequestEnds, TradeInv, TradeRowsOK
    <2>4. request'[h] = Idle \/ request'[h].trade = request[h].trade
      BY <1>4, <2>1, RequestType
      DEF AcceptSwap, SaveTrade, RequestEnds, TradeInv, TradeRowsOK, Request
    <2>5. QED
      BY <2>1, <2>2, <2>3, <2>4
  <1>5. QED
    BY <1>1, <1>2, <1>3, <1>4 DEF TradeNext, CardTradeStep

\* A trade that is accepted or cancelled, with no request left that read it
\* open, stays as it is and moves no more cards.
THEOREM TradesAreFinal == TradeSpec => QuietTradeIsFinal
  <1> DEFINE A == \A t \in TradeId :
          trade[t] # NoTrade /\ trade[t].status # "open" /\ ~InFlight(t) =>
             /\ ~InFlight(t)'
             /\ trade'[t] = trade[t] /\ swaps'[t] = swaps[t]
  <1>1. TradeInit => TradeInv
    BY TradeInitInv
  <1>2. TradeInv /\ [TradeNext]_tradeVars => TradeInv'
    BY TradeStepInv
  <1>3. TradeInv /\ [TradeNext]_tradeVars => [A]_tradeVars
    BY QuietStep
  <1>4. QED
    BY <1>1, <1>2, <1>3, PTL DEF TradeSpec, QuietTradeIsFinal

-----------------------------------------------------------------------------
(* The market under trades *)

LEMMA TradeStepIsMarketStep == TradeInv /\ [TradeNext]_tradeVars => [MarketNext]_vars
  <1> SUFFICES ASSUME TradeInv, [TradeNext]_tradeVars PROVE [MarketNext]_vars
    OBVIOUS
  <1>1. CASE UNCHANGED tradeVars
    BY <1>1 DEF tradeVars
  <1>2. CASE MarketNext
    BY <1>2
  <1>3. ASSUME NEW h \in Handler, AcceptSwap(h)
        PROVE  MarketNext
    <2> DEFINE row == trade[request[h].trade]
    <2>1. /\ row.offered \in SUBSET Asset /\ row.requested \in SUBSET Asset
          /\ row.from \in Account /\ request[h].caller \in Account
      BY <1>3, RequestType, TradeRowType DEF TradeInv, RequestsMatchRows, AcceptSwap
    <2>2. SwapInstanceLists(row.offered, row.from, row.requested, request[h].caller)
      BY <1>3 DEF AcceptSwap
    <2>3. PICK offered \in SUBSET Asset, requested \in SUBSET Asset, p \in Account, q \in Account :
              /\ offered = row.offered /\ requested = row.requested
              /\ p = row.from /\ q = request[h].caller
      BY <2>1
    <2>4. SwapInstanceLists(offered, p, requested, q)
      BY <2>2, <2>3 DEF SwapInstanceLists, ExchangeOwners
    <2>5. QED
      BY <2>4 DEF MarketNext, TradeStep
  <1>4. QED
    BY <1>1, <1>2, <1>3
    DEF TradeNext, CardTradeStep, TradeCreate, AcceptRead, CancelRead, Begin, SaveTrade, RequestEnds

\* The swap of a trade is the market's own, and the other steps leave the
\* market alone: what holds of the market holds with trades in it.
LEMMA MarketUnderTrades == TradeSpec => MarketSpec
  <1>1. TradeInit => TradeInv /\ MarketInit
    BY TradeInitInv DEF TradeInit
  <1>2. TradeInv /\ [TradeNext]_tradeVars => TradeInv' /\ [MarketNext]_vars
    BY TradeStepInv, TradeStepIsMarketStep
  <1>3. QED
    BY <1>1, <1>2, PTL DEF TradeSpec, MarketSpec

\* An open listing keeps its instance out of every trade, of those offered
\* before it too: swap_instance_lists looks at the status again, and under
\* MarketInv a listed instance passes no swap.
THEOREM TradesRespectListings == TradeSpec => []OpenListingReserves
  <1>1. QED
    BY MarketUnderTrades, ReservationsHold, PTL
=============================================================================
