------------------------------ MODULE Portfolio ------------------------------
(***************************************************************************)
(* Holdings and their profit and loss: app/portfolio and its routes.  The    *)
(* summary reads the holdings, awaits a quote of each symbol and computes;  *)
(* holdings are added, changed and deleted meanwhile.  Amounts are small    *)
(* integers; ratios are left out but for their sign.                        *)
(***************************************************************************)
EXTENDS Integers, Sequences, FiniteSets, Lists

CONSTANTS
    Shares,         \* symbols a user may hold
    Lots,           \* bodies of POST and PUT: [quantity, cost, currency], each maybe NoField
    NoField,        \* a field that is not in the body, or null
    Upper,          \* currency as typed -> in capitals
    Prices,         \* prices of a quote
    NoPrice,        \* no quote, or a quote without a price
    MaxLots         \* bound: lots ever added

\* A row; its currency is in capitals, whatever was typed.
Holding == [symbol : Shares, quantity : Int, cost : Int, currency : {Upper[c] : c \in DOMAIN Upper}]

\* A body's fields are numbers and a text, or not there; a text in capitals is
\* its own capitals; "nothing" is no number, and no row.
ASSUME PortAssumption ==
    /\ Lots \subseteq [quantity : Int \cup {NoField}, cost : Int \cup {NoField},
                      currency : DOMAIN Upper \cup {NoField}]
    /\ \A c \in DOMAIN Upper : Upper[c] \in DOMAIN Upper /\ Upper[Upper[c]] = Upper[c]
    /\ "USD" \in DOMAIN Upper /\ Upper["USD"] = "USD"
    /\ Prices \subseteq Int /\ NoPrice \notin Int /\ NoField \notin Holding

VARIABLES
    holdings,       \* HoldingRow by id; deleted rows are NoField
    summary,        \* the request in progress: its holdings, then its quotes
    answered        \* the answer to a summary, until the next request

portVars == <<holdings, summary, answered>>

NoSummary == [pc |-> "idle", holdings |-> <<>>]
NoAnswer == [positions |-> <<>>, totals |-> {}, quotes |-> <<>>]

-----------------------------------------------------------------------------
(* CRUD, a transaction each                                                *)

\* add: an empty currency is USD.
add(symbol, lot) ==
    [symbol |-> symbol, quantity |-> lot.quantity, cost |-> lot.cost,
     currency |-> IF lot.currency \in {NoField, ""} THEN "USD" ELSE Upper[lot.currency]]

AddHolding ==
    /\ Len(holdings) < MaxLots
    /\ \E s \in Shares, lot \in {l \in Lots : l.quantity # NoField /\ l.cost # NoField} :
        holdings' = Append(holdings, add(s, lot))
    /\ answered' = NoAnswer
    /\ UNCHANGED summary

\* update: the fields of the body that are set; an empty currency is stored.
\* A null for a column that must have a value raises and changes nothing.
update(row, lot) ==
    [row EXCEPT !.quantity = IF lot.quantity = NoField THEN @ ELSE lot.quantity,
                !.cost = IF lot.cost = NoField THEN @ ELSE lot.cost,
                !.currency = IF lot.currency = NoField THEN @ ELSE Upper[lot.currency]]

UpdateHolding ==
    /\ \E i \in DOMAIN holdings, lot \in Lots :
        holdings[i] # NoField /\ holdings' = [holdings EXCEPT ![i] = update(@, lot)]
    /\ answered' = NoAnswer
    /\ UNCHANGED summary

DeleteHolding ==
    /\ \E i \in DOMAIN holdings : holdings[i] # NoField /\ holdings' = [holdings EXCEPT ![i] = NoField]
    /\ answered' = NoAnswer
    /\ UNCHANGED summary

-----------------------------------------------------------------------------
(* The summary                                                             *)

\* position_from: a holding whose symbol has no price has a cost only.
position_from(holding, price) ==
    LET basis == holding.cost * holding.quantity
    IN  [holding |-> holding, basis |-> basis,
         value |-> IF price = NoPrice THEN NoPrice ELSE price * holding.quantity,
         pnl |-> IF price = NoPrice THEN NoPrice ELSE price * holding.quantity - basis]

\* What a currency adds up to: a position of another, or without a price, adds
\* nothing.
total(positions, c) ==
    LET In(i) == positions[i].holding.currency = c
        Known(v) == IF v = NoPrice THEN 0 ELSE v
    IN  [currency |-> c,
         basis |-> ListSum([i \in DOMAIN positions |-> IF In(i) THEN positions[i].basis ELSE 0]),
         value |-> ListSum([i \in DOMAIN positions |-> IF In(i) THEN Known(positions[i].value) ELSE 0]),
         pnl |-> ListSum([i \in DOMAIN positions |-> IF In(i) THEN Known(positions[i].pnl) ELSE 0])]

summarize(positions) == {total(positions, c) : c \in {positions[i].holding.currency : i \in DOMAIN positions}}

\* list(): the rows that there are, by id.  The code has those of a symbol next
\* to each other; no sum or price depends on the order.
Rows == AtPlaces(holdings, {i \in DOMAIN holdings : holdings[i] # NoField})

\* list() of get_portfolio; then the quotes are awaited.
ReadHoldings ==
    /\ summary.pc = "idle"
    /\ summary' = [pc |-> "quotes", holdings |-> Rows]
    /\ answered' = NoAnswer
    /\ UNCHANGED holdings

Positions(held, asked, quotes) ==
    [i \in DOMAIN held |-> position_from(held[i], IF held[i].symbol \in asked THEN quotes[held[i].symbol] ELSE NoPrice)]

\* The quotes of the symbols that were asked for; one that fails is NoPrice.
\* Mutant: the holdings are read again after the quotes.
AnswerPortfolio_Reread ==
    /\ summary.pc = "quotes"
    /\ \E quotes \in [Shares -> Prices \cup {NoPrice}] :
        LET asked == {summary.holdings[i].symbol : i \in DOMAIN summary.holdings}
            positions == Positions(Rows, asked, quotes)
        IN  answered' = [positions |-> positions, totals |-> summarize(positions), quotes |-> quotes]
    /\ summary' = NoSummary
    /\ UNCHANGED holdings

AnswerPortfolio ==
    /\ summary.pc = "quotes"
    /\ \E quotes \in [Shares -> Prices \cup {NoPrice}] :
        LET asked == {summary.holdings[i].symbol : i \in DOMAIN summary.holdings}
            positions == Positions(summary.holdings, asked, quotes)
        IN  answered' = [positions |-> positions, totals |-> summarize(positions), quotes |-> quotes]
    /\ summary' = NoSummary
    /\ UNCHANGED holdings

PortInit == holdings = <<>> /\ summary = NoSummary /\ answered = NoAnswer

PortNext == AddHolding \/ UpdateHolding \/ DeleteHolding \/ ReadHoldings \/ AnswerPortfolio

PortSpec == PortInit /\ [][PortNext]_portVars

-----------------------------------------------------------------------------
(* Properties                                                              *)

\* However the holdings change while the quotes are awaited, a position has no
\* price only if the quote of its own symbol has none.
PricedIfQuoted ==
    \A i \in DOMAIN answered.positions :
        LET p == answered.positions[i]
        IN  p.value = NoPrice <=> answered.quotes[p.holding.symbol] = NoPrice

\* The totals divide the positions by currency: no position counts under two
\* currencies or under another than its own, whichever quotes are missing; the
\* profit is the value less the cost of what has a price.
TotalsDivide ==
    /\ \A t \in answered.totals :
        LET own == {i \in DOMAIN answered.positions : answered.positions[i].holding.currency = t.currency}
            priced == {i \in own : answered.positions[i].value # NoPrice}
            CostOf(S) == ListSum([i \in DOMAIN answered.positions |-> IF i \in S THEN answered.positions[i].basis ELSE 0])
        IN  /\ t.basis = CostOf(own)
            /\ t.pnl = t.value - CostOf(priced)
            /\ \A u \in answered.totals : u.currency = t.currency => u = t
    /\ \A i \in DOMAIN answered.positions :
        \E t \in answered.totals : t.currency = answered.positions[i].holding.currency

\* No lots of one currency are totalled apart because of how it was typed.
CurrenciesMerged ==
    \A t, u \in answered.totals : Upper[t.currency] = Upper[u.currency] => t.currency = u.currency
\* The summary's prices and totals are those of the holdings it shows.
PortfolioSound ==
    /\ PricedIfQuoted
    /\ TotalsDivide
    /\ CurrenciesMerged
=============================================================================
