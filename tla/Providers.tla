------------------------------ MODULE Providers ------------------------------
(***************************************************************************)
(* The market data adapters and how they are chained: app/data/factory.py,  *)
(* the Finnhub and yfinance adapters, and the parts of MarketDataService    *)
(* that have no cache.  Replies of the two services are external: a field   *)
(* is missing, not a number, or a small integer.                            *)
(***************************************************************************)
EXTENDS Integers, Sequences, FiniteSets, SequencesExt, Lists

CONSTANTS
    BistSymbols, UsSymbols,
    Numbers,        \* values of a field that are numbers, 0 among them
    NotFinite,      \* NaN, infinity or text in a field
    None,           \* no value
    Failed,         \* the service cannot be reached, limits, or answers an error
    OrdersStored    \* orders get_provider_order may return

\* Prices are numbers; "no value" and what is no number are none of them, and a
\* quote is not "no quote".
ASSUME ProvAssumption ==
    /\ Numbers \subseteq Int /\ None \notin Int /\ NotFinite \notin Numbers \cup {None}
    /\ None \notin [source : {"finnhub", "yfinance"}, price : Int \cup {None},
                     previous : Int \cup {None}, change : Int \cup {None}]
    /\ OrdersStored \subseteq Seq(STRING)

Fields == Numbers \cup {NotFinite, None}
AnySymbol == BistSymbols \cup UsSymbols

\* A /quote of Finnhub; fast_info of yfinance, info (which fails, or comes back
\* empty, by itself), and the daily bars.
FinnhubReplies == {Failed} \cup [c : Fields, pc : {None, 1}, d : {None, 1}]
Infos == [price : {None, 0, 2}, previous : {None, 0, 1}]
YahooReplies == {Failed} \cup [price : Fields, previous : {None, 0, 1}, info : {Failed} \cup Infos, bars : 0 .. 1]

VARIABLES
    adapters,       \* names of the adapters in their order
    clients,        \* Finnhub clients that were opened: closeables
    asked           \* the last request: its symbol, the replies and the answers

provVars == <<adapters, clients, asked>>

-----------------------------------------------------------------------------
(* factory.py                                                              *)

\* Mutant: yfinance is not added to an order without it.
build_market_data_service_AsOrdered(order, key) ==
    AtPlaces(order, {i \in DOMAIN order : order[i] = "yfinance" \/ key})

build_market_data_service(order, key) ==
    LET chosen == AtPlaces(order, {i \in DOMAIN order : order[i] = "yfinance" \/ key})
    IN  IF "yfinance" \in ToSet(chosen) THEN chosen ELSE Append(chosen, "yfinance")

-----------------------------------------------------------------------------
(* The adapters                                                            *)

_clean(value) == IF value = NotFinite THEN None ELSE value

\* "a or b": 0 counts as missing.
Or(a, b) == IF a \in {None, 0} THEN b ELSE a

_is_bist(symbol) == symbol \in BistSymbols

Quote(source, price, previous, change) ==
    [source |-> source, price |-> price, previous |-> previous, change |-> change]

\* FinnhubAdapter.get_quote.  A price of 0, with which Finnhub answers for a
\* symbol that it does not know, is a price.
finnhub_quote(symbol, reply) ==
    IF _is_bist(symbol) \/ reply = Failed THEN None
    ELSE IF _clean(reply.c) = None THEN None
    ELSE Quote("finnhub", reply.c, reply.pc, reply.d)

\* YFinanceAdapter._get_quote_sync: price and previous close of fast_info, else
\* of info; a change only against a previous close other than 0.
InfoOf(reply) == IF reply.info = Failed THEN [price |-> None, previous |-> None] ELSE reply.info

_get_quote_sync(reply) ==
    IF reply = Failed THEN None
    ELSE LET price == Or(_clean(reply.price), InfoOf(reply).price)
             previous == Or(reply.previous, InfoOf(reply).previous)
         IN  IF price = None /\ previous = None THEN None
             ELSE Quote("yfinance", price, previous,
                        IF price = None \/ previous \in {None, 0} THEN None ELSE price - previous)

\* get_history: Finnhub has none; a bar whose fields are no numbers is kept
\* with zeros.
history_of(name, yahoo) ==
    IF name = "finnhub" \/ yahoo = Failed THEN <<>> ELSE [i \in 1 .. yahoo.bars |-> i]

-----------------------------------------------------------------------------
(* service.py                                                              *)

quote_of(name, symbol, finnhub, yahoo) ==
    IF name = "finnhub" THEN finnhub_quote(symbol, finnhub) ELSE _get_quote_sync(yahoo)

\* The first adapter that answers.
get_quote(symbol, finnhub, yahoo) ==
    LET found == {i \in DOMAIN adapters : quote_of(adapters[i], symbol, finnhub, yahoo) # None}
    IN  IF found = {} THEN None
        ELSE quote_of(adapters[CHOOSE i \in found : \A j \in found : i <= j], symbol, finnhub, yahoo)

_fetch_history(yahoo) ==
    LET found == {i \in DOMAIN adapters : history_of(adapters[i], yahoo) # <<>>}
    IN  IF found = {} THEN <<>> ELSE history_of(adapters[CHOOSE i \in found : \A j \in found : i <= j], yahoo)

\* The process starts; a key that is set opens a client.
BuildService ==
    /\ adapters = <<>>
    /\ \E order \in OrdersStored, key \in BOOLEAN :
        /\ adapters' = build_market_data_service(order, key)
        /\ clients' = Cardinality({i \in DOMAIN order : order[i] = "finnhub" /\ key})
    /\ UNCHANGED asked

\* A request leaves nothing behind, so one of each kind is enough.
Ask ==
    /\ adapters # <<>> /\ asked = None
    /\ \E symbol \in AnySymbol, finnhub \in FinnhubReplies, yahoo \in YahooReplies :
        asked' = [symbol |-> symbol, finnhub |-> finnhub, yahoo |-> yahoo,
                  quote |-> get_quote(symbol, finnhub, yahoo), history |-> _fetch_history(yahoo)]
    /\ UNCHANGED <<adapters, clients>>

ProvInit == adapters = <<>> /\ clients = 0 /\ asked = None

ProvNext == BuildService \/ Ask

ProvSpec == ProvInit /\ [][ProvNext]_provVars

-----------------------------------------------------------------------------
(* Properties                                                              *)

\* A share of Borsa Istanbul never shows the price of a US share that Finnhub
\* knows under the same name.
BistFromYahooOnly ==
    asked # None => (asked.symbol \in BistSymbols /\ asked.quote # None => asked.quote.source = "yfinance")

\* Whatever order is stored and whether there is a key: history is served
\* whenever yfinance has it.
HistoryAlwaysReachable ==
    asked # None => (asked.yahoo # Failed => Len(asked.history) = asked.yahoo.bars)

\* Where yfinance has a price other than 0, in fast_info or in info, the chain
\* serves one, whatever else is missing, 0 or fails; it is 0 only where Finnhub,
\* asked first, said so.
HasPrice(yahoo) == yahoo.price \in Numbers \ {0} \/ InfoOf(yahoo).price \notin {None, 0}

PriceNotLost ==
    asked # None /\ asked.yahoo # Failed =>
        (HasPrice(asked.yahoo) =>
            /\ asked.quote # None /\ asked.quote.price # None
            /\ asked.quote.price = 0 => asked.quote.source = "finnhub" /\ asked.finnhub.c = 0)

\* The chain of providers serves what one of them has, and of the right share.
QuotesSound ==
    /\ BistFromYahooOnly
    /\ HistoryAlwaysReachable
    /\ PriceNotLost
=============================================================================
