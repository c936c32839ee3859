------------------------------- MODULE Symbols -------------------------------
(***************************************************************************)
(* The symbol universe and the search over it: app/data/universe, the       *)
(* SymbolRepository, app/search and their routes.  A refresh asks three     *)
(* listings one after the other and stores what it got in one transaction.  *)
(* The start-up seeds an empty table before the engine serves; then requests *)
(* may refresh at the same time, and the engine may be killed and start     *)
(* again.  Which symbols a query matches is given by constants.             *)
(***************************************************************************)
EXTENDS Naturals, Sequences, FiniteSets, SequencesExt, FiniteSetsExt, Lists

CONSTANTS
    Tasks,           \* tasks that may refresh; Seeder is the one of the start-up
    Seeder,
    NasdaqAnswers,   \* texts of nasdaqlisted.txt: sequences of lines
    OtherAnswers,    \* texts of otherlisted.txt
    KapAnswers,      \* companies KAP may answer: sequences of items
    Seed,            \* bist_seed.json: a sequence of [symbol, sector]
    Unreachable,     \* a listing that fails
    NoSector,
    Display,         \* symbol -> display symbol; "" stands for no symbol
    Ticker,          \* query -> the symbols whose ticker begins with it
    Named,           \* query -> the symbols whose name holds it
    SectorsOf,       \* query -> the sectors whose name holds it
    CountryKeys,     \* query -> the keys of _COUNTRY_EXCHANGES that match it, in order
    Order(_, _),     \* display symbols by length, then by the alphabet
    Alphabet(_, _),  \* display symbols by the alphabet
    Live,            \* query -> what each provider's own search finds, in order
    FewResults,      \* 5 in the code
    SearchLimit,     \* "limit" of the requests
    FacetLimit,      \* 6 in the code
    MaxRefreshes     \* bound: refreshes of a behaviour

Queries == DOMAIN Ticker
AllSymbols == DOMAIN Display

\* What the listings and the seed consist of.  The seed is a file of the
\* engine and names some share.
ListingLine == [symbol : AllSymbols, exchange : STRING, kind : STRING]
Company == [symbol : AllSymbols, active : BOOLEAN]
Entry == [symbol : AllSymbols, sector : STRING]
ASSUME SymAssumption ==
    /\ NasdaqAnswers \subseteq Seq(ListingLine) /\ OtherAnswers \subseteq Seq(ListingLine)
    /\ KapAnswers \subseteq Seq(Company)
    /\ Seed \in Seq(Entry) /\ Seed # <<>> /\ Seeder \in Tasks

VARIABLES
    table,      \* SymbolRow by primary key, for the symbols that have a row
    seeding,    \* ensure_seeded of the start-up: "new", "running", "done", or
                \* "failed", when it raises and the engine does not start
    refresh,    \* per task: how far its refresh is and what it has loaded
    refreshes   \* bounded counter

symVars == <<table, seeding, refresh, refreshes>>

NotRefreshing == [pc |-> "idle", us |-> <<>>, bist |-> <<>>]

-----------------------------------------------------------------------------
(* loaders.py.  A line is [symbol, exchange, kind]; its kind is "ok",       *)
(* "test", "odd" (too few columns, no symbol or one with "$") or "footer".  *)

_row(symbol, exchange, source, sector) ==
    [symbol |-> symbol, exchange |-> exchange, source |-> source, sector |-> sector]

\* The lines between the header and the footer.
_parse_pipe_table(lines) ==
    AtPlaces(lines, {i \in 2 .. Len(lines) : \A j \in 2 .. i : lines[j].kind # "footer"})

Listing(lines) ==
    LET rows == _parse_pipe_table(lines)
        listed == AtPlaces(rows, {i \in DOMAIN rows : rows[i].kind = "ok"})
    IN  [i \in DOMAIN listed |-> _row(listed[i].symbol, listed[i].exchange, "nasdaqtrader", NoSector)]

\* A listing that fails is left out.
load_us_symbols(nasdaq, other) ==
    (IF nasdaq = Unreachable THEN <<>> ELSE Listing(nasdaq))
    \o (IF other = Unreachable THEN <<>> ELSE Listing(other))

\* An item is [symbol, active]; "" stands for a missing stock code.  A code
\* counts as seen only once an active item has it.
load_bist_full(items) ==
    LET named(i) == items[i].active /\ items[i].symbol # ""
        keep(i) == named(i) /\ \A j \in 1 .. i - 1 : named(j) => items[j].symbol # items[i].symbol
        kept == AtPlaces(items, {i \in DOMAIN items : keep(i)})
    IN  [k \in DOMAIN kept |-> _row(kept[k].symbol, "BIST", "kap", NoSector)]

load_bist_symbols == [i \in DOMAIN Seed |-> _row(Seed[i].symbol, "BIST", "bist_seed", Seed[i].sector)]

-----------------------------------------------------------------------------
(* repositories.py                                                         *)

\* Every column is taken from the new row; of two rows of a symbol the later
\* one counts.
bulk_upsert(rows) ==
    LET new == {rows[i].symbol : i \in DOMAIN rows}
    IN  [s \in DOMAIN table \cup new |->
            IF s \in new THEN rows[Max({i \in DOMAIN rows : rows[i].symbol = s})] ELSE table[s]]

ByDisplay(a, b) == Order(Display[a], Display[b])

\* Ties that the ranks leave open are broken by the display symbol.
Ranked(q, a, b) ==
    LET exact(s) == Display[s] = q
        prefix(s) == s \in Ticker[q]
    IN  IF exact(a) # exact(b) THEN exact(a)
        ELSE IF prefix(a) # prefix(b) THEN prefix(a) ELSE ByDisplay(a, b)

\* search: SymbolRepository and SymbolUniverseService.
SearchLocal(q, limit) ==
    LET found == DOMAIN table \cap (Ticker[q] \cup Named[q])
    IN  Upto(limit, InOrder(found, {pair \in found \X found : Ranked(q, pair[1], pair[2])}))

SectorSymbols(sector) == {s \in DOMAIN table : table[s].sector = sector}
ExchangeSymbols(exchanges) == {s \in DOMAIN table : table[s].exchange \in exchanges}

\* ORDER BY display_symbol LIMIT.
Page(symbols, limit) ==
    Upto(limit, InOrder(symbols, {pair \in symbols \X symbols : Alphabet(Display[pair[1]], Display[pair[2]])}))

symbols_by_sector(sector, limit) == Page(SectorSymbols(sector), limit)
symbols_by_exchanges(exchanges, limit) == Page(ExchangeSymbols(exchanges), limit)

\* GROUP BY sector, the largest first; equals in some order.
search_sectors(q, limit) ==
    LET sectors == {x \in SectorsOf[q] : SectorSymbols(x) # {}}
        larger == {pair \in sectors \X sectors :
                    Cardinality(SectorSymbols(pair[1])) > Cardinality(SectorSymbols(pair[2]))}
    IN  Upto(limit, InOrder(sectors, larger))

-----------------------------------------------------------------------------
(* search: the local symbols, and the live ones when there are few         *)

\* MarketDataService.search: the providers in order.
market_search(q) == Firsts(Concat(Live[q]))

\* Mutant: a symbol that is known already is appended again.
search_symbols_Repeated(q, limit) ==
    LET local == SearchLocal(q, limit)
    IN  Upto(limit, IF Len(local) < FewResults THEN local \o market_search(q) ELSE local)

search_symbols(q, limit) ==
    LET local == SearchLocal(q, limit)
    IN  Upto(limit, IF Len(local) < FewResults THEN Firsts(local \o market_search(q)) ELSE local)

_COUNTRY_EXCHANGES ==
    [key \in {"united states", "us", "usa", "america", "turkey", "tr", "bist"} |->
        IF key \in {"turkey", "tr", "bist"}
        THEN [label |-> "Turkey", exchanges |-> {"BIST"}]
        ELSE [label |-> "United States", exchanges |-> {"NYSE", "NASDAQ", "AMEX"}]]

\* A label comes once, whichever of its keys match.
_matching_countries(q) ==
    Firsts([i \in DOMAIN CountryKeys[q] |-> _COUNTRY_EXCHANGES[CountryKeys[q][i]]])

\* The facets of a query, each with the number of its symbols (the sample of
\* three is left out); no loader knows an industry, so there is no facet of
\* that kind.
_search_facets(q, limit) ==
    LET Facet(kind, label, symbols) == [kind |-> kind, label |-> label, count |-> Cardinality(symbols)]
        labels == search_sectors(q, limit)
        lands == AtPlaces(_matching_countries(q), {i \in DOMAIN _matching_countries(q) :
                            ExchangeSymbols(_matching_countries(q)[i].exchanges) # {}})
        sectors == [i \in DOMAIN labels |-> Facet("sector", labels[i], SectorSymbols(labels[i]))]
        countries == [i \in DOMAIN lands |-> Facet("country", lands[i].label, ExchangeSymbols(lands[i].exchanges))]
    IN  Upto(limit, sectors \o countries)

\* symbols_for_facet: a country is found by its label or by a key.
_country_exchanges(label) ==
    LET keys == {k \in DOMAIN _COUNTRY_EXCHANGES : k = label \/ _COUNTRY_EXCHANGES[k].label = label}
    IN  IF keys = {} THEN {} ELSE _COUNTRY_EXCHANGES[CHOOSE k \in keys : TRUE].exchanges

symbols_for_facet(kind, label, limit) ==
    CASE kind = "sector" -> symbols_by_sector(label, limit)
      [] kind = "country" -> symbols_by_exchanges(_country_exchanges(label), limit)
      [] OTHER -> <<>>

\* What the constants say of a query: a ticker begins with itself, and the
\* orders of the display symbols are orders.
ASSUME SearchAssumption ==
    /\ FewResults \in Nat /\ SearchLimit \in Nat /\ FacetLimit \in Nat
    /\ \A q \in Queries :
        /\ Ticker[q] \subseteq AllSymbols /\ Named[q] \subseteq AllSymbols
        /\ \A s \in AllSymbols : Display[s] = q => s \in Ticker[q]
        /\ Live[q] \in Seq(Seq(STRING))
        /\ SectorsOf[q] \subseteq STRING /\ IsFiniteSet(SectorsOf[q])
        /\ CountryKeys[q] \in Seq(DOMAIN _COUNTRY_EXCHANGES)
    /\ \A a, b, c \in AllSymbols :
        /\ ~ByDisplay(a, a) /\ (ByDisplay(a, b) /\ ByDisplay(b, c) => ByDisplay(a, c))
        /\ LET Less(x, y) == Alphabet(Display[x], Display[y])
           IN  ~Less(a, a) /\ (Less(a, b) /\ Less(b, c) => Less(a, c))

-----------------------------------------------------------------------------
(* refresh and ensure_seeded                                               *)

BeginRefresh(t) ==
    /\ refresh[t].pc = "idle" /\ refreshes < MaxRefreshes
    /\ refreshes' = refreshes + 1
    /\ refresh' = [refresh EXCEPT ![t].pc = "us"]

\* POST /symbols/refresh, once the engine serves.
PostRefresh(t) == t # Seeder /\ seeding = "done" /\ BeginRefresh(t) /\ UNCHANGED <<table, seeding>>

\* ensure_seeded: only an empty table is seeded.
StartSeeding ==
    /\ seeding = "new"
    /\ IF DOMAIN table # {} THEN seeding' = "done" /\ UNCHANGED <<refresh, refreshes>>
       ELSE seeding' = "running" /\ BeginRefresh(Seeder)
    /\ UNCHANGED table

LoadUs(t) ==
    /\ refresh[t].pc = "us"
    /\ \E nasdaq \in NasdaqAnswers \cup {Unreachable}, other \in OtherAnswers \cup {Unreachable} :
        refresh' = [refresh EXCEPT ![t].us = load_us_symbols(nasdaq, other), ![t].pc = "bist"]
    /\ UNCHANGED <<table, seeding, refreshes>>

Ended(t) == refresh' = [refresh EXCEPT ![t] = NotRefreshing]

\* What was raised ends a request with 500.  ensure_seeded stores the seed
\* alone; when that raises too, so does the start-up.
\* Mutant: it only logs the failure.
RefreshRaises_NoSeed(t) ==
    /\ Ended(t) /\ UNCHANGED table
    /\ seeding' = IF t = Seeder THEN "done" ELSE seeding

RefreshRaises(t) ==
    /\ Ended(t)
    /\ IF t # Seeder THEN UNCHANGED <<table, seeding>>
       ELSE \/ table' = bulk_upsert(load_bist_symbols) /\ seeding' = "done"
            \/ UNCHANGED table /\ seeding' = "failed"

\* KAP answers a list, fails, answers no list, or an item of it cannot be read,
\* which raises.  Without a company the seed is taken.
LoadBist(t) ==
    /\ refresh[t].pc = "bist"
    /\ \/ \E items \in KapAnswers \cup {<<>>} :
            /\ refresh' = [refresh EXCEPT ![t].pc = "store", ![t].bist =
                    IF load_bist_full(items) = <<>> THEN load_bist_symbols ELSE load_bist_full(items)]
            /\ UNCHANGED <<table, seeding>>
       \/ RefreshRaises(t)
    /\ UNCHANGED refreshes

\* One transaction for all batches: a failure (a locked database) rolls all back.
StoreUniverse(t) ==
    /\ refresh[t].pc = "store"
    /\ \/ /\ Ended(t)
          /\ table' = bulk_upsert(refresh[t].us \o refresh[t].bist)
          /\ seeding' = IF t = Seeder THEN "done" ELSE seeding
       \/ RefreshRaises(t)
    /\ UNCHANGED refreshes

\* The engine is killed, or could not start, and is started again.
Relaunch ==
    /\ seeding # "new"
    /\ seeding' = "new" /\ refresh' = [t \in Tasks |-> NotRefreshing]
    /\ UNCHANGED <<table, refreshes>>

SymInit ==
    /\ table = [s \in {} |-> NoSector] /\ seeding = "new"
    /\ refresh = [t \in Tasks |-> NotRefreshing] /\ refreshes = 0

SymNext ==
    \/ StartSeeding \/ Relaunch
    \/ \E t \in Tasks : PostRefresh(t) \/ LoadUs(t) \/ LoadBist(t) \/ StoreUniverse(t)

SymSpec == SymInit /\ [][SymNext]_symVars

-----------------------------------------------------------------------------
(* Properties                                                              *)

TradedIn(items) == {items[i].symbol : i \in {j \in DOMAIN items : items[j].active}} \ {""}

\* The universe holds every share of the seed, or every company that KAP has
\* listed as traded.
FullySeeded ==
    \/ \A i \in DOMAIN Seed : Seed[i].symbol \in DOMAIN table
    \/ \E items \in KapAnswers : TradedIn(items) # {} /\ TradedIn(items) \subseteq DOMAIN table

\* An engine that serves has a fully seeded universe, whichever source or
\* transaction failed.  A table with a single symbol counts as seeded at every
\* later start (count() > 0), so none may ever hold less, also after a kill
\* inside a refresh.
SeededOffline == seeding = "done" \/ DOMAIN table # {} => FullySeeded

\* What KAP lists as traded is loaded exactly once, also when it lists the
\* company a second time as not traded.
TradedListedOnce ==
    \A items \in KapAnswers :
        LET rows == load_bist_full(items)
        IN  /\ {rows[i].symbol : i \in DOMAIN rows} = TradedIn(items)
            /\ \A i, j \in DOMAIN rows : rows[i].symbol = rows[j].symbol => i = j

\* A ticker typed in full comes first, tickers before names, whatever the
\* limit cuts off, and no symbol comes twice although the live search finds
\* some of the local ones too.
ExactTickerFirst ==
    \A q \in Queries, limit \in 1 .. SearchLimit :
        LET found == search_symbols(q, limit)
        IN  /\ \A i, j \in DOMAIN found : found[i] = found[j] => i = j
            /\ (\E s \in DOMAIN table \cap Ticker[q] : Display[s] = q) => Display[found[1]] = q
            /\ DOMAIN table \cap Ticker[q] # {} => found[1] \in Ticker[q]

\* A facet is offered once, and a request for it (as long as nothing is stored
\* in between) answers as many symbols as it counts or as the page holds.
FacetsLeadSomewhere ==
    \A q \in Queries, limit \in 1 .. SearchLimit :
        LET facets == _search_facets(q, FacetLimit)
        IN  \A i \in DOMAIN facets :
                LET page == symbols_for_facet(facets[i].kind, facets[i].label, limit)
                IN  /\ page # <<>> /\ IsInjective(page)
                    /\ Len(page) = IF facets[i].count < limit THEN facets[i].count ELSE limit
                    /\ \A j \in 1 .. i - 1 : <<facets[j].kind, facets[j].label>> # <<facets[i].kind, facets[i].label>>

\* The universe holds what its sources list, and something when all fail.
UniverseSound ==
    /\ SeededOffline
    /\ TradedListedOnce

\* A search finds first what was typed, and its facets lead to symbols.
SearchSound ==
    /\ ExactTickerFirst
    /\ FacetsLeadSomewhere
=============================================================================
