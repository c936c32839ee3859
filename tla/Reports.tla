------------------------------- MODULE Reports -------------------------------
(***************************************************************************)
(* Scheduled and requested reports: app/scheduler (service, runner, summary, *)
(* watch_digest) and its routes.  A report is generated by a cron job, by a  *)
(* POST, or by a GET that finds none; the generation awaits quotes, the AI   *)
(* provider and the clients, so generations interleave.  Symbols, headlines  *)
(* and texts are tokens; a quote keeps its price and its daily move.         *)
(***************************************************************************)
EXTENDS Integers, Sequences, FiniteSets, SequencesExt, Lists

CONSTANTS
    Workers,            \* tasks of the engine that may generate at once
    Morning,            \* report kinds that are morning summaries
    Benchmarks,         \* the benchmarks of a region, in order
    WatchlistSymbols,   \* the watchlists: a sequence of sequences of symbols
    HoldingSymbols,     \* symbols of the portfolio, in order
    Markets,            \* states of the market: symbol -> quote
    NoQuote,            \* no provider and no snapshot has a quote
    Missing,            \* a field of a quote, or a text, that is missing
    DigestLimit,        \* 8 in the code
    MaxReports,         \* bound: stored reports
    MaxClock            \* bound: instants of the wall clock

Digest == "stocks_to_watch"
Kinds == Morning \cup {Digest}

VARIABLES
    stored,       \* ScheduledReportRow, in the order of their ids; "at" is created_at;
                  \* "origin", what asked for the report, and "asked", how many were
                  \* stored by then, are kept for the properties only
    broadcasts,   \* frames of type "report" sent by the hub: indexes in stored
    work,         \* per worker: what it generates and how far it is
    served,       \* the row that a GET answered since the table last changed, or 0
    scheduler,    \* "new", "running", "stopped"
    clock,        \* utcnow(), coarse enough for two readings to agree
    setBack       \* whether the clock was set back

rptVars == <<stored, broadcasts, work, served, scheduler, clock, setBack>>
rptClock == <<clock, setBack>>

RptIdle == [pc |-> "idle", kind |-> Missing, origin |-> Missing, asked |-> 0, report |-> Missing, generated_at |-> 0]

RptBusy(w) == work[w].pc # "idle"

-----------------------------------------------------------------------------
(* summary.py                                                              *)

AbsOf(n) == IF n < 0 THEN -n ELSE n

Quoted(symbols, market) == AtPlaces(symbols, {i \in DOMAIN symbols : market[symbols[i]] # NoQuote})
HasChange(market, s) == market[s].change # Missing

\* Symbols by the size of their move, largest first; equals keep their order
\* (Python's sort is stable, also when reversed).
LargerMove(size) ==
    {pair \in (DOMAIN size) \X (DOMAIN size) :
        \/ size[pair[1]] > size[pair[2]]
        \/ size[pair[1]] = size[pair[2]] /\ pair[1] < pair[2]}

ByMove(symbols, size) ==
    LET sorted == InOrder(DOMAIN symbols, LargerMove(size))
    IN  [k \in DOMAIN sorted |-> symbols[sorted[k]]]

\* The deterministic text: the leader of the benchmarks and what moved.
_template_overview(benchmarks, market) ==
    LET moving == AtPlaces(benchmarks, {i \in DOMAIN benchmarks : HasChange(market, benchmarks[i])})
        size == [i \in DOMAIN moving |-> AbsOf(market[moving[i]].change)]
    IN  IF moving = <<>> THEN [overview |-> "no data", highlights |-> <<>>]
        ELSE [overview |-> ByMove(moving, size)[1], highlights |-> moving]

\* The AI's answer: "good", prose around its JSON that _strip_json takes off,
\* JSON without an overview, no JSON at all, or an exception.
AiAnswers == {"good", "in prose", "no overview", "no json", "failed"}

\* Mutant: an answer without an overview counts.
_ai_enhance_AnyJson(answer) ==
    IF answer \in {"good", "in prose"} THEN [overview |-> "ai", highlights |-> <<"ai">>]
    ELSE IF answer = "no overview" THEN [overview |-> Missing, highlights |-> <<>>] ELSE Missing

_ai_enhance(answer) ==
    IF answer \in {"good", "in prose"} THEN [overview |-> "ai", highlights |-> <<"ai">>] ELSE Missing

build_morning_summary(market, hasProvider, answer) ==
    LET benchmarks == Quoted(Benchmarks, market)
        enhanced == IF hasProvider THEN _ai_enhance(answer) ELSE Missing
        text == IF enhanced # Missing THEN enhanced ELSE _template_overview(benchmarks, market)
    IN  [market |-> market, symbols |-> benchmarks, overview |-> text.overview,
         highlights |-> text.highlights, ai_enhanced |-> enhanced # Missing]

-----------------------------------------------------------------------------
(* watch_digest.py                                                         *)

_collect_symbols == Firsts(Concat(WatchlistSymbols) \o HoldingSymbols)

build_stocks_to_watch(market) ==
    LET quoted == Quoted(_collect_symbols, market)
        priced == AtPlaces(quoted, {i \in DOMAIN quoted : market[quoted[i]].price # Missing})
        size == [i \in DOMAIN priced |-> IF HasChange(market, priced[i]) THEN AbsOf(market[priced[i]].change) ELSE 0]
        picks == Upto(DigestLimit, ByMove(priced, size))
        top == IF picks = <<>> THEN "add symbols"
               ELSE IF HasChange(market, picks[1]) THEN picks[1] ELSE "tracking"
    IN  [market |-> market, symbols |-> picks, overview |-> top,
         highlights |-> <<>>, ai_enhanced |-> FALSE]

\* What the constants say: every symbol that is asked for has a quote, with a
\* price and a change or without, or none; no symbol is the text of no data.
QuoteFields == [price : Int \cup {Missing}, change : Int \cup {Missing}]
ASSUME RptAssumption ==
    /\ Benchmarks \in Seq(STRING) /\ "no data" \notin ToSet(Benchmarks)
    /\ WatchlistSymbols \in Seq(Seq(STRING)) /\ HoldingSymbols \in Seq(STRING)
    /\ \A market \in Markets : \A s \in ToSet(Benchmarks) \cup ToSet(_collect_symbols) :
          market[s] = NoQuote \/ market[s] \in QuoteFields
    /\ DigestLimit \in Nat \ {0}

-----------------------------------------------------------------------------
(* service.py and the routes                                               *)

Room == Len(stored) + Cardinality({w \in Workers : RptBusy(w)}) < MaxReports

Indexes(kind) == {i \in DOMAIN stored : stored[i].kind = kind}

\* ORDER BY created_at DESC LIMIT 1: of rows of the same instant any may come.
_latest_row(kind) == {i \in Indexes(kind) : \A j \in Indexes(kind) : stored[i].at >= stored[j].at}

Generate(w, kind, origin) ==
    /\ ~RptBusy(w) /\ Room
    /\ work' = [work EXCEPT ![w] = [pc |-> "gather", kind |-> kind, origin |-> origin,
                                    asked |-> Len(stored), report |-> Missing, generated_at |-> 0]]
    /\ UNCHANGED <<stored, broadcasts, served, scheduler, rptClock>>

\* GET: the latest report if there is one, else a new one.
GetReport(w, kind) ==
    \/ /\ Indexes(kind) # {} /\ ~RptBusy(w)
       /\ \E i \in _latest_row(kind) : served' = i
       /\ UNCHANGED <<stored, broadcasts, work, scheduler, rptClock>>
    \/ Indexes(kind) = {} /\ Generate(w, kind, "get")

PostReport(w, kind) == Generate(w, kind, "post")

\* A cron job of the running scheduler; a job runs once at a time.
RunJob(w, kind) ==
    /\ scheduler = "running"
    /\ \A v \in Workers : ~(work[v].origin = "job" /\ work[v].kind = kind)
    /\ Generate(w, kind, "job")

\* Quotes, headlines and the AI's answer have come: the report is complete.
Gather(w) ==
    /\ work[w].pc = "gather"
    /\ \E market \in Markets, hasProvider \in BOOLEAN, answer \in AiAnswers :
        work' = [work EXCEPT ![w].pc = "persist", ![w].generated_at = clock, ![w].report =
                    IF work[w].kind = Digest THEN build_stocks_to_watch(market)
                    ELSE build_morning_summary(market, hasProvider, answer)]
    /\ UNCHANGED <<stored, broadcasts, served, scheduler, rptClock>>

\* _persist; broadcasting awaits the clients, so other tasks run in between.
\* Mutant: the report is announced before it is stored.
Persist_AfterBroadcast(w) ==
    /\ work[w].pc = "persist"
    /\ broadcasts' = Append(broadcasts, Len(stored) + 1)
    /\ work' = [work EXCEPT ![w].pc = "broadcast"]
    /\ UNCHANGED <<stored, served, scheduler, rptClock>>

RowOf(w, at) ==
    [kind |-> work[w].kind, payload |-> work[w].report, at |-> at,
     origin |-> work[w].origin, asked |-> work[w].asked]

\* Mutant: the row is stamped with the generated_at of its payload.
Persist_GeneratedAt(w) ==
    /\ work[w].pc = "persist"
    /\ stored' = Append(stored, RowOf(w, work[w].generated_at))
    /\ work' = [work EXCEPT ![w].pc = "broadcast", ![w].report = Len(stored) + 1]
    /\ served' = 0
    /\ UNCHANGED <<broadcasts, scheduler, rptClock>>

Persist(w) ==
    /\ work[w].pc = "persist"
    /\ stored' = Append(stored, RowOf(w, clock))
    /\ work' = [work EXCEPT ![w].pc = "broadcast", ![w].report = Len(stored) + 1]
    /\ served' = 0
    /\ UNCHANGED <<broadcasts, scheduler, rptClock>>

_broadcast_report(w) ==
    /\ work[w].pc = "broadcast"
    /\ broadcasts' = Append(broadcasts, work[w].report)
    /\ work' = [work EXCEPT ![w] = RptIdle]
    /\ UNCHANGED <<stored, served, scheduler, rptClock>>

\* An exception (no transaction, a lost task): a request answers 500, _job
\* logs it; the worker is free again.
Fail(w) ==
    /\ work[w].pc \in {"gather", "persist"}
    /\ work' = [work EXCEPT ![w] = RptIdle]
    /\ UNCHANGED <<stored, broadcasts, served, scheduler, rptClock>>

StartScheduler ==
    /\ scheduler = "new"
    /\ scheduler' = "running"
    /\ UNCHANGED <<stored, broadcasts, work, served, rptClock>>

\* shutdown(wait = False) has jobs cancelled where they await, which each of them
\* learns later.
StopScheduler ==
    /\ scheduler = "running"
    /\ scheduler' = "stopped"
    /\ UNCHANGED <<stored, broadcasts, work, served, rptClock>>

CancelJob(w) ==
    /\ scheduler = "stopped" /\ work[w].origin = "job"
    /\ work' = [work EXCEPT ![w] = RptIdle]
    /\ UNCHANGED <<stored, broadcasts, served, scheduler, rptClock>>

\* The wall clock advances, and may be set back once (as long as nothing is
\* stored, that is as if it had not advanced).
Tick ==
    /\ clock < MaxClock
    /\ clock' = clock + 1
    /\ UNCHANGED <<stored, broadcasts, work, served, scheduler, setBack>>
SetClockBack ==
    /\ stored # <<>> /\ clock > 0 /\ ~setBack
    /\ clock' = clock - 1 /\ setBack' = TRUE
    /\ UNCHANGED <<stored, broadcasts, work, served, scheduler>>

RptInit ==
    /\ stored = <<>> /\ broadcasts = <<>>
    /\ work = [w \in Workers |-> RptIdle] /\ served = 0
    /\ scheduler = "new"
    /\ clock = 0 /\ setBack = FALSE

RptNext ==
    \/ \E w \in Workers :
        \/ \E kind \in Kinds : GetReport(w, kind) \/ PostReport(w, kind) \/ RunJob(w, kind)
        \/ Gather(w) \/ Persist(w) \/ _broadcast_report(w) \/ Fail(w) \/ CancelJob(w)
    \/ StartScheduler
    \/ StopScheduler
    \/ Tick \/ SetClockBack

RptSpec == RptInit /\ [][RptNext]_rptVars

-----------------------------------------------------------------------------
(* Properties                                                              *)

\* A client is told of a report once, after it is stored, so that a GET it
\* sends on the frame finds a report.
AnnouncedOnceStored ==
    /\ ToSet(broadcasts) \subseteq DOMAIN stored
    /\ Cardinality(ToSet(broadcasts)) = Len(broadcasts)

\* A GET answers the last report of its kind that was stored by then, whichever
\* of two generations began or ended first; only one of the same instant may
\* stand in for it, or, when the clock was set back, any other.
NewestServed ==
    served # 0 /\ ~setBack =>
        \A i \in Indexes(stored[served].kind) : i > served => stored[i].at = stored[served].at

\* GETs never pile up reports: two of them may both find none and generate,
\* but whatever a GET has generated was asked for before the first report of
\* that kind was stored.
GetsDoNotPileUp ==
    \A i, j \in DOMAIN stored :
        stored[i].origin = "get" /\ stored[j].kind = stored[i].kind => stored[i].asked < j

MoveIn(report, s) == IF HasChange(report.market, s) THEN AbsOf(report.market[s].change) ELSE 0

\* A summary is never empty: its text is the AI's, or names the benchmark with
\* the largest move, or says that there is no data when there is none.
SummaryTold ==
    \A i \in DOMAIN stored : LET r == stored[i].payload IN
        stored[i].kind # Digest =>
            IF r.ai_enhanced THEN r.overview = "ai"
            ELSE IF r.overview = "no data" THEN \A s \in ToSet(r.symbols) : ~HasChange(r.market, s)
            ELSE /\ r.overview \in ToSet(r.symbols)
                 /\ \A s \in ToSet(r.symbols) : MoveIn(r, s) <= MoveIn(r, r.overview)

\* The digest ranks every symbol of the lists that has a price, once; what the
\* limit cuts off moved no more than what it keeps.
DigestRanked ==
    \A i \in DOMAIN stored : LET r == stored[i].payload IN
        stored[i].kind = Digest =>
            /\ IsInjective(r.symbols)
            /\ \A j \in 2 .. Len(r.symbols) : MoveIn(r, r.symbols[j]) <= MoveIn(r, r.symbols[j - 1])
            /\ \A s \in ToSet(_collect_symbols) :
                r.market[s] # NoQuote =>
                    (r.market[s].price # Missing /\ s \notin ToSet(r.symbols) =>
                        /\ Len(r.symbols) = DigestLimit
                        /\ MoveIn(r, s) <= MoveIn(r, r.symbols[DigestLimit]))
\* Requests and jobs that generate at once tell every report once and pile up none.
ReportsAnnounced ==
    /\ AnnouncedOnceStored
    /\ GetsDoNotPileUp

\* Whatever the market, the AI and the lists hold, a stored report says it.
SummariesSound ==
    /\ SummaryTold
    /\ DigestRanked
=============================================================================
