# A verification project for Borsa

Borsa is a desktop terminal for stocks: an Electron shell (`src/apps/desktop`)
that supervises a local Python engine (`src/services/engine`, FastAPI on one
asyncio event loop, SQLite underneath), and a React renderer that talks to the
engine over REST and one web socket.  The TLA+ modules here model the parts
whose correctness depends on what happens between two steps, and the services
of the engine whose answers are computed; TLC checks them on small instances
and TLAPS proves the theorems of section 4 for every instance.

All paths below are relative to `src/`; `E/` stands for
`services/engine/app/`, `R/` for `apps/desktop/src/renderer/src/`.

## 1. Inventory

### The parts, the state each keeps, and what it does

| Part | Source | State | Operations |
|---|---|---|---|
| Engine supervisor | `apps/desktop/src/main/engine/manager.ts` | `status`, `child`, `external` | `start`, the child's exit handler, health probes, `stop` |
| Electron shell | `apps/desktop/src/main/index.ts`, preload | the window | forwards status changes and notifications |
| Engine start-up | `E/main.py` | services on `app.state` | `lifespan`: migrate, seed, build services, start the monitor and the scheduler; the reverse at the end |
| Alert monitor | `E/alerts/monitor.py`, `service.py` | tables `alerts`, `alert_events`; the task; `ConnectionHub` | the tick, `record_event`, `broadcast`; create, update, delete through the routes |
| Alert conditions | `E/alerts/engine.py` | none | `evaluate`, `build_indicators` |
| Quote cache | `E/core/cache.py`, `E/data/service.py`, `quote_store.py` | `TTLCache`, its lock, table `quotes_cache` | `get_quote`: cache, lock, chain of providers, persisted fallback |
| Web socket sessions | `E/api/ws.py` | per socket the symbols and a push loop | subscribe, unsubscribe, push, end |
| Quote stream | `R/lib/ws.ts`, `R/hooks/useMarketStream.ts` | socket, symbols, reconnect timer and delay | open, reconnect, set symbols |
| Quote seeder | `R/hooks/useQuoteSeeder.ts`, `R/store/useQuotesStore.ts` | symbols asked for, quotes | one REST request per new symbol |
| Watchlists | `R/store/useWatchlistStore.ts`, `E/watchlists/service.py` | the store; tables `watchlists`, `watchlist_items` | optimistic add, remove, reorder; create, rename, delete, load |
| Alert feed | `R/store/useAlertsStore.ts`, `AlertsPanel.tsx` | last 100 events, unseen count | streamed events, history load |
| News | `E/news/` | table `news`, unique by URL | refresh, per-symbol fetch, deduplicating store |
| Reports and scheduler | `E/scheduler/` | table of reports; five jobs | generate, store, broadcast; latest-or-generate |
| Settings and secrets | `E/settings/`, `E/core/security.py` | tables `settings`, `secrets`; master key | set and get, provider order, encrypt, decrypt, verify |
| Universe and search | `E/data/universe/`, `E/search/` | table of symbols | seed, refresh, search, facets |
| Economic calendar | `E/scheduler/calendar.py` | none | the events of a window of days |
| Portfolio | `E/portfolio/` | table of holdings | CRUD, P&L, totals per currency |
| AI service, chat | `E/ai/`, `E/api/ai_routes.py`, `R/features/ai/AiPanel.tsx` | one provider per request; the messages of the panel | status, build, ask, stream, close |
| Commentator | `E/commentator/` | stored reports | parse leniently, merge opinions, consensus |
| Technical | `E/technical/` | none | indicators, resampling, volume profile |
| Providers | `E/data/factory.py`, `E/data/providers/` | HTTP clients | build the chain; quote, history, search, fundamentals |
| Database | `E/db/`, `alembic/` | all tables, the version | migrate |

### How they interact

* The shell starts the engine and tells the renderer its status.  The status
  starts the renderer's hooks: the stream, the seeder, the watchlist load.
* The renderer changes the engine's tables by REST.  Routes written as plain
  `def` run in worker threads of the engine, so they commit between any two
  statements of a coroutine, and between two statements of each other.
* The monitor, the push loops and the quote routes are coroutines that share
  the quote cache and its one lock.
* The monitor and the sessions share `ConnectionHub`: a session adds and
  removes its socket while a broadcast awaits a send.

### What is hard

| Kind | Where | What must hold |
|---|---|---|
| threads against a coroutine | monitor over `alerts` | cooldown, at most one late event, the event is that of its alert |
| one failure among several | a tick, a broadcast, the provider chain | the others still get their turn |
| shared cache and lock | `TTLCache.get_or_set` | rate limit, bound, no caller left behind, quotes never go back |
| asynchronous supervision | `EngineManager` | what is spawned is killed, the status is that of the engine, also when the spawn fails |
| optimistic update and reconciliation | watchlist store | the view follows the active list, and ends up with what the engine has |
| reconnecting stream | `QuoteStream`, hooks, sessions | the subscription survives, the status is true, quotes arrive |
| threads on one table | settings, secrets | provider and model stay a pair; whatever JSON is stored, the engine starts again |
| a keychain that comes and goes | master key, secrets, AI status | a secret outlives restarts; "ready" and "verified" mean what they say |
| generations that overlap | reports by jobs, POSTs and GETs | each announced once, stored first; GETs pile up none and answer the newest |
| sources that fail | news, symbols, provider chain | one failure costs its own articles, symbols, quotes only |
| a kill between two statements | migrations, lifespan | the version is never ahead of the tables; no task outlives its client |
| lenient parsing | verdicts of the AI, replies of providers | an opinion belongs to its article, whatever else the answer holds; a price that is there is not lost |
| a stream cut anywhere | chat | the panel shows what was said and tells each failure |
| arithmetic at its edges | indicators, alert conditions, calendar | no repaint, no missed cross, no event lost between two months |

`PROJECT.json` lists each hazard at its line, with the properties that would
catch it.

## 2. The modules

| Module | What it is |
|---|---|
| `AlertMonitor` | monitor task, its tables, its sockets, the routes |
| `AlertContract` | what the monitor promises, without ticks, threads, ids or sockets |
| `QuoteCache` | `get_quote` behind its cache, with providers and persisted quotes |
| `EngineManager` | the supervisor and the processes that can serve its port |
| `WatchlistSync` | the watchlist store, its requests, the engine's tables |
| `MarketStream` | stream, seeder, sessions, and the socket between them |
| `Startup` | migrations, lifespan and shutdown of the engine, with kills |
| `Reports` | scheduled and requested reports and what they say |
| `Assistant` | settings, secrets, master key, life of an AI provider |
| `Conversation` | a chat from the provider's stream to the panel |
| `NewsDesk` | feeds, the table of news, verdicts, consensus |
| `Symbols` | listings, seeding, refresh, search, facets |
| `Portfolio` | holdings, positions, totals |
| `Providers` | the chain of data providers and what they make of replies |
| `Calendar` | the events of the economic calendar |
| `Technical` | indicators, resampling, volume profile, over `Rationals` |
| `AlertConditions` | what an alert waits for, over `Technical` |
| `Lists` | filters, loops and sorts over lists, in a form that proofs can use |
| `AlertMonitorProofs`, `EngineManagerProofs`, `QuoteCacheProofs`, `MarketStreamProofs`, `WatchlistSyncProofs`, `ConversationProofs` | theorems about the module of that name |
| `ServicesProofs` | theorems about `Assistant`, `Startup`, `Symbols`, `Providers`, `Portfolio`, `Reports`, `NewsDesk` and `Calendar` |
| `ListLemmas` | lemmas about `Lists`, numbers and enumerations |
| `MC...` | instances of these for TLC |

`AlertMonitor` composes the monitor with the routes and the sockets;
`MarketStream`, `WatchlistSync` and `Conversation` each compose the renderer
with the engine; `AlertConditions` extends `Technical`, whose candles it reads.
The modules from `Startup` on share no variables, and `MCServices` puts them
into one specification; `MCQuotePath` does so with the supervisor, the quote cache
and the stream, whose definitions are named apart for that (`SupInit`,
`CacheNext`, `engineStatus`).  `MCReports` and `MCNewsDesk` only give values to
the constants of their modules.  Every mutated operator (`Name_Suffix`, "Mutant:")
stands before the operator it mutates and is used by nothing else: each one
shows that a plausible mistake in that code breaks a property.

### AlertMonitor

A row of `alerts` is a record; `uid` numbers the creations, since SQLite hands
the id of a deleted row to the next one.  `pc` is where the task stands between
two awaits or two statements: `"sleep"`, `"fetch"` (in `get_quote` of the next
group), `"read"` and `"flush"` (the two halves of `record_event`), `"send"`
(in `broadcast`), `"down"` (the engine is stopped).

| Action | Code |
|---|---|
| `StartTick`, `EvaluateGroup`, `GroupRaises`, `AbortTick` | `AlertMonitor._tick`, `_evaluate_symbol`, `_run`; `active_grouped` |
| `RecordRead`, `RecordFlush`, `RecordFails` | `AlertService.record_event`: `s.get`, then the flush |
| `SendFrame`, `BroadcastDone` | `ConnectionHub.broadcast` |
| `Create`, `Update`, `Delete` | the alert routes, each one transaction |
| `Connect`, `Drop`, `ServerNotices` | `/ws/stream` |
| `Halt`, `Restart`, `Advance` | `stop`/`start` of the monitor or a crash; the clock |

Whether a condition holds is a choice here: its arithmetic is that of
`AlertConditions`.  A `"badcross"` alert has the periods that make
`build_indicators` raise; nothing validates them.

### QuoteCache

Callers are coroutines: idle, queued at the lock, or fetching from the n-th
provider.  A quote is the time it was asked for.  `CallHit`, `CallMiss`, `Wake`
and `Finish` are `get_or_set`; `NextAdapter`, `AdapterAnswers` and `FallBack`
are `fetch`; `Cancel` is a push loop that is cancelled at any await; eviction and
expiry are `Set` and `Popped`.

### EngineManager

`start` says where `start()` is: before, awaiting its first probe, polling, at
an answer not yet acted on, done.  `exit` is the same for the exit handler's
re-probe.  `Spawn` has three outcomes: a process; an exception (the packaged binary is
missing); and a handle without a process (`own = "failed"`: the interpreter is
not there or may not be run, which comes as an "error" event that nobody listens
to, and no exit follows).  The environment runs the spawned process (booting, up,
exits by itself) and an engine of somebody else that comes and goes.

### WatchlistSync

Each call is a chain of promises: request sent, list read by its thread, reply or
failure, continuation.  The engine reads a list in one statement and writes it in
a later one, and a write meets what other threads did meanwhile: a unique
constraint, a foreign key, a row that is gone.  `Bootstrap` is the load of
`useWatchlistBootstrap`, once each time the engine becomes ready while nothing is
loaded; two such loads overlap only when the status turns to ready again before
the first is answered (`readies`).  Left out: the names of lists, the
`activeSymbol`, and a create that reads the largest position before others commit
(it only changes the order of the lists).

### MarketStream

The socket `ws` has two ends: `link` is `readyState`, `session` the handler in
the engine; `wire` holds the messages on the way and `intact` says whether the
socket still carries frames.  Either end learns of a break by itself.
`BecomesReady`, `LeavesReady` and `Watch` are the effects of the two hooks;
`OnOpen`, `OnClose` and `TimerFires` the callbacks of `QuoteStream`;
`Accept`, `Receive`, `StartRound`, `Push` and `EndSession` are `stream` and
`push_loop`.  The status leaves `"ready"` at most once: after `start()` and the
exit handler nothing sets it again (see `EngineManager`).  Whether a symbol has
a quote is all that is kept of the quotes.

### Startup

`lifespan` of `E/main.py` as phases, from `"migrating"` to `"closing"`.
`Migrate` runs one statement of the next revision, `Stamp` writes the version:
SQLite commits each `CREATE` by itself, so a `Kill` between two statements
leaves a torn revision (`torn`), whose first `CREATE` then fails at every start;
`StartFails` is an exception of the lifespan before its `yield`.  `TakeRequest`,
`Poll` and `Job` are the users of the network clients.  The shutdown keeps the
order of the statements and of the event loop: `StopJobs` only puts the stop of
the scheduler on the loop's queue, `CancelJobs` is that call, a job that ran is
cancelled later (`JobCancelled`) and may still close a client of its own
(`JobCleaned`); `StopMonitor` is awaited, and `LifespanResumes` and `CloseClient`
come after it.

### Reports

A worker is a job or a request.  `Generate` begins a generation, `Gather` awaits
quotes, the AI and the clients, `Persist` inserts the row, the next step
broadcasts it; `GetReport` answers the newest row or generates, and `CancelJob`
is what the stop of the scheduler does to a job.  "Newest" is what the query
says: the greatest `created_at` of a wall clock (`at`), without a tie-break, so
`_latest_row` is a set of rows; `Tick` and `SetClockBack` move the clock.  `origin`
and `asked` (what asked for a report, and how many rows there were) serve the
properties only.  A row holds the report that
`build_morning_summary` or `build_stocks_to_watch` made of the market of that
moment; symbols and texts are tokens.

### Assistant

`Put` begins a request, which is a list of transactions: one for a setting or a
secret, two for provider and model.  `ReadRow` is the `s.get` of its thread,
`WriteRow` the flush, which fails when another thread has inserted that key in
between, and then the rest of the list is not run.  A setting holds any JSON
value: one of a wrong type (`Junk`), null, or a list that cannot be hashed
(`Unhashable`), for which the readers raise (`Raises`) as membership tests in a
dict do; such a reader in the lifespan keeps the engine from starting (`StartsUp`,
`running`).  A key of blanks passes the schema and is stored empty.  `Restart(up)`
is a new process with the keychain available or not, and `LoadMasterKey` what it
takes for its master key.  A request reads provider, model and key one after the
other (`ReadProvider`, `ReadModel`, `BuildProvider`), asks once and closes.
`verify_secret` is a function of the key and of the reply of the service.

### Conversation

A piece of text is a token, a line of the event stream a record.  `PassOn`,
`Finish` and `Break` are the engine's side (`chat_stream` and the route);
`ReadPortion` and `ReadEnd` are `streamChat` with its buffer, which cuts the bytes
anywhere between two lines and keeps an unfinished frame; `HandleLine` is one line
of a complete frame, and `HandleLines` the same as a function, which the loop goes
through the lines with.  `AnswerSays` appends pieces to the answer; `Settle` is what
`AiPanel` does when the stream is over.  A text is the list of its pieces, empty
ones included: it shows nothing when all of them are empty (`Invisible`).

### NewsDesk

`Refresh` gathers all feeds, each of which answers or fails, and stores what is
new; a long URL is stored cut (`Cut`), and the whole batch fails when that
violates the unique index.  `ReadArticles`, `ListArticles` and `AskAi` are a
commentary: the articles it reads, those of the second read, and the verdicts,
of which an element that is no object is dropped before places are counted, as
the code does.  What a verdict is `about` is not the code's reading but the
prompt's: the article of its index or, without one, of its place in the whole
answer.  An index or a rating that cannot be converted raises.
`compute_consensus` and `_coerce_rating` are functions.

### Symbols

The start-up seeds an empty table (`StartSeeding`) before the engine serves; then
requests refresh, also at the same time, and `Relaunch` is a kill, or a start that
failed, and the next start.  A refresh asks for the US listings, then for BIST,
and stores (`LoadUs`, `LoadBist`, `StoreUniverse`); each source answers, answers
nonsense or fails.  `RefreshRaises` is what then becomes of an exception: 500 for
a request, and for the seeding the second write, of the packaged shares alone,
which can fail as well and then ends the start.  The loaders keep their filters
and fallbacks, the queries their limits.  Searches are functions of the table:
which symbols a query matches by ticker, by name or in the live search is given by
constants.

### Portfolio, Providers, Calendar

`Portfolio`: `ReadHoldings` reads, the quotes are awaited, `AnswerPortfolio`
computes, and other requests change the holdings in between.  `Providers`:
`BuildService` builds the chain from a stored order, with or without a key, and
`Ask` maps any reply of the two services, `fast_info` and `info` of Yahoo
included.  `Calendar`: a day is a number, `build_economic_calendar` keeps the
loops over months, weeks and years; `Midnight` lets time pass between two answers.

### Technical, Rationals, AlertConditions

`NextBar` adds a candle; everything else is a function of the candles, written
over exact fractions with NaN and infinity where pandas has them (rounding of
floats is left out, Bollinger bands keep the square of their width).  Periods are
small constants.  `AlertConditions` translates `evaluate` and
`build_indicators`, and `SnapshotFor` is `_evaluate_symbol` of the monitor: which
history it fetches and which indicators it computes for the alerts of a symbol.

## 3. The runs

| Run | Shows | Instance |
|---|---|---|
| `alert_cooldown` | `CooldownRespected`, `AtMostOneLateFire`, the inductive `MonitorInv`, and `ImplementsContract` | one symbol, two alerts (one id may be reused), cooldowns 0 and 2, four moments, three events |
| `alert_live` | `BroadcastComplete`: a frame reaches every client that stays; `TickEnds`; `SoundAlertsFire` | two symbols, two sockets, alerts that raise and alerts that do not |
| `quote_path` | `SupervisorInv` (`child` is set from the spawn until the exit handler or `stop`), `CleanStop`, `StartSettles`; `CacheSound` (bound, exclusive lock, answers kept for their ttl), `RateLimited`, `NeverGoesBack`, `EveryCallReturns`; `StreamSound` (subscription kept, status true, sockets begin clean), `SeededOnce`, `SubscriptionRestored`, `EveryQuoteShows` | supervisor: all environments, spawns that throw or fail later, two polls before the deadline; cache: two callers, two symbols in a cache of one, two providers, failing persistence; stream: two symbols, two socket identities, two changes of the watchlist, one crash or break |
| `watchlist` | `StoreSound` (the view follows the active list, one call at a time reconciles), `OptimismIsRight` | two lists, two symbols, two calls at a time, five calls in all, any may fail, the engine ready twice |
| `services` | the properties of the other services, below | see below |
| `alert_starved` | violation: one raising alert starves the sound alert of another symbol | two symbols, two alerts |
| `alert_identity` | violation: an event is filed under another alert | |
| `quote_cache_coalesce` | violation: waiting callers repeat a fetch that found nothing | |
| `engine_orphan` | violation: a stop during the first probe leaves an engine running | |
| `watchlist_mirror` | violation: overlapping calls leave the store and the tables apart | |
| `assistant_model` | violation: the provider of one request with the model of another | two PUTs |
| `startup_latest` | violation: a start that does not land on the latest schema | one kill |

`services` and `quote_path` follow one part at a time: `focus` is chosen at the
start and only the variables of that part change.  The parts share no variable and
no action, so a property of one part holds in their interleaving exactly when it
holds in the part alone; the run is the sum of the parts instead of their product.
Parts with a bound on their length end, so deadlock is not checked.  In `services`
the two threads of the settings, the two workers of the reports and the two requests
that refresh symbols are interchangeable (each set is a symmetry set, no action
or property names one of its members, and no liveness is checked there).

The parts of `services`:

| Part | Properties | Instance |
|---|---|---|
| `Technical` | `IndicatorsSound` (a value exactly from the end of the warm-up; averages within their range, oscillators within 0 to 100, bands hold their window), `NoRepaint`, `CandlesConserved` (resampling and profile keep volume and extremes) | all series of up to five bars of three shapes: flat without volume, a rise, a fall after a gap |
| `AlertConditions` | `CrossesCaught` (no cross missed, none in the warm-up, a history when one is needed) | the same series, every type of alert |
| `Assistant` | `SecretsSurviveRestart`, `AssistantSound` ("ready" is true of every key but two kinds, "verified" of every key; clients closed) | two threads, two PUTs, two restarts, one request |
| `Reports` | `ReportsAnnounced`, `NewestServed`, `SummariesSound` | two workers, two kinds, two reports, two markets with quotes missing, two instants of a clock that may be set back |
| `Calendar` | `CalendarSteady` (no event lost or gained from one answer to the next; in order; monthly releases on their day) | every day of two years, windows of 14 and 60 days |
| `Symbols` | `UniverseSound` (the whole seed or all that KAP lists, whatever fails), `SearchSound` | the seeding and two requests, three refreshes, kills, listings with odd lines, three queries, limits from one to four |
| `NewsDesk` | `DeliveredStored`, `VerdictsSound`, `ConsensusFair` (turned round with its opinions, names a clear majority) | two feeds and one of a symbol, two long URLs with one cut form, seven replies of the AI |
| `Startup` | `MigrationSafe`, `ClientsOutliveTasks` | all six revisions, one client, two kills, starts that fail, a job cancelled late |
| `Portfolio` | `PortfolioSound` | two lots of two shares, quotes with and without a price, a currency in small letters |
| `Providers` | `QuotesSound` | a share of each market, three stored orders, every reply |
| `Conversation` | `ChatSound` | two questions, texts with an empty piece and with "[DONE]", breaks anywhere |

### Why the bounds are enough

* Alerts interact through ids, rows and the order of groups: two alerts, two
  ids and two creations show reuse, and the third event of one alert needs
  nothing that the second does not.  The clock passes the largest cooldown.
  `alert_live` allows as many events as the two alerts can fire.
* A cache of one with two keys evicts on every other call; two callers queue
  behind one lock; two providers make the chain fail over and fall back; the
  clock (0 to 3) passes several ttls of 1.
* One poll and the deadline are different cases; a third poll repeats the
  second.
* Two calls overlap; three that overlap pairwise are chains of such overlaps.
  Five calls fill, empty and renumber a list with positions 0 to 3.
  A second time "ready" is the one that makes two loads overlap.
* In `services` the numbers are those at which a case first happens:
  two threads or two workers that overlap, two instants of the clock (earlier and
  later; equal ones are one instant), two restarts (the keychain goes and comes back),
  a kill in a revision and one after it, an end of a month, of a year and of a
  window, one bar more than the longest warm-up, a limit smaller than what it
  cuts.
* A reconnect reuses the identity of a socket whose both ends are through, so
  two identities serve any number of attempts; while the engine is down the
  attempts fail without bound and the delay reaches its cap.

Deadlock is not checked where the system really stops: `quote_path` and
`engine_orphan` (the supervisor is done, nothing is watched), `watchlist*` (the
user does nothing more), and `services` and the violation runs of its modules
(bounded parts end).

### Fairness

Weak fairness only, on what an event loop or a timer runs by itself:

* the monitor's own steps (`alert_live`, `alert_starved`): each of its awaits
  returns, the providers have timeouts, and the web socket server pings its
  peers.  None for routes, sockets, restarts or the clock;
* the steps of each caller of the cache (`quote_path`): the lock wakes its
  waiters in order, and the calls to providers have timeouts.  None for
  cancellations or the clock;
* the steps of `start()` and of the exit handler (`quote_path`, while it follows the
  supervisor): a probe has a
  timeout.  None for the engines' coming up or for `stop()`;
* the stream's callbacks and timer, the seed requests (they end), accept and
  receive in the engine's loop, each session's push loop, and its noticing a
  dead peer (`quote_path`).  None for the user, for crashes or for the
  engine's return: the properties assume that it serves for good.

### What the violations mean

* `alert_starved`: the loop over the groups in `_tick` has one `try` around all
  of it, in `_run`; a condition that raises ends the tick, every time.
  `SoundAlertsFire` shows that nothing else starves an alert.
* `alert_identity`: `record_event` finds the row by id only.  It takes a delete
  of the newest alert and a create within one `get_quote`.
* `quote_cache_coalesce`: `None` in the cache is taken for a miss.
* `engine_orphan`: `start()` does not look at the status after its probe.
* `watchlist_mirror`: whole lists are applied in order of arrival.
  `ReconciledOneByOne`, a part of `StoreSound`, shows that calls made one at a
  time do reconcile, failed ones included, and `DerivedInSync` that the view
  follows the store in any case.
* `assistant_model`: provider and model are two transactions of a thread.  The
  second of one request may land after that of another, or fail.
* `startup_latest`: a kill inside a revision leaves a table that its `CREATE`
  then meets at every start.  `UpgradeFailsOnlyTorn`, a part of `MigrationSafe`,
  shows that nothing else fails an upgrade.

More limits, by design of the code, which the properties name as exceptions or
leave open:

* the status says "ready" of two kinds of keys that a request cannot use
  (`ReadyUnlessOdd`): a key of blanks, whose length the schema checks before `set`
  strips it, and one stored while the keychain was in another state;
* `PUT /settings/{key}` stores any JSON value; the readers of the provider order and
  of the active provider look it up in a dict, which raises for a list or an
  object, and the lifespan calls both: the engine does not start again (`StartsUp`);
* all news sources share one transaction, and URLs are compared whole and stored
  cut, so an over-long URL of one source can cost the articles of all
  (`DeliveredStored` excepts such a batch; without one, a source that fails costs
  no other source an article);
* verdicts without an index are numbered after the elements that are no objects
  have been dropped, so they may label other articles (`Misplaced`, which
  `VerdictsSound` excepts; every other answer labels the right ones);
* `consensus.py:23` says "mixed when no side exceeds 50%", but the code only
  compares the first two sides (`ConsensusFair` asks for a side when it has more
  than three fifths);
* reports of one instant come in no order, and after the clock was set back a GET
  may answer an older one (`NewestServed`);
* a price of 0, with which Finnhub answers for a symbol it does not know, is
  served as a price (`QuotesSound` does not exclude it);
* a page of a facet holds no more symbols than its limit, whatever the facet
  counts (`FacetsLeadSomewhere`);
* a refresh from KAP writes over the sectors that the packaged list knows, since
  `bulk_upsert` takes every column from the new row;
* `waitForHealth` gives up after 30 s (60 s under `npm run dev`), and an engine
  that is healthy later (it may be seeding its universe) stays reported as
  `"error"`; after a spawn that failed, the handle stays until `stop`;
* a seed request that a change of the watchlist cancels is never repeated, so
  that symbol waits for the stream.

`NoRepaint` is about bars that are appended; a chart whose range slides, so that
its first bars go, has other warm-ups.

## 4. The proofs

All theorems hold for every value of the constants that satisfies the named
assumptions of the module: any number of alerts, sockets, callers, symbols,
lists, tasks, workers, polls and kills, any reply of a service, and any bound.
The assumptions say what kind of value a constant has (listings are lists of
lines, amounts are integers, the columns of a body are filled or absent, "nothing"
is no value, what a provider says is a sequence of texts) and, for `Portfolio`,
that a currency in capitals is its own capitals.  Besides:

* `Symbols`: the packaged list of shares is not empty; a ticker begins with
  itself, `GROUP BY` yields a sector once, and the order of the display symbols is
  irreflexive and transitive (`SearchAssumption`);
* `Reports`: each symbol asked for has a quote, whose price or change may be
  missing, or none, no benchmark is the text "no data", and the digest has room
  for one symbol at least (`RptAssumption`);
* `NewsDesk`: documents are lists of elements whose urls can be cut to the width
  of the column; what a verdict is about is the article of its index or, without
  one, of its place in the whole answer (the prompt asks for one object per
  article, in order); a table or an answer is not an exception (`NewsAssumption`);
* `Assistant`: "nothing" is neither a master key nor a key of blanks, and an order
  that a body holds is a list of names (`AstAssumption`);
* `Calendar`: a request asks for 1 to 60 days, as its route enforces, and the days
  lie before 2028, the next leap year (`CalAssumption`).

### AlertMonitorProofs

* `TypeCorrect`: `Spec => []TypeOK`.
* `InvCorrect`: `Spec => []MonitorInv`.
* `CooldownCorrect`, `LateFireCorrect`: two safety properties that follow.
* `BroadcastCorrect`: a frame reaches every client that stays connected.
* `ContractCorrect`: `Spec => ImplementsContract`, the refinement.

`CooldownRespected` speaks of events only, so it is not inductive: a step that
adds an event needs to know that the copy of the row the tick holds is not older
than the last event of the alert.  `MonitorInv` says so.  `OneRowPerUid`: a
creation is one row in the table and one among the copies, under the same id.
`LastCoversFeed`: `last_triggered_at`, in the row and in its copy, is no earlier
than any event of that creation; this survives because a tick takes each alert
once and stamps the row in the transaction of the event.  `FiringIsDue`: what is
about to be recorded was past its cooldown, and if `record_event` found no row
there is still none of that creation (ids are reused, creations are not).
`LateFiresBounded`: an alert that has had a late event is neither active nor
held.  There is a lemma for each step that touches the events, the rows or the
copies (`StartTickStep`, `EvaluateGroupStep`, `RecordReadStep`,
`RecordFlushStep`, `CreateStep`, `UpdateStep`, `DeleteStep`, `AdvanceStep`),
and `QuietStep` for the rest.

The refinement adds `CooldownsKnown`: the cooldown in a row and in its copies is
one the alert has had.  Then `RecordFlush` is `Fire` of the contract
(`FlushFires`: on or closing by `LateFiresBounded`, far enough from earlier events
by `CooldownRespected'`), a creation and an update are `Configure`, the deletion of
an active row is `Remove`, `Advance` is `Pass`, and every other step changes
nothing the contract sees (`UnseenStep`).  `BroadcastCorrect` needs only that the
clients a frame is owed to are among those `broadcast` has yet to reach.

### EngineManagerProofs

`SupervisorCorrect`, and from it `CleanStopCorrect` and `ChildIsOwnCorrect`.
The strengthening `SupervisorInv` says that there is no child before the
spawn, that an orchestrated engine is never ours, that the exit handler runs only
for a dead child, and that a child is never taken for somebody else's engine.
`ChildIsOwn` says that the handle is set from the spawn until the exit handler or
`stop`; it does not say that a process lives behind it, since a spawn may fail
later (`own = "failed"`).

### QuoteCacheProofs

`CacheSoundCorrect`, `RateLimitedCorrect`, `NeverGoesBackCorrect`.  The bound of
the cache needs its finiteness (`CacheInv`); the rate limit needs that the lock
has one holder and that an answer whose ttl runs is in the cache and fetched by
nobody (`LockSound`, `AnswersKept`); the order of the quotes needs that what is
cached, saved or being fetched is no older than what was served
(`QuotesOrdered`), except after an upsert that was lost.

### MarketStreamProofs

`StreamSoundCorrect`, `SeededOnceCorrect`.  What the engine has is not what the
stream wants while messages are on the wire, so `SubscriptionKept` speaks of
both: `After(have, messages)` is what the messages make of the symbols, and the
lemmas `AfterSent` and `AfterRead` say how sending and reading change it.
`ConnectsClean` (no message and no symbol before the socket is open) is the part
that makes it inductive; `Underway` that of the seeds.

### WatchlistSyncProofs

`StoreInvariant`, and from it `StoreSoundCorrect` (`StoreSound`) and
`OptimismIsRightCorrect` (`OptimismIsRight`).  That calls made one at a time
reconcile the store with the tables is said of moments without a call, so the
invariant has to say what holds in the middle of one.  `Reconciling`: if no calls
have overlapped or failed for good, at most one is under way, it runs by itself,
and `Reconciles` says how far it is: before its transaction the store shows the
tables with what the call promises (`Promised`), after it the tables as they are,
and a response on its way carries what the tables hold.  Of a call that failed it
says nothing: the load that follows replaces the whole store, and that load's
response is what the tables hold if it ran by itself.  `Mirrors` leaves out the
one list that a call creates or deletes.  `Shaped` says that what a request has
read of a list is finite, so that positions have a greatest one and a listing
exists.  The view is handled by `DerivedInSync`, which every response keeps, in
any order.

The operators on lists are where such a proof is long: `ToSchema` is given by
the length of a listing, and the code appends, filters and renumbers.
`SchemaIsListing` turns the length into "each symbol once" (by
`EnumerationLength`: a list without repetitions is as long as the set exactly if it
names all of it), and the lemmas on adding, removing and reordering say that the
optimistic list is a listing of the new positions, the only one if no two
positions are equal.

### ServicesProofs

*Assistant*: `AssistantTruthful` (`AssistantSound`) and `SecretsOutliveRestarts`
(`SecretsSurviveRestart`).  "Ready" looks only for a row, so it is no promise before
one knows that the row can be read: the process uses the key of the place it found
(`MasterKeys`), that place still holds the key of every secret stored there
(`StoredSecrets`), and so it does for the secret a thread is about to store
(`PendingSecrets`).  `KeysStay` is the reason: a restart fills an empty place and
never replaces a key.  What is left of "ready" are the two kinds of keys that
`ReadyUnlessOdd` names.

*Startup*: `TasksByPhaseCorrect`, `ClientsOutliveTasksCorrect`,
`MigrationSafeCorrect`.  `TasksByPhase`: which tasks and clients exist is settled
by the phase of the lifespan, up to a cancelled job that still closes a client of
its own.  `Migrated`: without a kill inside a revision the
database holds just what has run so far; after one it holds at least what is
stamped, and the first statement of the torn revision is among its tables.

*Symbols*: `UniverseSoundCorrect` (`UniverseSound`).  Whether the universe is whole
when the engine serves depends on what a refresh had loaded some steps before, on
other refreshes that stored in between, and on kills: `UniverseInv` says that a
task that is about to store holds every share of the packaged list or every company
that KAP lists as traded (`RefreshLoaded`, by `KapFull` or the fallback), so that a
table with one row has all of them (`TableSeeded`), which no upsert takes away
(`StoreBist`); a refresh that raises leaves the table or stores the packaged list
(`RaisesKeeps`).  `KapRows` is about KAP's answers alone: the filters and the set of
tickers seen leave each company once.
`SearchSoundCorrect` (`SearchSound`) is about every query against every table that
can come up.  A result is a list that `ORDER BY` makes of a set of rows, so there is
one only as long as the set is finite: `FiniteUniverse`, kept because what a
refresh stores is a list (`UpsertFinite`).  `RankOrders` says that rank and display
symbol together are an order; `InOrderListed` then gives that the rows come once
each and none after one it precedes, and `UptoKept` that the limit cuts the end off.
Hence a symbol typed in full comes first (nothing has a lower rank), tickers before
names, and none twice although the live search is appended to the local rows.
`FacetsLead`: facets are offered once each, and the page of one, an `ORDER BY` of
its own cut to the limit of the request, has as many symbols as the facet counts
or as the limit lets through (`PageHolds`); a country is found again by its label
(`CountryFacets`).

*Providers*: `QuotesSoundCorrect` (`QuotesSound`).  The invariant adds
`ChainBuilt`: a chain that was built has the keyless adapter in it, whatever order
is stored.  The rest follows the first adapter that answers (`QuoteOfChain`,
`HistoryOfChain`).

*Portfolio*: `PortfolioSoundCorrect` (`PortfolioSound`).  The invariant adds
`PortTyped`: rows are holdings with a currency in capitals, or deleted, and so are
the rows a request works on, which is why changes in between do no harm.  Totals
are sums over lists: `SumOfDifferences` gives that the profit is the value less the
cost of what is priced.

*Reports*: `ReportsInvCorrect`, `ReportsAnnouncedCorrect`, `NewestServedCorrect`.
`ReportsInv`: a report in the hands of a worker is stored and announced by nobody
else (`ToldOnce`), and a GET that still generates asked before the first report of
its kind was stored (`AskedBefore`), which is why overlapping GETs pile up no
reports.  `NewestServed` rests on `StampsInOrder`: as long as the clock is not set
back, rows are stamped in the order in which they are stored, since the stamp is
read then and not when the report was begun (`StampedLast`); a row with the latest
stamp is then the last of its kind or of the same instant (`LatestAnswered`).
`SummariesSoundCorrect` (`SummariesSound`): what a stored report says is what
`build_morning_summary` or `build_stocks_to_watch` makes of some market.
`PayloadsFit` says so of the stored reports and of the one in the hands of each
worker, which gathers in one step and stores in another.  Over any market
`MorningTold` says that the summary has the words of the AI, or names the
benchmark that moved most, in either direction, or says "no data" only if no
change is known; `DigestListed` that the digest has each symbol once, the largest
moves first, and that a priced symbol is missing only from a full digest all of
whose moves are at least as large.  Both rest on `ByMoveSorts`.

*NewsDesk*: `DeliveredStoredCorrect` (`DeliveredStored`) and
`VerdictsSoundCorrect` (`VerdictsSound`).  `NewsKept` adds to the first that no
two rows have the same url: that is the index of the table, and it is what a batch
can violate, because the code compares the urls as they came and the column holds
them cut. `FreshChosen` and `BatchStored` say that a batch in which no url is too
long can never do so, whatever the table holds, and that all of it is then in the
table; rows are never taken away (`NewsStoreKeeps`).  `DeskFits` relates three
lists that a request carries over several steps, while others store news: the
articles it shows, the ones it read for the AI, and the opinions.  An opinion that
the AI gave has the article that stood at its number in the list the AI read
(`VerdictsParsed`, `VerdictChosen`), which is still so after the opinions are
merged, by url, into a list of articles that was read earlier (`MergedFits`); its
rating is one of 1 to 5 whatever the answer had (`RatingCoerced`).  The code
numbers the objects of the answer and the prompt its elements: where no object
without an index stands behind an element that is none, the two agree
(`VerdictsParsed`, from `NoGap` and `KeptInPlace` of `ListLemmas`); where one
does, they shift, and `VerdictsSound` says nothing of them.

*Calendar*: `CalendarSteadyCorrect` (`CalendarSteady`), for every day and every
pair of horizons.  The invariant `CalInv` is simple: the last answer is that of
today or yesterday.  What carries the theorem is `CalendarBuilt`: an answer lists,
once each and in order, just the events that a rule without loops (`Released`)
names and that lie in the window, so that two answers agree where both speak.  A
list that goes over months, days and years is shown to be such a listing of a set
(`Enumerates`), and listings are filtered, mapped, joined and sorted
(`EnumeratedKept`, `EnumeratedMapped`, `EnumeratedJoined`, `ByTimeSorts`).  The
arithmetic is in `MonthStartIs` (the first of a month is what all its days up to
the 28th share), `FirstFridayIs`, `SecondTuesdayIs` and `YearsOfWindow` (a window
touches the years of its two ends and no other); `PayrollsListed` is why starting
from the first of the month loses none, although the window starts within it.

### ConversationProofs

`ChatSoundCorrect` (`ChatSound`).  That an answer is right when it is settled
depends on lines sent long before and cut anywhere, so `ConvInv` relates three
things: what the provider has said is what the chat shows, followed by some rest,
and the lines in the client's buffer and on the wire, taken together, are the
frames of just that rest and of the end of the response (`Framed`).  The engine's
steps add a frame to both sides (`FramedMore`) or cut the lines off
(`FramedBroken`).  A portion is the long case: `CameTo` says what any number of
lines of the frames makes of the client's reader, by induction over the lines
(`CameToNext`, `FramesHandled`); up to the last blank line they are whole frames
(`FramesCameTo`), and what is kept for the next portion and what is still on the
wire are again the frames of a rest (`PortionsJoined`, `FramedRest`).  Texts that
look like the protocol are harmless because a piece is a line of JSON and the
marks of the protocol are not.

### ListLemmas

Induction over data is done with sets: `InductionOnNat` (a set of numbers with 0
that is closed under successors is all of them), from the library's well-founded
order on the naturals.  With it `PlacesKept` and `KeepKept` say what a filter
returns (a list of what was asked for, in order, nothing missing; `PlacesChosen`
says at which places), `FoldedInvariant` what a loop preserves, `SumSteps` and
`SumOfDifferences` what sums do, `ConcatHolds` that lists put together hold what
each of them held, `FirstsKept` that removing repetitions leaves each element
once, `UptoKept` what a limit leaves, `EnumeratedKept`, `EnumeratedMapped` and
`EnumeratedJoined` what becomes of a list that names each element of a set once,
and `InOrderListed` that sorting a finite set by an irreflexive, transitive
relation lists each element once, none behind one it is before (`SomethingFirst`:
a finite set has an element that no other is before). This is why the services use
`AtPlaces`, `ListSum`, `Concat`, `Firsts`, `Upto` and `InOrder`: nothing can be
proved here about `SelectSeq`, `FoldLeft`, `FlattenSeq` or `SortSeq`, whose
operator arguments no prover can instantiate.

### Only model-checked

The liveness properties (`SoundAlertsFire`, `TickEnds`, `EveryCallReturns`,
`StartSettles`, `SubscriptionRestored`, `EveryQuoteShows`), which need fairness
and `ENABLED`; and what is computed from candles with the library's folds over
fractions: `IndicatorsSound`, `NoRepaint` and `CandlesConserved` of `Technical`,
`CrossesCaught` of `AlertConditions`; and `ConsensusFair` of `NewsDesk`.  The
violations, of course, are shown by TLC only.

## 5. Not modelled

* The renderer's alert feed: a list of the last 100 events that a history load
  replaces; nothing in the code promises otherwise (listed as a hazard).
* The order of quotes in the renderer's store: `MarketStream` keeps only whether
  a symbol has a quote, since nothing there tells an older quote from a newer one
  (listed as a hazard).
* The cache of fundamentals (the same `TTLCache`), the fields of fundamentals, and
  the names of lists and the active symbol of the watchlist store.
* Network I/O, prompts and SDKs: the replies of services are choices.
* The industries of symbols (no loader knows one) and the three sample symbols of
  a facet; the counts that a refresh answers with, whose query may still fail after
  the refresh was stored; the switch that turns the start-up seeding off.
* Rounding of floats, square roots, time zones beyond the day of an event.
* The Electron window, IPC forwarding, the panels other than the chat: each
  loads, shows and forgets.
* Configuration, logging, developer and release scripts.

## 6. Plan

What is left, in order of what it would add:

1. `AlertFeed` and `QuoteFeed` in the renderer, if the code comes to promise an
   order: a history load against streamed events, a REST quote against a newer
   frame.
2. The provider of the AI that a failing morning summary leaves open.
3. The rest of the panels where they keep state across requests.
