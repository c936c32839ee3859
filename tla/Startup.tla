------------------------------- MODULE Startup -------------------------------
(***************************************************************************)
(* The life of the engine process: the migrations that init_db runs, the    *)
(* lifespan of app/main.py up to "yield" and after it, and a process that    *)
(* may be killed at any point.  SQLite commits each DDL statement by itself: *)
(* only the stamp of the version table is transactional.                    *)
(***************************************************************************)
EXTENDS Naturals, Sequences, FiniteSets, SequencesExt

CONSTANTS
    SchedulerEnabled,   \* settings.scheduler_enabled
    Clients,            \* Finnhub adapters that build_market_data_service may open
    MaxKills            \* bound: kills of a behaviour

-----------------------------------------------------------------------------
(* alembic/versions: the statements of each upgrade(), in order             *)

initial_schema ==
    <<"quotes_cache", "secrets", "settings", "symbols",
      "ix_symbols_display_exchange", "ix_symbols_display_symbol", "ix_symbols_exchange">>
watchlists_and_portfolio ==
    <<"holdings", "ix_holdings_symbol", "watchlists", "watchlist_items", "ix_watchlist_items_watchlist_id">>
news_revision == <<"news", "ix_news_published_at", "ix_news_url">>
ai_reports_revision == <<"ai_reports", "ix_ai_reports_symbol", "ix_ai_reports_created_at">>
alerts_revision ==
    <<"alerts", "ix_alerts_symbol", "alert_events", "ix_alert_events_alert_id",
      "ix_alert_events_symbol", "ix_alert_events_created_at">>
scheduled_reports_revision ==
    <<"scheduled_reports", "ix_scheduled_reports_kind", "ix_scheduled_reports_created_at">>

Revisions == <<initial_schema, watchlists_and_portfolio, news_revision, ai_reports_revision,
               alerts_revision, scheduled_reports_revision>>
LastRevision == Len(Revisions)

VARIABLES
    schema,     \* tables and indexes of the database
    version,    \* alembic_version: how many revisions are stamped
    done,       \* statements of the next revision this process has run
    phase,      \* where lifespan is
    lists,      \* whether there is a watchlist
    open,       \* Finnhub clients that are open
    monitor,    \* the task of AlertMonitor: "none", "sleeping", "polling"
    jobs,       \* the scheduler: "none", "waiting", "working", "cancelled", "cleaning"
    inFlight,   \* requests in progress
    torn,       \* the revision between whose statements a process was killed, or 0
    kills       \* bounded counter

startVars == <<schema, version, done, phase, lists, open, monitor, jobs, inFlight, torn, kills>>
database == <<schema, version, lists, torn, kills>>
process == <<done, open, monitor, jobs, inFlight>>

-----------------------------------------------------------------------------
(* init_db: alembic upgrade head                                           *)

Launch ==
    /\ phase = "down"
    /\ phase' = "migrating" /\ done' = 0
    /\ UNCHANGED <<database, open, monitor, jobs, inFlight>>

\* CREATE of an object that exists raises; so does the start of the engine.
Migrate ==
    /\ phase = "migrating" /\ version < LastRevision /\ done < Len(Revisions[version + 1])
    /\ LET object == Revisions[version + 1][done + 1]
       IN  IF object \in schema
           THEN phase' = "failed" /\ UNCHANGED <<schema, done>>
           ELSE schema' = schema \cup {object} /\ done' = done + 1 /\ UNCHANGED phase
    /\ UNCHANGED <<version, lists, torn, kills, open, monitor, jobs, inFlight>>

\* Mutant: a revision is stamped before it has run.
Stamp_First ==
    /\ phase = "migrating" /\ version < LastRevision /\ done = 0
    /\ version' = version + 1 /\ done' = 0
    /\ UNCHANGED <<schema, phase, lists, torn, kills, open, monitor, jobs, inFlight>>

Stamp ==
    /\ phase = "migrating" /\ version < LastRevision /\ done = Len(Revisions[version + 1])
    /\ version' = version + 1 /\ done' = 0
    /\ UNCHANGED <<schema, phase, lists, torn, kills, open, monitor, jobs, inFlight>>

-----------------------------------------------------------------------------
(* lifespan                                                                *)

InitDbDone ==
    /\ phase = "migrating" /\ version = LastRevision
    /\ phase' = "seeding"
    /\ UNCHANGED <<database, process>>

\* ensure_seeded has come back; ensure_default inserts a list if there is none.
EnsureDefault ==
    /\ phase = "seeding"
    /\ lists' = TRUE /\ phase' = "building"
    /\ UNCHANGED <<schema, version, torn, kills, process>>

\* build_market_data_service, then the monitor and the scheduler start.
StartServices ==
    /\ phase = "building"
    /\ open' \in SUBSET Clients
    /\ monitor' = "sleeping"
    /\ jobs' = IF SchedulerEnabled THEN "waiting" ELSE "none"
    /\ phase' = "serving"
    /\ UNCHANGED <<database, done, inFlight>>

\* ensure_seeded, ensure_default or what follows raises; the clients that are
\* open by then are left to the end of the process.
StartFails ==
    /\ phase \in {"seeding", "building"}
    /\ open' \in IF phase = "building" THEN SUBSET Clients ELSE {{}}
    /\ phase' = "aborted"
    /\ UNCHANGED <<database, done, monitor, jobs, inFlight>>

\* While the engine serves, tasks use the clients.
TakeRequest ==
    /\ phase = "serving" /\ inFlight = 0
    /\ inFlight' = 1
    /\ UNCHANGED <<database, done, phase, open, monitor, jobs>>
AnswerRequest ==
    /\ inFlight = 1
    /\ inFlight' = 0
    /\ UNCHANGED <<database, done, phase, open, monitor, jobs>>
Poll ==
    /\ monitor \in {"sleeping", "polling"}
    /\ monitor' = IF monitor = "sleeping" THEN "polling" ELSE "sleeping"
    /\ UNCHANGED <<database, done, phase, open, jobs, inFlight>>
Job ==
    /\ jobs \in {"waiting", "working"}
    /\ jobs' = IF jobs = "waiting" THEN "working" ELSE "waiting"
    /\ UNCHANGED <<database, done, phase, open, monitor, inFlight>>

\* uvicorn begins the shutdown when no request is left.
BeginShutdown ==
    /\ phase = "serving" /\ inFlight = 0
    /\ phase' = "stopping"
    /\ UNCHANGED <<database, process>>

\* shutdown(wait=False) puts its call on the event loop's queue: jobs go on.
StopJobs ==
    /\ phase = "stopping"
    /\ phase' = "jobs stopped"
    /\ UNCHANGED <<database, process>>

\* The call from the queue: no job starts any more, and those that run are
\* cancelled, which each of them learns when the loop comes to it.
CancelJobs ==
    /\ phase = "jobs stopped"
    /\ jobs' = IF jobs = "working" THEN "cancelled" ELSE "none"
    /\ phase' = "jobs cancelled"
    /\ UNCHANGED <<database, done, open, monitor, inFlight>>

\* A cancelled job ends, or still closes the client of its AI provider
\* ("finally"); it uses no Finnhub client any more.
JobCancelled ==
    /\ jobs = "cancelled"
    /\ jobs' \in {"none", "cleaning"}
    /\ UNCHANGED <<database, done, phase, open, monitor, inFlight>>
JobCleaned ==
    /\ jobs = "cleaning"
    /\ jobs' = "none"
    /\ UNCHANGED <<database, done, phase, open, monitor, inFlight>>

\* The monitor, cancelled after the jobs, ends.
StopMonitor ==
    /\ phase = "jobs cancelled"
    /\ monitor' = "none" /\ phase' = "monitor stopped"
    /\ UNCHANGED <<database, done, open, jobs, inFlight>>

\* lifespan awaited the monitor.  Its wake-up is queued behind that of a
\* cancelled job.
LifespanResumes ==
    /\ phase = "monitor stopped" /\ jobs # "cancelled"
    /\ phase' = "closing"
    /\ UNCHANGED <<database, process>>

\* Mutant: a client is closed as soon as the shutdown begins.
CloseClient_Early(c) ==
    /\ phase \in {"stopping", "jobs stopped", "jobs cancelled", "closing"} /\ c \in open
    /\ open' = open \ {c}
    /\ UNCHANGED <<database, phase, done, monitor, jobs, inFlight>>

CloseClient(c) ==
    /\ phase = "closing" /\ c \in open
    /\ open' = open \ {c}
    /\ UNCHANGED <<database, phase, done, monitor, jobs, inFlight>>

Reset(next) == phase' = next /\ done' = 0 /\ open' = {} /\ monitor' = "none" /\ jobs' = "none" /\ inFlight' = 0

Exit ==
    /\ phase \in {"failed", "aborted"} \/ (phase = "closing" /\ open = {})
    /\ Reset("down")
    /\ UNCHANGED database

\* The process is killed (the desktop app ends it with its tree, the machine
\* loses power, a statement of a migration meets a full disk).
Kill ==
    /\ phase # "down" /\ kills < MaxKills
    /\ Reset("down")
    /\ torn' = IF phase = "migrating" /\ done > 0 THEN version + 1 ELSE torn
    /\ kills' = kills + 1
    /\ UNCHANGED <<schema, version, lists>>

StartInit ==
    /\ schema = {} /\ version = 0 /\ lists = FALSE /\ torn = 0 /\ kills = 0
    /\ done = 0 /\ phase = "down" /\ open = {} /\ monitor = "none" /\ jobs = "none" /\ inFlight = 0

StartNext ==
    \/ Launch \/ Migrate \/ Stamp \/ InitDbDone \/ EnsureDefault \/ StartServices \/ StartFails
    \/ TakeRequest \/ AnswerRequest \/ Poll \/ Job
    \/ BeginShutdown \/ StopJobs \/ CancelJobs \/ JobCancelled \/ JobCleaned \/ StopMonitor \/ LifespanResumes
    \/ (\E c \in Clients : CloseClient(c)) \/ Exit \/ Kill

StartSpec == StartInit /\ [][StartNext]_startVars

-----------------------------------------------------------------------------
(* Properties                                                              *)

Created(n) == UNION {ToSet(Revisions[r]) : r \in 1 .. n}

\* However often the process is killed, the version never claims a revision
\* that is not wholly there, so that no revision is ever left out.
VersionNeverAhead == Created(version) \subseteq schema

\* No service runs on an old or a half-migrated database.
ServesLatestSchema == phase \notin {"down", "migrating", "failed"} => schema = Created(LastRevision)

\* What db/session.py says of init_db: a start "always lands on the latest
\* schema", also one after a kill.
LandsOnLatest == phase # "failed"

\* The migrations fit each other: init_db fails only after a kill in the middle
\* of the very revision it is at.
UpgradeFailsOnlyTorn == phase = "failed" => torn = version + 1

\* A Finnhub client is closed when no background task and no request is left
\* that may use it; a cancelled job may still be closing a client of its own.
ClientsOutliveTasks ==
    [][\A c \in open \ open' :
         phase' # "down" => monitor = "none" /\ jobs \in {"none", "cleaning"} /\ inFlight = 0]_startVars

\* Over kills, restarts and upgrades: no revision is skipped, no service runs
\* on an old or half-migrated database, and an upgrade fails for one reason
\* only, a revision that a kill has torn.
MigrationSafe ==
    /\ VersionNeverAhead
    /\ ServesLatestSchema
    /\ UpgradeFailsOnlyTorn
=============================================================================
