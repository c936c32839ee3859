---------------------------- MODULE AlertMonitor ----------------------------
(***************************************************************************)
(* The alert monitor of the engine: app/alerts/monitor.py over the tables  *)
(* `alerts` and `alert_events` (app/alerts/service.py), with the web       *)
(* sockets of app/api/ws.py as the receivers of its broadcasts.            *)
(*                                                                         *)
(* The monitor is one asyncio task.  It gives up the event loop at its     *)
(* awaits only (get_quote, send_json, sleep), so the web socket handlers   *)
(* run there and nowhere else.  The alert routes are plain `def`s: FastAPI *)
(* runs them in worker threads, and they commit between any two statements *)
(* of the monitor, between the SELECT and the INSERT of record_event too.  *)
(*                                                                         *)
(* A row is a record.  `uid` numbers the creations: SQLite reuses the id   *)
(* of a deleted row, a uid is never reused.  The code has no uid; it and   *)
(* the variables `owed`, `late` and `had` serve the properties only.       *)
(***************************************************************************)
EXTENDS Integers, Sequences, FiniteSets

CONSTANTS
    Symbols,     \* the symbols alerts are created for
    Kinds,       \* subset of {"plain", "cross", "badcross"}
    Cooldowns,   \* the cooldowns users choose, in ticks of `clock`
    Conns,       \* web socket connections, each opened at most once
    MayMiss,     \* TRUE: a condition may be false; FALSE: all of them hold
    MaxId,       \* bound: the largest row id
    MaxUid,      \* bound: creations
    MaxTime,     \* bound: the clock
    MaxFeed      \* bound: events in the table

ASSUME KindsAssumption == Kinds \subseteq {"plain", "cross", "badcross"}
ASSUME CooldownsAssumption == Cooldowns \subseteq Nat       \* Field(ge=0)
ASSUME BoundsAssumption ==
    MaxId \in Nat /\ MaxUid \in Nat /\ MaxTime \in Nat /\ MaxFeed \in Nat
ASSUME MayMissAssumption == MayMiss \in BOOLEAN

Never == -1      \* last_triggered_at IS NULL
Null  == 0       \* alert_id IS NULL; ids start at 1

VARIABLES
    rows,      \* table alerts
    feed,      \* table alert_events, in order of id
    nextUid,   \* uid of the next creation
    clock,     \* utcnow()
    pc,        \* where the monitor task stands
    pending,   \* the groups of this tick not yet evaluated, as one set
    firing,    \* alerts of the current group that fire, not yet recorded
    call,      \* record_event: its alert, its `now` and whether s.get found
               \* a row; <<>> outside it
    sending,   \* the rest of list(self._clients) in broadcast
    hub,       \* ConnectionHub._clients
    conn,      \* each connection: "new", "open", "lost" or "gone"
    owed,      \* open clients the frame being broadcast has yet to reach
    late,      \* per uid, events since the alert was switched off or deleted
    had        \* per uid, the cooldowns the alert has had

dbVars   == <<rows, feed, nextUid>>
taskVars == <<pc, pending, firing, call, sending>>
netVars  == <<hub, conn>>
aux      == <<owed, late, had>>
vars     == <<dbVars, clock, taskVars, netVars, aux>>

Ids  == 1..MaxId
Uids == 1..MaxUid

(* An AlertRow, and the Alert that _to_schema copies from it. *)
Row == [id : Ids, uid : Uids, symbol : Symbols, kind : Kinds,
        cooldown : Cooldowns, active : BOOLEAN, last : Nat \cup {Never}]

(* An AlertEventRow; `owner` and `cooldown` are those of the Alert         *)
(* record_event was called with.                                           *)
Event == [alert : Ids \cup {Null}, owner : Uids, at : Nat, cooldown : Cooldowns]

(***************************************************************************)
(* Helpers.                                                                *)
(***************************************************************************)

RowAt(id) == {r \in rows : r.id = id}

(* active_grouped returns the groups in the order of their first row, and  *)
(* the SELECT has no ORDER BY: SQLite scans in the order of the ids.       *)
First(alerts) == {a \in alerts : \A b \in alerts : a.id <= b.id}

NextGroup == {a \in pending : \E f \in First(pending) : f.symbol = a.symbol}

(* Mutant: the last second of the cooldown does not count. *)
CooldownElapsed_Early(a, now) == a.last = Never \/ now - a.last >= a.cooldown - 1

(* _cooldown_elapsed *)
CooldownElapsed(a, now) == a.last = Never \/ now - a.last >= a.cooldown

(* _cross_periods takes the periods of the first cross alert of the group  *)
(* for all of it; build_indicators raises on the periods of a "badcross".  *)
BadPeriods(group) ==
    LET crosses == {a \in group : a.kind \in {"cross", "badcross"}}
    IN  \E f \in First(crosses) : f.kind = "badcross"

(* The alerts of a group that can fire.  With bad periods the group gets   *)
(* through only when get_history returned no candles, and then no cross    *)
(* holds.                                                                  *)
CanHold(group) == IF BadPeriods(group) THEN {a \in group : a.kind = "plain"} ELSE group

(* Where the loops over the alerts and over the groups go next. *)
Resume(fire, groups) ==
    IF fire # {} THEN "read" ELSE IF groups # {} THEN "fetch" ELSE "sleep"

(* The event loop is free to run another coroutine. *)
AtAwait == pc \in {"sleep", "fetch", "send"}

(***************************************************************************)
(* The monitor task.                                                       *)
(***************************************************************************)

(* Mutant: active_grouped without its WHERE. *)
StartTick_Unfiltered ==
    /\ pc = "sleep"
    /\ rows # {}
    /\ Len(feed) + Cardinality(rows) <= MaxFeed
    /\ pending' = rows
    /\ pc' = "fetch"
    /\ UNCHANGED <<dbVars, clock, netVars, aux, firing, call, sending>>

(* _tick: the snapshot of the active alerts.  Bound: the tick must fit in  *)
(* the table.                                                              *)
StartTick ==
    LET active == {r \in rows : r.active}
    IN  /\ pc = "sleep"
        /\ active # {}
        /\ Len(feed) + Cardinality(active) <= MaxFeed
        /\ pending' = active
        /\ pc' = "fetch"
        /\ UNCHANGED <<dbVars, clock, netVars, aux,
                       firing, call, sending>>

(* An exception leaves _evaluate_symbol, _tick and its loop over the       *)
(* groups; _run catches it and sleeps.                                     *)
AbortTick ==
    /\ pending' = {}
    /\ firing' = {}
    /\ pc' = "sleep"

(* _evaluate_symbol up to the loop, when build_indicators raises. *)
GroupRaises ==
    /\ pc = "fetch"
    /\ BadPeriods(NextGroup)
    /\ AbortTick
    /\ UNCHANGED <<dbVars, clock, netVars, aux,
                   call, sending>>

(* Mutant: the loop over the groups ends after the first one. *)
EvaluateGroup_FirstOnly ==
    /\ pc = "fetch"
    /\ firing' = {a \in CanHold(NextGroup) : CooldownElapsed(a, clock)}
    /\ pending' = {}
    /\ pc' = Resume(firing', {})
    /\ UNCHANGED <<dbVars, clock, netVars, aux, call, sending>>

(* _evaluate_symbol after its awaits: one `now` and one snapshot serve the *)
(* whole group, so which alerts fire is settled here.                      *)
EvaluateGroup ==
    /\ pc = "fetch"
    /\ LET group   == NextGroup
           elapsed == {a \in CanHold(group) : CooldownElapsed(a, clock)}
       IN  /\ firing' \in IF MayMiss THEN SUBSET elapsed ELSE {elapsed}
           /\ pending' = pending \ group
           /\ pc' = Resume(firing', pending')
    /\ UNCHANGED <<dbVars, clock, netVars, aux,
                   call, sending>>

(* record_event: now = utcnow(); s.get(AlertRow, alert.id) *)
RecordRead ==
    /\ pc = "read"
    /\ \E alert \in First(firing) :
         /\ call' = [alert |-> alert, stamp |-> clock,
                     seen |-> RowAt(alert.id) # {}]
         /\ firing' = firing \ {alert}
    /\ pc' = "flush"
    /\ UNCHANGED <<dbVars, clock, netVars, aux, pending, sending>>

(* s.flush() without the row: the UPDATE of a row that is gone raises      *)
(* StaleDataError, and the INSERT alone violates the foreign key.          *)
RecordFails ==
    /\ pc = "flush"
    /\ RowAt(call.alert.id) = {}
    /\ AbortTick
    /\ call' = <<>>
    /\ UNCHANGED <<dbVars, clock, netVars, aux, sending>>

(* Mutant: record_event does not stamp the row. *)
Stamped_Not(r) == r

Stamped(r) == [r EXCEPT !.last = call.stamp]

NewEvent == [alert |-> call.alert.id, owner |-> call.alert.uid,
             at |-> call.stamp, cooldown |-> call.alert.cooldown]

SwitchedOff(uid) == \A r \in rows : r.uid = uid => ~r.active

(* s.flush() and commit, and broadcast's copy of the clients. *)
RecordFlush ==
    /\ pc = "flush"
    /\ LET found == RowAt(call.alert.id)
           owner == call.alert.uid
       IN  /\ found # {}
           /\ rows' = IF call.seen
                        THEN (rows \ found) \cup {Stamped(r) : r \in found}
                        ELSE rows
           /\ late' = IF SwitchedOff(owner)
                        THEN [late EXCEPT ![owner] = @ + 1] ELSE late
    /\ feed' = Append(feed, NewEvent)
    /\ call' = <<>>
    /\ sending' = hub
    /\ owed' = {c \in hub : conn[c] = "open"}
    /\ pc' = "send"
    /\ UNCHANGED <<nextUid, clock, netVars, pending, firing, had>>

(* Mutant: broadcast without its try: the first dead socket ends it. *)
SendFrame_Unguarded(c) ==
    /\ pc = "send"
    /\ c \in sending
    /\ sending' = IF conn[c] = "open" THEN sending \ {c} ELSE {}
    /\ owed' = owed \ {c}
    /\ UNCHANGED <<dbVars, clock, netVars, late, had, pc, pending, firing, call>>

(* Mutant: a send that raises is tried again. *)
SendFrame_Retry(c) ==
    /\ pc = "send"
    /\ c \in sending
    /\ conn[c] = "open"
    /\ sending' = sending \ {c}
    /\ owed' = owed \ {c}
    /\ UNCHANGED <<dbVars, clock, netVars, late, had, pc, pending, firing, call>>

(* One send_json of broadcast.  On an open connection it succeeds; on a    *)
(* lost one the server may not know yet, and either it is buffered or it   *)
(* raises and the client is discarded.                                     *)
SendFrame(c) ==
    /\ pc = "send"
    /\ c \in sending
    /\ sending' = sending \ {c}
    /\ owed' = owed \ {c}
    /\ \/ conn[c] # "gone" /\ UNCHANGED hub
       \/ conn[c] # "open" /\ hub' = hub \ {c}
    /\ UNCHANGED <<dbVars, clock, conn, late, had,
                   pc, pending, firing, call>>

BroadcastDone ==
    /\ pc = "send"
    /\ sending = {}
    /\ pc' = Resume(firing, pending)
    /\ UNCHANGED <<dbVars, clock, netVars, aux,
                   pending, firing, call, sending>>

(***************************************************************************)
(* The alert routes, in worker threads of the same process.                *)
(***************************************************************************)

Serving == pc # "down"

NewRow(id, symbol, kind, cooldown) ==
    [id |-> id, uid |-> nextUid, symbol |-> symbol, kind |-> kind,
     cooldown |-> cooldown, active |-> TRUE, last |-> Never]

(* Creation takes the smallest id above those in the table. *)
Create(symbol, kind, cooldown) ==
    /\ Serving
    /\ nextUid <= MaxUid
    /\ \E id \in Ids :
         /\ \A r \in rows : r.id < id
         /\ id = 1 \/ RowAt(id - 1) # {}
         /\ rows' = rows \cup {NewRow(id, symbol, kind, cooldown)}
    /\ nextUid' = nextUid + 1
    /\ had' = [had EXCEPT ![nextUid] = {cooldown}]
    /\ UNCHANGED <<feed, clock, taskVars, netVars, owed, late>>

(* The fields of an AlertUpdate the monitor reads; the last trigger is not *)
(* among them, and neither are the symbol and the type.                    *)
Update(r, cooldown, active) ==
    /\ Serving
    /\ rows' = (rows \ {r}) \cup
                 {[r EXCEPT !.cooldown = cooldown, !.active = active]}
    /\ late' = IF active THEN [late EXCEPT ![r.uid] = 0] ELSE late
    /\ had' = [had EXCEPT ![r.uid] = @ \cup {cooldown}]
    /\ UNCHANGED <<feed, nextUid, clock, taskVars, netVars, owed>>

(* ON DELETE SET NULL *)
Orphaned(e, id) == [e EXCEPT !.alert = IF @ = id THEN Null ELSE @]

Delete(r) ==
    /\ Serving
    /\ rows' = rows \ {r}
    /\ feed' = [i \in DOMAIN feed |-> Orphaned(feed[i], r.id)]
    /\ UNCHANGED <<nextUid, clock, taskVars, netVars, aux>>

(***************************************************************************)
(* The web sockets.                                                        *)
(***************************************************************************)

(* accept() and hub.add *)
Connect(c) ==
    /\ AtAwait
    /\ conn[c] = "new"
    /\ conn' = [conn EXCEPT ![c] = "open"]
    /\ hub' = hub \cup {c}
    /\ UNCHANGED <<dbVars, clock, taskVars, aux>>

(* The client or the network goes away; the server does not know yet. *)
Drop(c) ==
    /\ conn[c] = "open"
    /\ conn' = [conn EXCEPT ![c] = "lost"]
    /\ owed' = owed \ {c}
    /\ UNCHANGED <<dbVars, clock, taskVars, hub, late, had>>

(* receive_json raises, and the handler's finally runs hub.remove. *)
ServerNotices(c) ==
    /\ AtAwait
    /\ conn[c] = "lost"
    /\ conn' = [conn EXCEPT ![c] = "gone"]
    /\ hub' = hub \ {c}
    /\ UNCHANGED <<dbVars, clock, taskVars, aux>>

(***************************************************************************)
(* The process and the clock.                                              *)
(***************************************************************************)

(* stop() cancels the task at an await, a crash ends it anywhere; what is  *)
(* in memory is lost with the process either way.                          *)
Halt ==
    /\ Serving
    /\ pc' = "down"
    /\ pending' = {}
    /\ firing' = {}
    /\ sending' = {}
    /\ owed' = {}
    /\ hub' = {}
    /\ conn' = [c \in Conns |-> IF conn[c] = "new" THEN "new" ELSE "gone"]
    /\ call' = <<>>
    /\ UNCHANGED <<dbVars, clock, late, had>>

(* The lifespan of the next process calls start(); its first tick precedes *)
(* the first sleep.                                                        *)
Restart ==
    /\ pc = "down"
    /\ pc' = "sleep"
    /\ UNCHANGED <<dbVars, clock, netVars, aux,
                   pending, firing, call, sending>>

Advance ==
    /\ clock < MaxTime
    /\ clock' = clock + 1
    /\ UNCHANGED <<dbVars, taskVars, netVars, aux>>

(***************************************************************************)
(* The specification.                                                      *)
(***************************************************************************)

Init ==
    /\ rows = {} /\ feed = <<>> /\ nextUid = 1
    /\ clock = 0
    /\ pc = "sleep"
    /\ pending = {} /\ firing = {} /\ call = <<>>
    /\ sending = {}
    /\ hub = {} /\ conn = [c \in Conns |-> "new"]
    /\ owed = {}
    /\ late = [u \in Uids |-> 0]
    /\ had = [u \in Uids |-> {}]

MonitorStep ==
    \/ StartTick \/ GroupRaises \/ EvaluateGroup
    \/ RecordRead \/ RecordFails \/ RecordFlush
    \/ \E c \in Conns : SendFrame(c)
    \/ BroadcastDone

RouteStep ==
    \/ \E s \in Symbols, k \in Kinds, d \in Cooldowns : Create(s, k, d)
    \/ \E r \in rows :
         \/ \E d \in Cooldowns, b \in BOOLEAN : Update(r, d, b)
         \/ Delete(r)

SocketStep == \E c \in Conns : Connect(c) \/ Drop(c) \/ ServerNotices(c)

Next == MonitorStep \/ RouteStep \/ SocketStep \/ Halt \/ Restart \/ Advance

Spec == Init /\ [][Next]_vars

(* The monitor is a task of a running event loop: each await returns (the  *)
(* providers have timeouts, the web socket server pings its peers).        *)
(* Nothing restarts an engine that is down.                                *)
LiveSpec == Spec /\ WF_vars(MonitorStep)

(***************************************************************************)
(* Properties.                                                             *)
(***************************************************************************)

(* Every variable holds what its declaration says. *)
TypeOK ==
    /\ rows \subseteq Row
    /\ feed \in Seq(Event)
    /\ nextUid \in 1..(MaxUid + 1)
    /\ clock \in 0..MaxTime
    /\ pc \in {"sleep", "fetch", "read", "flush", "send", "down"}
    /\ pending \subseteq Row
    /\ firing \subseteq Row
    /\ pc = "flush" => call \in [alert : Row, stamp : Nat, seen : BOOLEAN]
    /\ sending \subseteq Conns
    /\ hub \subseteq Conns
    /\ conn \in [Conns -> {"new", "open", "lost", "gone"}]
    /\ owed \subseteq Conns
    /\ late \in [Uids -> Nat]
    /\ had \in [Uids -> SUBSET Cooldowns]

(* Two events of one alert lie at least one cooldown apart, whatever the   *)
(* routes do to its row while the tick that fires it holds an old copy,    *)
(* and across restarts.                                                    *)
CooldownRespected ==
    \A i, j \in DOMAIN feed :
        i < j /\ feed[i].owner = feed[j].owner
            => feed[j].at - feed[i].at >= feed[j].cooldown

(* A broadcast ends only when the frame has been sent to every client that *)
(* was connected when it began and still is: a dead socket costs the       *)
(* others nothing.                                                         *)
BroadcastComplete == pc # "send" => owed = {}

(* An alert that was switched off or deleted fires at most once more (the  *)
(* tick that was running), until it is switched on again.                  *)
AtMostOneLateFire == \A u \in Uids : late[u] <= 1

(* An event names the alert that fired, or none once that is deleted.      *)
EventNamesItsAlert ==
    \A i \in DOMAIN feed : \A r \in RowAt(feed[i].alert) : feed[i].owner = r.uid

(* The alert u is in the table, active and past its cooldown. *)
Due(u) == \E r \in rows : r.uid = u /\ r.active /\ CooldownElapsed(r, clock)

(***************************************************************************)
(* The inductive invariant behind CooldownRespected and AtMostOneLateFire. *)
(***************************************************************************)

Queued == pending \cup firing

(* The copies of the rows that this tick may still record. *)
Held == Queued \cup IF pc = "flush" THEN {call.alert} ELSE {}

(* A uid stands for one alert: in the table, and among the copies. *)
OneRowPerUid ==
    /\ \A r, s \in rows : r.uid = s.uid => r = s
    /\ \A a, b \in Queued : a.uid = b.uid => a = b
    /\ pending \cap firing = {}
    /\ pc = "flush" => \A a \in Queued : a.uid # call.alert.uid
    /\ \A r \in rows, a \in Held : r.uid = a.uid => r.id = a.id
    /\ \A r \in rows \cup Held : r.uid < nextUid

(* last_triggered_at, in the row and in its copy, covers every event of    *)
(* the alert.                                                              *)
LastCoversFeed ==
    \A i \in DOMAIN feed :
        /\ feed[i].at <= clock
        /\ feed[i].owner < nextUid
        /\ \A r \in rows \cup Held : feed[i].owner = r.uid => feed[i].at <= r.last

(* What fires was past its cooldown, and record_event stamps the row of    *)
(* the alert it records if there still is one.                             *)
FiringIsDue ==
    /\ pc \in {"sleep", "fetch", "down"} => firing = {}
    /\ \A a \in firing : CooldownElapsed(a, clock)
    /\ pc = "flush" =>
         /\ CooldownElapsed(call.alert, call.stamp)
         /\ call.stamp <= clock
         /\ \A i \in DOMAIN feed : feed[i].at <= call.stamp
         /\ ~call.seen => \A r \in rows : r.uid # call.alert.uid

(* Only an alert with no late event is active, or held by the tick. *)
LateFiresBounded ==
    /\ AtMostOneLateFire
    /\ \A r \in rows : r.active => late[r.uid] = 0
    /\ \A a \in Held : late[a.uid] = 0
    /\ \A u \in Uids : u >= nextUid => late[u] = 0

(* Every reachable state satisfies TypeOK and these five facts, which each *)
(* step preserves: the tick's copies never lag behind the table in a way   *)
(* that would let an alert fire too soon or too often.                     *)
MonitorInv ==
    /\ TypeOK
    /\ OneRowPerUid
    /\ LastCoversFeed
    /\ FiringIsDue
    /\ LateFiresBounded
    /\ CooldownRespected

(***************************************************************************)
(* Liveness.                                                               *)
(***************************************************************************)

(* The active alerts of the symbol of u: the group it is evaluated in. *)
GroupOf(u) ==
    {r \in rows : r.active /\ \E own \in rows : own.uid = u /\ own.symbol = r.symbol}

(* Once the users leave their alerts alone, no alert whose condition holds *)
(* and whose own group can be evaluated stays due for ever: the monitor    *)
(* comes round to it and fires it ("evaluates every active alert on an     *)
(* interval", monitor.py:3), whatever the alerts of other symbols do.      *)
EveryDueAlertFires ==
    <>[][~RouteStep]_vars =>
        \A u \in Uids : []<>(~Due(u) \/ BadPeriods(GroupOf(u)) \/ pc = "down")

(* No alert stays due for ever while no active alert makes its group       *)
(* raise: dead sockets, records that fail, deletions and restarts starve   *)
(* none.                                                                   *)
SoundAlertsFire ==
    LET Raising == \E r \in rows : r.active /\ r.kind = "badcross"
    IN  \A u \in Uids : []<>(~Due(u) \/ pc = "down" \/ Raising)

(* A tick ends: the monitor is always back at its sleep, or stopped.       *)
TickEnds == []<>(pc \in {"sleep", "down"})

(* The monitor implements AlertContract: what the snapshots, the threads,  *)
(* the reused ids and the restarts add to it cannot be seen in the events. *)
Status(u) ==
    IF u >= nextUid THEN "none"
    ELSE IF ~SwitchedOff(u) THEN "on"
    ELSE IF late[u] = 0 THEN "closing" ELSE "off"

Promise == INSTANCE AlertContract WITH
    Alerts <- Uids,
    status <- [u \in Uids |-> Status(u)],
    log    <- [i \in DOMAIN feed |-> [owner |-> feed[i].owner, at |-> feed[i].at,
                                     cooldown |-> feed[i].cooldown]],
    time   <- clock

ImplementsContract == Promise!Spec
=============================================================================
