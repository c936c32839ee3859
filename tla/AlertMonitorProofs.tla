------------------------- MODULE AlertMonitorProofs -------------------------
(***************************************************************************)
(* Proofs about the alert monitor, for every value of its constants: the   *)
(* type invariant, the distance between the events of an alert, the bound  *)
(* on what fires after an alert is switched off or deleted, complete       *)
(* broadcasts, and that the monitor implements AlertContract.              *)
(***************************************************************************)
EXTENDS AlertMonitor, TLAPS

USE KindsAssumption, CooldownsAssumption, BoundsAssumption, MayMissAssumption

(***************************************************************************)
(* Type correctness.                                                       *)
(***************************************************************************)

(* A stamped row is a row. *)
LEMMA StampedRow ==
    ASSUME NEW r \in Row, call.stamp \in Nat
    PROVE  /\ Stamped(r) \in Row
           /\ Stamped(r).id = r.id /\ Stamped(r).uid = r.uid
           /\ Stamped(r).active = r.active /\ Stamped(r).last = call.stamp
  BY DEF Stamped, Row

(* An orphaned event is an event, of the same owner and the same time. *)
LEMMA OrphanedEvent ==
    ASSUME NEW e \in Event, NEW id \in Ids
    PROVE  /\ Orphaned(e, id) \in Event
           /\ Orphaned(e, id).owner = e.owner /\ Orphaned(e, id).at = e.at
           /\ Orphaned(e, id).cooldown = e.cooldown
  BY DEF Orphaned, Event, Null

(* The feed holds events. *)
LEMMA EventsInFeed ==
    ASSUME TypeOK
    PROVE  \A i \in DOMAIN feed : feed[i] \in Event
  BY DEF TypeOK

(* Each step keeps the types. *)
LEMMA TypeStep ==
    ASSUME TypeOK, [Next]_vars
    PROVE  TypeOK'
<1> USE DEF TypeOK
<1>1. CASE StartTick
  BY <1>1 DEF StartTick, dbVars, netVars, aux
<1>2. CASE GroupRaises
  BY <1>2 DEF GroupRaises, AbortTick, dbVars, netVars, aux
<1>3. CASE EvaluateGroup
  BY <1>3 DEF EvaluateGroup, CanHold, NextGroup, Resume, dbVars, netVars, aux
<1>4. CASE RecordRead
  BY <1>4 DEF RecordRead, First, dbVars, netVars, aux
<1>5. CASE RecordFails
  BY <1>5 DEF RecordFails, AbortTick, dbVars, netVars, aux
<1>6. CASE RecordFlush
  <2>1. call \in [alert : Row, stamp : Nat, seen : BOOLEAN]
    BY <1>6 DEF RecordFlush
  <2>2. NewEvent \in Event
    BY <2>1 DEF NewEvent, Row, Event
  <2>3. feed' \in Seq(Event)
    BY <1>6, <2>2 DEF RecordFlush
  <2>4. rows' \subseteq Row
    BY <1>6, <2>1, StampedRow DEF RecordFlush, RowAt
  <2>5. late' \in [Uids -> Nat]
    BY <1>6, <2>1 DEF RecordFlush, Row
  <2> QED
    BY <1>6, <2>3, <2>4, <2>5 DEF RecordFlush, netVars
<1>7. ASSUME NEW c \in Conns, SendFrame(c) PROVE TypeOK'
  BY <1>7 DEF SendFrame, dbVars
<1>8. CASE BroadcastDone
  BY <1>8 DEF BroadcastDone, Resume, dbVars, netVars, aux
<1>9. ASSUME NEW s \in Symbols, NEW k \in Kinds, NEW d \in Cooldowns, Create(s, k, d)
      PROVE TypeOK'
  <2>1. \A id \in Ids : NewRow(id, s, k, d) \in Row
    BY <1>9 DEF Create, NewRow, Row, Uids, Never
  <2>2. rows' \subseteq Row /\ nextUid' \in 1..(MaxUid + 1)
    BY <1>9, <2>1 DEF Create
  <2>3. had' \in [Uids -> SUBSET Cooldowns]
    BY <1>9 DEF Create, Uids
  <2> QED
    BY <1>9, <2>2, <2>3 DEF Create, taskVars, netVars
<1>10. ASSUME NEW r \in rows, NEW d \in Cooldowns, NEW b \in BOOLEAN, Update(r, d, b)
       PROVE TypeOK'
  <2>1. [r EXCEPT !.cooldown = d, !.active = b] \in Row /\ r.uid \in Uids
    BY DEF Row
  <2> QED
    BY <1>10, <2>1 DEF Update, taskVars, netVars
<1>11. ASSUME NEW r \in rows, Delete(r) PROVE TypeOK'
  <2>1. r.id \in Ids
    BY DEF Row
  <2>2. feed' \in Seq(Event)
    BY <1>11, <2>1, OrphanedEvent DEF Delete
  <2> QED
    BY <1>11, <2>2 DEF Delete, taskVars, netVars, aux
<1>12. ASSUME NEW c \in Conns, Connect(c) PROVE TypeOK'
  BY <1>12 DEF Connect, dbVars, taskVars, aux
<1>13. ASSUME NEW c \in Conns, Drop(c) PROVE TypeOK'
  BY <1>13 DEF Drop, dbVars, taskVars
<1>14. ASSUME NEW c \in Conns, ServerNotices(c) PROVE TypeOK'
  BY <1>14 DEF ServerNotices, dbVars, taskVars, aux
<1>15. CASE Halt
  BY <1>15 DEF Halt, dbVars
<1>16. CASE Restart
  BY <1>16 DEF Restart, dbVars, netVars, aux
<1>17. CASE Advance
  BY <1>17 DEF Advance, dbVars, taskVars, netVars, aux
<1>18. CASE UNCHANGED vars
  BY <1>18 DEF vars, dbVars, taskVars, netVars, aux
<1> QED
  BY <1>1, <1>2, <1>3, <1>4, <1>5, <1>6, <1>7, <1>8, <1>9, <1>10, <1>11, <1>12,
     <1>13, <1>14, <1>15, <1>16, <1>17, <1>18
     DEF Next, MonitorStep, RouteStep, SocketStep

(* The variables hold what they are declared to hold (the tables, the      *)
(* monitor's locals, the connections), whatever the interleaving.          *)
THEOREM TypeCorrect == Spec => []TypeOK
<1>1. Init => TypeOK
  BY DEF Init, TypeOK, Row, Event, Uids, Ids
<1>2. TypeOK /\ [Next]_vars => TypeOK'
  BY TypeStep
<1> QED
  BY <1>1, <1>2, PTL DEF Spec

(***************************************************************************)
(* The inductive invariant.                                                *)
(***************************************************************************)

(* A step preserves MonitorInv if it leaves the tables and the clock alone *)
(* and gives up copies without taking any: aborts, sends, connections,     *)
(* halts and restarts.                                                     *)
LEMMA QuietStep ==
    ASSUME MonitorInv, TypeOK',
           UNCHANGED <<rows, feed, nextUid, clock, late>>,
           pending' \subseteq pending, firing' \subseteq firing,
           pc' = "flush" => pc = "flush" /\ call' = call,
           pc' \in {"sleep", "fetch", "down"} => firing' = {}
    PROVE  MonitorInv'
<1> USE DEF MonitorInv
<1>1. Queued' \subseteq Queued /\ Held' \subseteq Held
  BY DEF Queued, Held
<1>2. OneRowPerUid'
  BY <1>1 DEF OneRowPerUid
<1>3. LastCoversFeed'
  BY <1>1 DEF LastCoversFeed
<1>4. FiringIsDue'
  BY DEF FiringIsDue, CooldownElapsed
<1>5. LateFiresBounded'
  BY <1>1 DEF LateFiresBounded, AtMostOneLateFire
<1>6. CooldownRespected'
  BY DEF CooldownRespected
<1> QED
  BY <1>2, <1>3, <1>4, <1>5, <1>6

(* The snapshot of the active rows. *)
LEMMA StartTickStep ==
    ASSUME MonitorInv, TypeOK', StartTick
    PROVE  MonitorInv'
<1> USE DEF MonitorInv, StartTick, dbVars, netVars, aux
<1>1. firing = {} /\ pending' \subseteq rows /\ \A a \in pending' : a.active
  BY DEF FiringIsDue
<1>2. Queued' = pending' /\ Held' = pending'
  BY <1>1 DEF Queued, Held
<1>3. OneRowPerUid'
  BY <1>1, <1>2 DEF OneRowPerUid
<1>4. LastCoversFeed'
  BY <1>1, <1>2 DEF LastCoversFeed
<1>5. FiringIsDue'
  BY <1>1 DEF FiringIsDue
<1>6. LateFiresBounded'
  BY <1>1, <1>2 DEF LateFiresBounded, AtMostOneLateFire
<1>7. CooldownRespected'
  BY DEF CooldownRespected
<1> QED
  BY <1>3, <1>4, <1>5, <1>6, <1>7

(* Some alerts of a group move from `pending` to `firing`, all due. *)
LEMMA EvaluateGroupStep ==
    ASSUME MonitorInv, TypeOK', EvaluateGroup
    PROVE  MonitorInv'
<1> USE DEF MonitorInv, EvaluateGroup, dbVars, netVars, aux
<1>1. /\ firing = {} /\ firing' \subseteq pending
      /\ pending' \subseteq pending /\ pending' \cap firing' = {}
      /\ \A a \in firing' : CooldownElapsed(a, clock)
  BY DEF FiringIsDue, NextGroup, CanHold
<1>2. /\ pc' \in {"read", "fetch", "sleep"}
      /\ pc' \in {"fetch", "sleep"} => firing' = {}
  BY DEF Resume
<1>3. Queued' \subseteq Queued /\ Held' \subseteq Held
  BY <1>1, <1>2 DEF Queued, Held
<1>4. OneRowPerUid'
  BY <1>1, <1>2, <1>3 DEF OneRowPerUid
<1>5. LastCoversFeed'
  BY <1>3 DEF LastCoversFeed
<1>6. FiringIsDue'
  BY <1>1, <1>2 DEF FiringIsDue, CooldownElapsed
<1>7. LateFiresBounded'
  BY <1>3 DEF LateFiresBounded, AtMostOneLateFire
<1>8. CooldownRespected'
  BY DEF CooldownRespected
<1> QED
  BY <1>4, <1>5, <1>6, <1>7, <1>8

(* record_event reads the row of the alert it was called with. *)
LEMMA RecordReadStep ==
    ASSUME MonitorInv, TypeOK', RecordRead
    PROVE  MonitorInv'
<1> USE DEF MonitorInv, RecordRead, dbVars, netVars, aux
<1>1. PICK alert \in firing :
        /\ call' = [alert |-> alert, stamp |-> clock, seen |-> RowAt(alert.id) # {}]
        /\ firing' = firing \ {alert}
  BY DEF First
<1>2. /\ call'.alert = alert /\ call'.stamp = clock
      /\ ~call'.seen => \A r \in rows : r.id # alert.id
  BY <1>1 DEF RowAt
<1>3. Held' = Queued' \cup {alert} /\ Held' = Held /\ alert \notin Queued'
  BY <1>1, <1>2 DEF Held, Queued, OneRowPerUid
<1>4. OneRowPerUid'
  BY <1>1, <1>2, <1>3 DEF OneRowPerUid, Queued
<1>5. LastCoversFeed'
  BY <1>3 DEF LastCoversFeed
<1>6. FiringIsDue'
  <2>1. clock \in Nat /\ alert \in Held
    BY DEF TypeOK, Held, Queued
  <2> QED
    BY <1>1, <1>2, <2>1 DEF FiringIsDue, CooldownElapsed, LastCoversFeed, OneRowPerUid
<1>7. LateFiresBounded'
  BY <1>3 DEF LateFiresBounded, AtMostOneLateFire
<1>8. CooldownRespected'
  BY DEF CooldownRespected
<1> QED
  BY <1>4, <1>5, <1>6, <1>7, <1>8

(* The event goes to the feed and the time to the row: the alert leaves    *)
(* the tick's copies, and its row, if there still is one, covers the event *)
(* that was added.                                                         *)
LEMMA RecordFlushStep ==
    ASSUME MonitorInv, TypeOK', RecordFlush
    PROVE  MonitorInv'
<1> USE DEF MonitorInv, RecordFlush
<1> DEFINE alert == call.alert
           found == RowAt(alert.id)
           n == Len(feed) + 1
           Kept(s) == IF call.seen /\ s \in found THEN Stamped(s) ELSE s
<1>1. /\ call \in [alert : Row, stamp : Nat, seen : BOOLEAN]
      /\ alert \in Held /\ alert \in Row
      /\ call.stamp \in Nat /\ alert.cooldown \in Nat
      /\ alert.last \in Nat \cup {Never}
  BY DEF TypeOK, Held, Row
<1>2. /\ DOMAIN feed' = DOMAIN feed \cup {n} /\ n \notin DOMAIN feed
      /\ \A i \in DOMAIN feed : feed'[i] = feed[i] /\ i < n /\ i \in Nat
      /\ feed'[n] = NewEvent
      /\ \A i \in DOMAIN feed : feed[i] \in Event
  BY DEF TypeOK
<1>3. /\ NewEvent.owner = alert.uid /\ NewEvent.at = call.stamp
      /\ NewEvent.cooldown = alert.cooldown
  BY DEF NewEvent
<1>4. /\ Held' = Queued /\ Queued' = Queued /\ pending' = pending /\ firing' = firing
      /\ Queued \subseteq Held
      /\ \A a \in Queued : a.uid # alert.uid
  BY DEF Held, Queued, OneRowPerUid
<1>5. /\ rows' = {Kept(s) : s \in rows}
      /\ \A s \in rows : /\ Kept(s).uid = s.uid /\ Kept(s).id = s.id
                         /\ Kept(s).active = s.active
                         /\ Kept(s).last \in {s.last, call.stamp}
                         /\ call.seen /\ s \in found => Kept(s).last = call.stamp
  <2>1. rows' = {Kept(s) : s \in rows}
    BY DEF RowAt
  <2>2. \A s \in rows : s \in Row
    BY DEF TypeOK
  <2> QED
    BY <1>1, <2>1, <2>2, StampedRow
<1> HIDE DEF Kept
<1>6. OneRowPerUid'
  <2>1. \A r, s \in rows' : r.uid = s.uid => r = s
    BY <1>5 DEF OneRowPerUid
  <2>2. \A r \in rows', a \in Held' : r.uid = a.uid => r.id = a.id
    BY <1>4, <1>5 DEF OneRowPerUid
  <2>3. \A r \in rows' \cup Held' : r.uid < nextUid'
    BY <1>4, <1>5 DEF OneRowPerUid
  <2> QED
    BY <1>4, <2>1, <2>2, <2>3 DEF OneRowPerUid
<1>7. LastCoversFeed'
  <2>1. \A i \in DOMAIN feed' : feed'[i].at <= clock' /\ feed'[i].owner < nextUid'
    BY <1>1, <1>2, <1>3 DEF LastCoversFeed, FiringIsDue, OneRowPerUid
  <2>2. ASSUME NEW i \in DOMAIN feed', NEW a \in Held', feed'[i].owner = a.uid
        PROVE  feed'[i].at <= a.last
    BY <1>2, <1>3, <1>4, <2>2 DEF LastCoversFeed
  <2>3. ASSUME NEW i \in DOMAIN feed', NEW r \in rows', feed'[i].owner = r.uid
        PROVE  feed'[i].at <= r.last
    <3>1. PICK s \in rows : r = Kept(s)
      BY <1>5
    <3>2. CASE i = n
      <4>1. s.uid = alert.uid
        BY <1>2, <1>3, <1>5, <2>3, <3>1, <3>2
      <4>2. call.seen /\ s \in found
        BY <1>1, <4>1 DEF FiringIsDue, OneRowPerUid, RowAt
      <4> QED
        BY <1>1, <1>2, <1>3, <1>5, <3>1, <3>2, <4>2
    <3>3. CASE i \in DOMAIN feed
      BY <1>1, <1>2, <1>5, <2>3, <3>1, <3>3 DEF LastCoversFeed, FiringIsDue
    <3> QED
      BY <1>2, <3>2, <3>3
  <2> QED
    BY <2>1, <2>2, <2>3 DEF LastCoversFeed
<1>8. FiringIsDue'
  BY DEF FiringIsDue, CooldownElapsed
<1>9. LateFiresBounded'
  <2>1. /\ late[alert.uid] = 0 /\ alert.uid \in Uids /\ alert.uid < nextUid
        /\ late \in [Uids -> Nat]
    BY <1>1 DEF LateFiresBounded, OneRowPerUid, Row, TypeOK
  <2>2. /\ late' \in [Uids -> Nat] /\ late'[alert.uid] <= 1
        /\ \A u \in Uids : u # alert.uid => late'[u] = late[u]
        /\ ~SwitchedOff(alert.uid) => late' = late
    BY <2>1
  <2>3. ASSUME NEW r \in rows', r.active PROVE late'[r.uid] = 0
    <3>1. PICK s \in rows : s.uid = r.uid /\ s.active = r.active
      BY <1>5
    <3>2. s.uid \in Uids /\ late[s.uid] = 0
      BY <2>3, <3>1 DEF LateFiresBounded, TypeOK, Row
    <3> QED
      BY <2>2, <2>3, <3>1, <3>2 DEF SwitchedOff
  <2>4. ASSUME NEW a \in Held' PROVE late'[a.uid] = 0
    <3>1. a \in Held /\ a.uid # alert.uid /\ a.uid \in Uids
      BY <1>4 DEF TypeOK, Row, Queued
    <3> QED
      BY <2>2, <3>1 DEF LateFiresBounded
  <2>5. \A u \in Uids : u >= nextUid' => late'[u] = 0
    BY <2>1, <2>2 DEF LateFiresBounded, TypeOK, Uids
  <2>6. AtMostOneLateFire'
    BY <2>1, <2>2 DEF LateFiresBounded, AtMostOneLateFire
  <2> QED
    BY <2>3, <2>4, <2>5, <2>6 DEF LateFiresBounded
<1>10. CooldownRespected'
  <2>1. ASSUME NEW i \in DOMAIN feed, feed[i].owner = alert.uid
        PROVE  call.stamp - feed[i].at >= alert.cooldown
    <3>1. feed[i].at \in Nat /\ feed[i].at <= alert.last
      BY <1>1, <1>2, <2>1 DEF LastCoversFeed, Event
    <3>2. alert.last \in Nat /\ call.stamp - alert.last >= alert.cooldown
      BY <1>1, <3>1 DEF FiringIsDue, CooldownElapsed, Never
    <3> QED
      BY <1>1, <3>1, <3>2
  <2> QED
    BY <1>2, <1>3, <2>1 DEF CooldownRespected
<1> QED
  BY <1>6, <1>7, <1>8, <1>9, <1>10

(* A new row has a uid no event, no row and no copy has; it may reuse the  *)
(* id of a deleted row.                                                    *)
LEMMA CreateStep ==
    ASSUME MonitorInv, TypeOK', NEW symbol \in Symbols, NEW kind \in Kinds,
           NEW cooldown \in Cooldowns, Create(symbol, kind, cooldown)
    PROVE  MonitorInv'
<1> USE DEF MonitorInv, Create, taskVars, netVars
<1>1. PICK id \in Ids : rows' = rows \cup {NewRow(id, symbol, kind, cooldown)}
  OBVIOUS
<1>2. PICK new : /\ rows' = rows \cup {new}
                 /\ new.uid = nextUid /\ nextUid \in Uids
  <2>1. NewRow(id, symbol, kind, cooldown).uid = nextUid
    BY DEF NewRow
  <2>2. nextUid \in Uids
    BY DEF TypeOK, Uids
  <2> QED
    BY <1>1, <2>1, <2>2
<1>3. Queued' = Queued /\ Held' = Held /\ nextUid' = nextUid + 1 /\ nextUid \in Nat
  BY DEF Queued, Held, TypeOK
<1>4. \A r \in rows \cup Held : r.uid \in Nat /\ r.uid < nextUid /\ r.uid # nextUid
  BY DEF OneRowPerUid, TypeOK, Held, Queued, Row, Uids
<1>5. OneRowPerUid'
  BY <1>2, <1>3, <1>4 DEF OneRowPerUid, Queued
<1>6. LastCoversFeed'
  <2>1. \A i \in DOMAIN feed : feed[i].owner \in Nat /\ feed[i].owner < nextUid
    BY EventsInFeed DEF LastCoversFeed, Event, Uids
  <2>2. \A i \in DOMAIN feed : feed[i].owner < nextUid' /\ feed[i].owner # nextUid
    BY <1>3, <2>1
  <2> QED
    BY <1>2, <1>3, <2>2 DEF LastCoversFeed
<1>7. FiringIsDue'
  <2>1. pc = "flush" => call.alert \in Held
    BY DEF Held
  <2> QED
    BY <1>2, <1>4, <2>1 DEF FiringIsDue, CooldownElapsed
<1>8. LateFiresBounded'
  BY <1>2, <1>3 DEF LateFiresBounded, AtMostOneLateFire, Uids
<1>9. CooldownRespected'
  BY DEF CooldownRespected
<1> QED
  BY <1>5, <1>6, <1>7, <1>8, <1>9

(* An update leaves the id, the uid and the last trigger of a row alone,   *)
(* and switching it on starts the count of its late events anew.           *)
LEMMA UpdateStep ==
    ASSUME MonitorInv, TypeOK', NEW r \in rows, NEW cooldown \in Cooldowns,
           NEW active \in BOOLEAN, Update(r, cooldown, active)
    PROVE  MonitorInv'
<1> USE DEF MonitorInv, Update, taskVars, netVars
<1>1. PICK new : /\ rows' = (rows \ {r}) \cup {new}
                 /\ new.uid = r.uid /\ new.id = r.id /\ new.last = r.last
                 /\ new.active = active
  <2>1. r \in Row
    BY DEF TypeOK
  <2>2. /\ [r EXCEPT !.cooldown = cooldown, !.active = active].uid = r.uid
        /\ [r EXCEPT !.cooldown = cooldown, !.active = active].id = r.id
        /\ [r EXCEPT !.cooldown = cooldown, !.active = active].last = r.last
        /\ [r EXCEPT !.cooldown = cooldown, !.active = active].active = active
    BY <2>1 DEF Row
  <2> QED
    BY <2>2
<1>2. Queued' = Queued /\ Held' = Held
  BY DEF Queued, Held
<1>3. OneRowPerUid'
  BY <1>1, <1>2 DEF OneRowPerUid, Queued
<1>4. LastCoversFeed'
  BY <1>1, <1>2 DEF LastCoversFeed
<1>5. FiringIsDue'
  BY <1>1 DEF FiringIsDue, CooldownElapsed
<1>6. LateFiresBounded'
  <2>1. /\ r.uid \in Uids /\ late \in [Uids -> Nat]
        /\ \A s \in rows \cup Held : s.uid \in Uids
    BY DEF TypeOK, Row, Held, Queued
  <2>2. \A u \in Uids : late'[u] \in {0, late[u]} /\ (u = r.uid /\ active => late'[u] = 0)
    BY <2>1
  <2> QED
    BY <1>1, <1>2, <2>1, <2>2 DEF LateFiresBounded, AtMostOneLateFire
<1>7. CooldownRespected'
  BY DEF CooldownRespected
<1> QED
  BY <1>3, <1>4, <1>5, <1>6, <1>7

(* A deletion takes a row away; its events keep their owner and time. *)
LEMMA DeleteStep ==
    ASSUME MonitorInv, TypeOK', NEW r \in rows, Delete(r)
    PROVE  MonitorInv'
<1> USE DEF MonitorInv, Delete, taskVars, netVars, aux
<1>1. /\ DOMAIN feed' = DOMAIN feed
      /\ \A i \in DOMAIN feed : /\ feed'[i].owner = feed[i].owner
                                /\ feed'[i].at = feed[i].at
                                /\ feed'[i].cooldown = feed[i].cooldown
  <2>1. r.id \in Ids /\ \A i \in DOMAIN feed : feed[i] \in Event
    BY EventsInFeed DEF TypeOK, Row
  <2> QED
    BY <2>1, OrphanedEvent
<1>2. Queued' = Queued /\ Held' = Held /\ rows' \subseteq rows
  BY DEF Queued, Held
<1>3. OneRowPerUid'
  BY <1>2 DEF OneRowPerUid
<1>4. LastCoversFeed'
  BY <1>1, <1>2 DEF LastCoversFeed
<1>5. FiringIsDue'
  BY <1>1, <1>2 DEF FiringIsDue, CooldownElapsed
<1>6. LateFiresBounded'
  BY <1>2 DEF LateFiresBounded, AtMostOneLateFire
<1>7. CooldownRespected'
  BY <1>1 DEF CooldownRespected
<1> QED
  BY <1>3, <1>4, <1>5, <1>6, <1>7

(* Time only brings alerts past their cooldown. *)
LEMMA AdvanceStep ==
    ASSUME MonitorInv, TypeOK', Advance
    PROVE  MonitorInv'
<1> USE DEF MonitorInv, Advance, dbVars, taskVars, netVars, aux
<1>1. clock \in Nat /\ clock' = clock + 1
  BY DEF TypeOK
<1>2. Queued' = Queued /\ Held' = Held
  BY DEF Queued, Held
<1>3. OneRowPerUid'
  BY <1>2 DEF OneRowPerUid
<1>4. LastCoversFeed'
  <2>1. \A i \in DOMAIN feed : feed[i].at \in Nat
    BY EventsInFeed DEF Event
  <2> QED
    BY <1>1, <1>2, <2>1 DEF LastCoversFeed
<1>5. FiringIsDue'
  <2>1. ASSUME NEW a \in firing PROVE CooldownElapsed(a, clock')
    <3>1. a.last \in Nat \cup {Never} /\ a.cooldown \in Nat
      BY DEF TypeOK, Row
    <3>2. CooldownElapsed(a, clock)
      BY DEF FiringIsDue
    <3> QED
      BY <1>1, <3>1, <3>2 DEF CooldownElapsed, Never
  <2>2. pc = "flush" => call.stamp <= clock'
    BY <1>1 DEF FiringIsDue, TypeOK
  <2> QED
    BY <2>1, <2>2 DEF FiringIsDue, CooldownElapsed
<1>6. LateFiresBounded'
  BY <1>2 DEF LateFiresBounded, AtMostOneLateFire
<1>7. CooldownRespected'
  BY DEF CooldownRespected
<1> QED
  BY <1>3, <1>4, <1>5, <1>6, <1>7

(* Each step preserves the inductive invariant. *)
LEMMA InvStep ==
    ASSUME MonitorInv, [Next]_vars
    PROVE  MonitorInv'
<1> TypeOK'
  BY TypeStep DEF MonitorInv
<1>1. CASE StartTick
  BY <1>1, StartTickStep
<1>2. CASE GroupRaises
  BY <1>2, QuietStep DEF GroupRaises, AbortTick, dbVars, aux
<1>3. CASE EvaluateGroup
  BY <1>3, EvaluateGroupStep
<1>4. CASE RecordRead
  BY <1>4, RecordReadStep
<1>5. CASE RecordFails
  BY <1>5, QuietStep DEF RecordFails, AbortTick, dbVars, aux
<1>6. CASE RecordFlush
  BY <1>6, RecordFlushStep
<1>7. ASSUME NEW c \in Conns, SendFrame(c) PROVE MonitorInv'
  BY <1>7, QuietStep DEF SendFrame, dbVars
<1>8. CASE BroadcastDone
  <2>1. /\ pc' \in {"read", "fetch", "sleep"}
        /\ pc' \in {"fetch", "sleep"} => firing = {}
    BY <1>8 DEF BroadcastDone, Resume
  <2> QED
    BY <1>8, <2>1, QuietStep DEF BroadcastDone, dbVars, aux
<1>9. ASSUME NEW s \in Symbols, NEW k \in Kinds, NEW d \in Cooldowns, Create(s, k, d)
      PROVE MonitorInv'
  BY <1>9, CreateStep
<1>10. ASSUME NEW r \in rows, NEW d \in Cooldowns, NEW b \in BOOLEAN, Update(r, d, b)
       PROVE MonitorInv'
  BY <1>10, UpdateStep
<1>11. ASSUME NEW r \in rows, Delete(r) PROVE MonitorInv'
  BY <1>11, DeleteStep
<1>12. firing = {} \/ pc \notin {"sleep", "fetch", "down"}
  BY DEF MonitorInv, FiringIsDue
<1>13. ASSUME NEW c \in Conns, Connect(c) \/ Drop(c) \/ ServerNotices(c)
       PROVE MonitorInv'
  BY <1>12, <1>13, QuietStep DEF Connect, Drop, ServerNotices, dbVars, taskVars, aux
<1>14. CASE Halt
  BY <1>14, QuietStep DEF Halt, dbVars
<1>15. CASE Restart
  BY <1>12, <1>15, QuietStep DEF Restart, dbVars, aux
<1>16. CASE Advance
  BY <1>16, AdvanceStep
<1>17. CASE UNCHANGED vars
  BY <1>12, <1>17, QuietStep DEF vars, dbVars, taskVars, aux
<1> QED
  BY <1>1, <1>2, <1>3, <1>4, <1>5, <1>6, <1>7, <1>8, <1>9, <1>10, <1>11, <1>13,
     <1>14, <1>15, <1>16, <1>17
     DEF Next, MonitorStep, RouteStep, SocketStep

(* Every reachable state satisfies the inductive invariant. *)
THEOREM InvCorrect == Spec => []MonitorInv
<1>1. Init => MonitorInv
  <2> SUFFICES ASSUME Init PROVE MonitorInv
    OBVIOUS
  <2>1. TypeOK
    BY DEF Init, TypeOK, Row, Event, Uids, Ids
  <2>2. Queued = {} /\ Held = {}
    BY DEF Init, Queued, Held
  <2> QED
    BY <2>1, <2>2 DEF Init, MonitorInv, OneRowPerUid, LastCoversFeed, FiringIsDue,
                      LateFiresBounded, AtMostOneLateFire, CooldownRespected
<1>2. MonitorInv /\ [Next]_vars => MonitorInv'
  BY InvStep
<1> QED
  BY <1>1, <1>2, PTL DEF Spec

(* _cooldown_elapsed reads a copy of the row made before the awaits of the *)
(* tick, and yet two events of one alert always lie a cooldown apart.      *)
THEOREM CooldownCorrect == Spec => []CooldownRespected
<1>1. MonitorInv => CooldownRespected
  BY DEF MonitorInv
<1> QED
  BY <1>1, InvCorrect, PTL

(* An alert switched off or deleted under a running tick fires at most     *)
(* once more.                                                              *)
THEOREM LateFireCorrect == Spec => []AtMostOneLateFire
<1>1. MonitorInv => AtMostOneLateFire
  BY DEF MonitorInv, LateFiresBounded
<1> QED
  BY <1>1, InvCorrect, PTL
(***************************************************************************)
(* Broadcasts.                                                             *)
(***************************************************************************)

(* The clients a frame is owed to are among those broadcast has yet to     *)
(* send it to.                                                             *)
OwedIsSending == owed \subseteq sending /\ BroadcastComplete

(* Each step keeps the debt within the rest of the broadcast. *)
LEMMA OwedStep ==
    ASSUME OwedIsSending, [Next]_vars
    PROVE  OwedIsSending'
<1> USE DEF OwedIsSending, BroadcastComplete
<1>1. CASE MonitorStep
  <2>1. CASE StartTick \/ GroupRaises \/ EvaluateGroup \/ RecordRead \/ RecordFails
    BY <2>1 DEF StartTick, GroupRaises, EvaluateGroup, RecordRead, RecordFails,
                AbortTick, aux
  <2>2. CASE RecordFlush
    BY <2>2 DEF RecordFlush
  <2>3. ASSUME NEW c \in Conns, SendFrame(c) PROVE OwedIsSending'
    BY <2>3 DEF SendFrame
  <2>4. CASE BroadcastDone
    BY <2>4 DEF BroadcastDone, aux
  <2> QED
    BY <1>1, <2>1, <2>2, <2>3, <2>4 DEF MonitorStep
<1>2. CASE RouteStep
  BY <1>2 DEF RouteStep, Create, Update, Delete, taskVars, aux
<1>3. CASE SocketStep
  BY <1>3 DEF SocketStep, Connect, Drop, ServerNotices, taskVars, aux
<1>4. CASE Halt \/ Restart \/ Advance \/ UNCHANGED vars
  BY <1>4 DEF Halt, Restart, Advance, vars, taskVars, aux
<1> QED
  BY <1>1, <1>2, <1>3, <1>4 DEF Next

(* A broadcast reaches every client that was connected when it began and   *)
(* still is, however many dead sockets there are among them.               *)
THEOREM BroadcastCorrect == Spec => []BroadcastComplete
<1>1. Init => OwedIsSending
  BY DEF Init, OwedIsSending, BroadcastComplete
<1>2. OwedIsSending /\ [Next]_vars => OwedIsSending'
  BY OwedStep
<1>3. OwedIsSending => BroadcastComplete
  BY DEF OwedIsSending
<1> QED
  BY <1>1, <1>2, <1>3, PTL DEF Spec

(***************************************************************************)
(* The monitor implements its contract.                                    *)
(***************************************************************************)

(* The cooldown in a row, and in the copies of it, is one the alert has    *)
(* had, and only alerts that exist have had any.                           *)
CooldownsKnown ==
    /\ \A r \in rows \cup Held : r.cooldown \in had[r.uid]
    /\ \A u \in Uids : u >= nextUid => had[u] = {}

(* A step that changes neither the rows nor had, and takes no new copies,  *)
(* keeps the cooldowns known.                                              *)
LEMMA QuietCooldowns ==
    ASSUME CooldownsKnown, rows' \subseteq rows, UNCHANGED <<nextUid, had>>,
           pending' \subseteq pending \cup rows,
           firing' \subseteq firing \cup pending,
           pc' = "flush" => \/ pc = "flush" /\ call' = call
                            \/ call'.alert \in firing
    PROVE  CooldownsKnown'
<1>1. Held' \subseteq Held \cup rows
  BY DEF Held, Queued
<1> QED
  BY <1>1 DEF CooldownsKnown

(* Each step keeps the cooldowns known. *)
LEMMA CooldownsStep ==
    ASSUME MonitorInv, CooldownsKnown, [Next]_vars
    PROVE  CooldownsKnown'
<1>1. CASE StartTick
  BY <1>1, QuietCooldowns DEF StartTick, dbVars, aux
<1>2. CASE GroupRaises
  BY <1>2, QuietCooldowns DEF GroupRaises, AbortTick, dbVars, aux
<1>3. CASE EvaluateGroup
  BY <1>3, QuietCooldowns DEF EvaluateGroup, CanHold, NextGroup, Resume, dbVars, aux
<1>4. CASE RecordRead
  BY <1>4, QuietCooldowns DEF RecordRead, First, dbVars, aux
<1>5. CASE RecordFails
  BY <1>5, QuietCooldowns DEF RecordFails, AbortTick, dbVars, aux
<1>6. CASE RecordFlush
  <2>1. /\ call \in [alert : Row, stamp : Nat, seen : BOOLEAN]
        /\ \A r \in rows : r \in Row
    BY <1>6 DEF RecordFlush, MonitorInv, TypeOK
  <2>2. \A r \in rows : /\ Stamped(r).uid = r.uid
                        /\ Stamped(r).cooldown = r.cooldown
    BY <2>1 DEF Stamped, Row
  <2>3. \A r \in rows' : \E s \in rows : r.uid = s.uid /\ r.cooldown = s.cooldown
    BY <1>6, <2>2 DEF RecordFlush, RowAt
  <2>4. Held' \subseteq Held /\ nextUid' = nextUid /\ had' = had
    BY <1>6 DEF RecordFlush, Held, Queued
  <2> QED
    BY <2>3, <2>4 DEF CooldownsKnown
<1>7. ASSUME NEW c \in Conns, SendFrame(c) PROVE CooldownsKnown'
  BY <1>7, QuietCooldowns DEF SendFrame, dbVars
<1>8. CASE BroadcastDone
  BY <1>8, QuietCooldowns DEF BroadcastDone, Resume, dbVars, aux
<1>9. ASSUME NEW s \in Symbols, NEW k \in Kinds, NEW d \in Cooldowns, Create(s, k, d)
      PROVE CooldownsKnown'
  <2>1. \A id \in Ids : /\ NewRow(id, s, k, d).uid = nextUid
                        /\ NewRow(id, s, k, d).cooldown = d
    BY DEF NewRow
  <2>2. PICK new : rows' = rows \cup {new} /\ new.uid = nextUid /\ new.cooldown = d
    BY <1>9, <2>1 DEF Create
  <2>3. Held' = Held /\ nextUid' = nextUid + 1 /\ had' = [had EXCEPT ![nextUid] = {d}]
    BY <1>9 DEF Create, taskVars, Held, Queued
  <2>4. /\ nextUid \in Uids /\ had \in [Uids -> SUBSET Cooldowns]
        /\ \A r \in rows \cup Held : r.uid \in Uids /\ r.uid < nextUid
    BY <1>9 DEF Create, MonitorInv, TypeOK, Uids, OneRowPerUid, Held, Queued, Row
  <2>5. \A r \in rows \cup Held : r.uid # nextUid
    BY <2>4 DEF Uids
  <2> QED
    BY <2>2, <2>3, <2>4, <2>5 DEF CooldownsKnown, Uids
<1>10. ASSUME NEW r \in rows, NEW d \in Cooldowns, NEW b \in BOOLEAN, Update(r, d, b)
       PROVE CooldownsKnown'
  <2>1. r \in Row /\ had \in [Uids -> SUBSET Cooldowns]
        /\ \A s \in rows \cup Held : s.uid \in Uids
    BY DEF MonitorInv, TypeOK, Row, Held, Queued
  <2>2. /\ [r EXCEPT !.cooldown = d, !.active = b].uid = r.uid
        /\ [r EXCEPT !.cooldown = d, !.active = b].cooldown = d
    BY <2>1 DEF Row
  <2>3. PICK new : rows' = (rows \ {r}) \cup {new} /\ new.uid = r.uid /\ new.cooldown = d
    BY <1>10, <2>2 DEF Update
  <2>4. Held' = Held /\ nextUid' = nextUid /\ had' = [had EXCEPT ![r.uid] = @ \cup {d}]
    BY <1>10 DEF Update, taskVars, Held, Queued
  <2>5. r.uid < nextUid /\ r.uid \in Uids
    BY <2>1 DEF MonitorInv, OneRowPerUid
  <2>6. nextUid \in Nat
    BY DEF MonitorInv, TypeOK
  <2> QED
    BY <2>1, <2>3, <2>4, <2>5, <2>6 DEF CooldownsKnown, Uids
<1>11. ASSUME NEW r \in rows, Delete(r) PROVE CooldownsKnown'
  BY <1>11, QuietCooldowns DEF Delete, taskVars, aux
<1>12. ASSUME NEW c \in Conns, Connect(c) \/ Drop(c) \/ ServerNotices(c)
       PROVE CooldownsKnown'
  BY <1>12, QuietCooldowns DEF Connect, Drop, ServerNotices, dbVars, taskVars, aux
<1>13. CASE Halt
  BY <1>13, QuietCooldowns DEF Halt, dbVars
<1>14. CASE Restart
  BY <1>14, QuietCooldowns DEF Restart, dbVars, aux
<1>15. CASE Advance \/ UNCHANGED vars
  BY <1>15, QuietCooldowns DEF Advance, vars, dbVars, taskVars, aux
<1> QED
  BY <1>1, <1>2, <1>3, <1>4, <1>5, <1>6, <1>7, <1>8, <1>9, <1>10, <1>11, <1>12,
     <1>13, <1>14, <1>15
     DEF Next, MonitorStep, RouteStep, SocketStep

(* The event the contract sees in an entry of the feed. *)
Seen(e) == [owner |-> e.owner, at |-> e.at, cooldown |-> e.cooldown]

(* What the contract sees depends on the tables and the clock only. *)
LEMMA UnseenStep ==
    ASSUME UNCHANGED <<rows, feed, nextUid, clock, late, had>>
    PROVE  UNCHANGED Promise!vars
  BY DEF Promise!vars, Status, SwitchedOff

(* The status of an alert of the table is settled by its row. *)
LEMMA StatusOfRow ==
    ASSUME MonitorInv, NEW r \in rows
    PROVE  /\ r.uid \in Uids /\ ~(r.uid >= nextUid)
           /\ r.active <=> ~SwitchedOff(r.uid)
           /\ r.active => late[r.uid] = 0
<1>1. r.uid \in Uids /\ r.uid < nextUid /\ nextUid \in Nat
  BY DEF MonitorInv, TypeOK, OneRowPerUid, Row
<1>2. r.active <=> ~SwitchedOff(r.uid)
  BY DEF SwitchedOff, MonitorInv, OneRowPerUid
<1>3. r.active => late[r.uid] = 0
  BY DEF MonitorInv, LateFiresBounded
<1> QED
  BY <1>1, <1>2, <1>3 DEF Uids

(* record_event fires an alert the contract still lets fire. *)
LEMMA FlushFires ==
    ASSUME MonitorInv, MonitorInv', CooldownsKnown, RecordFlush
    PROVE  Promise!Fire(call.alert.uid, call.stamp, call.alert.cooldown)
<1> DEFINE n == Len(feed) + 1
<1>0. PICK u \in Uids : u = call.alert.uid
  BY DEF RecordFlush, MonitorInv, TypeOK, Row
<1>1. /\ call.alert \in Held /\ call.alert \in Row /\ u \in Uids /\ u < nextUid
      /\ nextUid \in Nat /\ late \in [Uids -> Nat] /\ late[u] = 0
      /\ call \in [alert : Row, stamp : Nat, seen : BOOLEAN]
  BY <1>0 DEF RecordFlush, MonitorInv, TypeOK, Held, Row, OneRowPerUid, LateFiresBounded
<1>2. call.alert.cooldown \in had[u] /\ call.stamp <= clock
  BY <1>0, <1>1 DEF CooldownsKnown, RecordFlush, MonitorInv, FiringIsDue
<1>3. /\ feed \in Seq(Event) /\ feed' = Append(feed, NewEvent)
      /\ NewEvent.owner = u /\ NewEvent.at = call.stamp
      /\ NewEvent.cooldown = call.alert.cooldown
  BY <1>0 DEF RecordFlush, MonitorInv, TypeOK, NewEvent
<1>4. /\ DOMAIN feed' = 1..n /\ DOMAIN feed = 1..Len(feed) /\ Len(feed) \in Nat
      /\ feed'[n] = NewEvent /\ \A i \in DOMAIN feed : feed'[i] = feed[i]
  BY <1>3
<1>5. \A i \in DOMAIN feed : feed[i].owner = u
          => call.stamp - feed[i].at >= call.alert.cooldown
  <2>1. \A i \in DOMAIN feed : i \in DOMAIN feed' /\ n \in DOMAIN feed' /\ i < n
    BY <1>4
  <2> QED
    BY <1>3, <1>4, <2>1 DEF MonitorInv, CooldownRespected
<1>6. [i \in DOMAIN feed' |-> Seen(feed'[i])]
        = Append([i \in DOMAIN feed |-> Seen(feed[i])],
                 [owner |-> u, at |-> call.stamp, cooldown |-> call.alert.cooldown])
  BY <1>3, <1>4 DEF Seen
<1>7. \A v \in Uids : SwitchedOff(v)' <=> SwitchedOff(v)
  <2>1. \A r \in rows : /\ Stamped(r).uid = r.uid
                        /\ Stamped(r).active = r.active
    BY <1>1 DEF Stamped, Row, MonitorInv, TypeOK
  <2>2. /\ \A r \in rows' : \E s \in rows : r.uid = s.uid /\ r.active = s.active
        /\ \A s \in rows : \E r \in rows' : r.uid = s.uid /\ r.active = s.active
    BY <2>1 DEF RecordFlush, RowAt
  <2> QED
    BY <2>2 DEF SwitchedOff
<1>8. /\ nextUid' = nextUid /\ had' = had /\ clock' = clock
      /\ late' = IF SwitchedOff(u) THEN [late EXCEPT ![u] = @ + 1] ELSE late
  BY <1>0 DEF RecordFlush
<1>9. /\ Status(u) = IF SwitchedOff(u) THEN "closing" ELSE "on"
      /\ Status(u)' = IF SwitchedOff(u) THEN "off" ELSE "on"
  BY <1>1, <1>7, <1>8 DEF Status, Uids
<1>10. \A v \in Uids : v # u => Status(v)' = Status(v)
  BY <1>1, <1>7, <1>8 DEF Status
<1> DEFINE status == [v \in Uids |-> Status(v)]
<1>11. status' = [status EXCEPT ![u] = IF @ = "closing" THEN "off" ELSE @]
  BY <1>1, <1>9, <1>10
<1>12. status[u] \in {"on", "closing"}
  BY <1>1, <1>9
<1> QED
  BY <1>0, <1>1, <1>2, <1>4, <1>5, <1>6, <1>8, <1>11, <1>12 DEF Promise!Fire, Seen

(* A creation configures an alert the contract has not seen yet. *)
LEMMA CreateConfigures ==
    ASSUME MonitorInv, CooldownsKnown, NEW s \in Symbols, NEW k \in Kinds,
           NEW d \in Cooldowns, Create(s, k, d)
    PROVE  \E u \in Uids : Promise!Configure(u, d, TRUE)
<1>0. PICK u \in Uids : u = nextUid
  BY DEF Create, MonitorInv, TypeOK, Uids
<1>1. \A id \in Ids : /\ NewRow(id, s, k, d).uid = u
                      /\ NewRow(id, s, k, d).active
  BY <1>0 DEF NewRow
<1>2. PICK new : rows' = rows \cup {new} /\ new.uid = u /\ new.active
  BY <1>1 DEF Create
<1>3. /\ UNCHANGED <<feed, clock, late>> /\ nextUid' = u + 1
      /\ had' = [had EXCEPT ![u] = {d}] /\ had[u] = {}
      /\ had \in [Uids -> SUBSET Cooldowns]
  BY <1>0 DEF Create, CooldownsKnown, MonitorInv, TypeOK, Uids
<1>4. Status(u)' = "on"
  BY <1>2, <1>3 DEF Status, SwitchedOff, Uids
<1>5. ASSUME NEW v \in Uids, v # u PROVE Status(v)' = Status(v)
  <2>1. SwitchedOff(v)' <=> SwitchedOff(v)
    BY <1>2, <1>5 DEF SwitchedOff
  <2>2. v >= nextUid' <=> v >= nextUid
    BY <1>0, <1>3, <1>5 DEF Uids
  <2> QED
    BY <1>3, <2>1, <2>2 DEF Status
<1> DEFINE status == [v \in Uids |-> Status(v)]
<1>6. status' = [status EXCEPT ![u] = "on"]
  BY <1>4, <1>5
<1>7. had' = [had EXCEPT ![u] = @ \cup {d}]
  BY <1>3
<1> QED
  BY <1>3, <1>6, <1>7 DEF Promise!Configure

(* An update configures the alert of its row, late fires included: what    *)
(* was switched off stays as it was unless it is switched on.              *)
LEMMA UpdateConfigures ==
    ASSUME MonitorInv, NEW r \in rows, NEW d \in Cooldowns, NEW on \in BOOLEAN,
           Update(r, d, on)
    PROVE  Promise!Configure(r.uid, d, on)
<1> DEFINE u == r.uid
<1>1. u \in Uids /\ ~(u >= nextUid) /\ (r.active <=> ~SwitchedOff(u))
      /\ (r.active => late[u] = 0)
  BY StatusOfRow
<1>2. /\ [r EXCEPT !.cooldown = d, !.active = on].uid = u
      /\ [r EXCEPT !.cooldown = d, !.active = on].active = on
  BY DEF MonitorInv, TypeOK, Row
<1>3. PICK new : rows' = (rows \ {r}) \cup {new} /\ new.uid = u /\ new.active = on
  BY <1>2 DEF Update
<1>4. /\ UNCHANGED <<feed, nextUid, clock>>
      /\ late' = IF on THEN [late EXCEPT ![u] = 0] ELSE late
      /\ had' = [had EXCEPT ![u] = @ \cup {d}]
      /\ late \in [Uids -> Nat]
  BY DEF Update, MonitorInv, TypeOK
<1>5. \A q \in rows : q.uid = u => q = r
  BY DEF MonitorInv, OneRowPerUid
<1>6. SwitchedOff(u)' <=> ~on
  BY <1>3, <1>5 DEF SwitchedOff
<1>7. Status(u)' = IF on THEN "on" ELSE IF Status(u) = "on" THEN "closing" ELSE Status(u)
  BY <1>1, <1>4, <1>6 DEF Status
<1>8. ASSUME NEW v \in Uids, v # u PROVE Status(v)' = Status(v)
  <2>1. SwitchedOff(v)' <=> SwitchedOff(v)
    BY <1>3, <1>8 DEF SwitchedOff
  <2> QED
    BY <1>4, <1>8, <2>1 DEF Status
<1> DEFINE status == [v \in Uids |-> Status(v)]
<1>9. status' = [status EXCEPT ![u] =
                   IF on THEN "on" ELSE IF @ = "on" THEN "closing" ELSE @]
  BY <1>1, <1>7, <1>8
<1> QED
  BY <1>4, <1>9 DEF Promise!Configure

(* A deletion removes the alert if it was on, and is not seen otherwise. *)
LEMMA DeleteRemoves ==
    ASSUME MonitorInv, NEW r \in rows, Delete(r)
    PROVE  Promise!Remove(r.uid) \/ UNCHANGED Promise!vars
<1> DEFINE u == r.uid
<1>1. u \in Uids /\ ~(u >= nextUid) /\ (r.active <=> ~SwitchedOff(u))
      /\ (r.active => late[u] = 0)
  BY StatusOfRow
<1>2. /\ rows' = rows \ {r} /\ UNCHANGED <<nextUid, clock, late, had>>
      /\ DOMAIN feed' = DOMAIN feed
      /\ \A i \in DOMAIN feed : feed'[i] = Orphaned(feed[i], r.id)
  BY DEF Delete, taskVars, netVars, aux
<1>3. \A i \in DOMAIN feed : Seen(feed'[i]) = Seen(feed[i])
  <2>1. r.id \in Ids /\ \A i \in DOMAIN feed : feed[i] \in Event
    BY EventsInFeed DEF MonitorInv, TypeOK, Row
  <2> QED
    BY <1>2, <2>1, OrphanedEvent DEF Seen
<1>4. [i \in DOMAIN feed' |-> Seen(feed'[i])] = [i \in DOMAIN feed |-> Seen(feed[i])]
  BY <1>2, <1>3
<1>5. SwitchedOff(u)'
  BY <1>2 DEF SwitchedOff, MonitorInv, OneRowPerUid
<1>6. Status(u)' = IF Status(u) = "on" THEN "closing" ELSE Status(u)
  BY <1>1, <1>2, <1>5 DEF Status
<1>7. ASSUME NEW v \in Uids, v # u PROVE Status(v)' = Status(v)
  <2>1. SwitchedOff(v)' <=> SwitchedOff(v)
    BY <1>2, <1>7 DEF SwitchedOff
  <2> QED
    BY <1>2, <1>7, <2>1 DEF Status
<1> DEFINE status == [v \in Uids |-> Status(v)]
<1>8. CASE Status(u) = "on"
  <2>1. status' = [status EXCEPT ![u] = "closing"] /\ status[u] = "on"
    BY <1>1, <1>6, <1>7, <1>8
  <2> QED
    BY <1>2, <1>4, <2>1 DEF Promise!Remove, Seen
<1>9. CASE Status(u) # "on"
  <2>1. status' = status
    BY <1>1, <1>6, <1>7, <1>9
  <2> QED
    BY <1>2, <1>4, <2>1 DEF Promise!vars, Seen
<1> QED
  BY <1>8, <1>9

(* The passing of time is all the contract sees of an advance. *)
LEMMA AdvancePasses ==
    ASSUME Advance
    PROVE  Promise!Pass
  BY DEF Advance, dbVars, taskVars, netVars, aux, Promise!Pass, Status, SwitchedOff

(* Every step of the monitor is a step of the contract, or is not seen. *)
LEMMA ContractStep ==
    ASSUME MonitorInv, MonitorInv', CooldownsKnown, [Next]_vars
    PROVE  [Promise!Next]_Promise!vars
<1>1. CASE StartTick \/ GroupRaises \/ EvaluateGroup \/ RecordRead \/ RecordFails
             \/ BroadcastDone
  BY <1>1, UnseenStep DEF StartTick, GroupRaises, EvaluateGroup, RecordRead,
                          RecordFails, BroadcastDone, dbVars, aux
<1>2. CASE RecordFlush
  <2>1. PICK u \in Uids, at \in Nat, d \in Cooldowns :
             u = call.alert.uid /\ at = call.stamp /\ d = call.alert.cooldown
    BY <1>2 DEF RecordFlush, MonitorInv, TypeOK, Row
  <2>2. Promise!Fire(u, at, d)
    BY <1>2, <2>1, FlushFires DEF Promise!Fire
  <2>3. at \in 0..clock
    BY <1>2, <2>1 DEF RecordFlush, MonitorInv, TypeOK, FiringIsDue
  <2> QED
    BY <2>2, <2>3 DEF Promise!Next
<1>3. ASSUME NEW c \in Conns, SendFrame(c) PROVE UNCHANGED Promise!vars
  BY <1>3, UnseenStep DEF SendFrame, dbVars
<1>4. ASSUME NEW s \in Symbols, NEW k \in Kinds, NEW d \in Cooldowns, Create(s, k, d)
      PROVE Promise!Next
  BY <1>4, CreateConfigures DEF Promise!Next
<1>5. ASSUME NEW r \in rows, NEW d \in Cooldowns, NEW b \in BOOLEAN, Update(r, d, b)
      PROVE Promise!Next
  BY <1>5, UpdateConfigures, StatusOfRow DEF Promise!Next
<1>6. ASSUME NEW r \in rows, Delete(r) PROVE [Promise!Next]_Promise!vars
  BY <1>6, DeleteRemoves, StatusOfRow DEF Promise!Next
<1>7. ASSUME NEW c \in Conns, Connect(c) \/ Drop(c) \/ ServerNotices(c)
      PROVE UNCHANGED Promise!vars
  BY <1>7, UnseenStep DEF Connect, Drop, ServerNotices, dbVars, aux
<1>8. CASE Halt \/ Restart \/ UNCHANGED vars
  BY <1>8, UnseenStep DEF Halt, Restart, vars, dbVars, aux
<1>9. CASE Advance
  BY <1>9, AdvancePasses DEF Promise!Next
<1> QED
  BY <1>1, <1>2, <1>3, <1>4, <1>5, <1>6, <1>7, <1>8, <1>9
     DEF Next, MonitorStep, RouteStep, SocketStep

(* The monitor keeps its contract: snapshots, threads, reused ids and      *)
(* restarts cannot be seen in the events (schemas.py: an alert is          *)
(* evaluated "respecting a cooldown").                                     *)
THEOREM ContractCorrect == Spec => ImplementsContract
<1>1. Init => Promise!Init
  BY DEF Init, Promise!Init, Status, Uids
<1>2. Init => CooldownsKnown
  <2> SUFFICES ASSUME Init PROVE CooldownsKnown
    OBVIOUS
  <2>1. Held = {}
    BY DEF Init, Held, Queued
  <2> QED
    BY <2>1 DEF Init, CooldownsKnown
<1>3. MonitorInv /\ CooldownsKnown /\ [Next]_vars => CooldownsKnown'
  BY CooldownsStep
<1>4. MonitorInv /\ MonitorInv' /\ CooldownsKnown /\ [Next]_vars
        => [Promise!Next]_Promise!vars
  BY ContractStep
<1>5. Spec => []MonitorInv
  BY InvCorrect
<1> QED
  BY <1>1, <1>2, <1>3, <1>4, <1>5, PTL DEF Spec, ImplementsContract, Promise!Spec

=============================================================================
